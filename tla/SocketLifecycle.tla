-------------------------- MODULE SocketLifecycle --------------------------
(***************************************************************************)
(* NewSocket and Close of xdp.go: the descriptor, the UMEM and the ring    *)
(* mappings a Socket acquires one by one, any of which may fail, and what  *)
(* Close gives back.  Other goroutines open and close descriptors in       *)
(* between, so a number that was closed is soon in use again.              *)
(***************************************************************************)
EXTENDS Integers, Sequences

CONSTANT FD   \* file descriptor numbers

NoFd == -1

ASSUME FDAssumption == FD \subseteq Nat /\ FD # {}

VARIABLES
  hasRx, hasTx,   \* options: whether RxRingNumDescs, TxRingNumDescs are > 0
  fd, umem,       \* fields of Socket; umem says whether the slice is non-nil
  descs,          \* the rings whose Descs slice points into a mapping
  counters,       \* the rings whose Producer and Consumer do
  table,          \* who uses each descriptor number
  mapped,         \* the mappings that exist: the UMEM and rings
  status,         \* "building", "open", "failed" or "closed"
  next,           \* the next step of NewSocket
  err             \* whether a Close has returned an error

options == <<hasRx, hasTx>>
fields == <<fd, umem, descs, counters>>
vars == <<options, fields, table, mapped, status, next, err>>

Ring == {"fill", "completion", "rx", "tx"}
SockOpt == {"UMEM_REG", "FILL_RING", "COMPLETION_RING", "RX_RING", "TX_RING", "MMAP_OFFSETS"}

If(condition, steps) == IF condition THEN steps ELSE << >>

(* The system calls of NewSocket, in order; a ring's name is its mmap. *)
Steps ==
  <<"socket", "umem", "UMEM_REG", "FILL_RING", "COMPLETION_RING">>
    \o If(hasRx, <<"RX_RING">>) \o If(hasTx, <<"TX_RING">>)
    \o <<"check", "MMAP_OFFSETS", "fill", "completion">>
    \o If(hasRx, <<"rx">>) \o If(hasTx, <<"tx">>)
    \o <<"bind">>

At(steps) == status = "building" /\ Steps[next] \in steps

Advance ==
  /\ next' = next + 1
  /\ status' = IF next = Len(Steps) THEN "open" ELSE "building"

Return(outcome) == status' = outcome /\ UNCHANGED next

Init ==
  /\ hasRx \in BOOLEAN /\ hasTx \in BOOLEAN
  /\ fd = NoFd /\ umem = FALSE /\ descs = {} /\ counters = {}
  /\ table = [n \in FD |-> "free"]
  /\ mapped = {}
  /\ status = "building" /\ next = 1
  /\ err = FALSE
-----------------------------------------------------------------------------
(* Mutants: fd is reset to 0; fd is not reset; the UMEM is forgotten; the  *)
(* rings are unmapped while their counters still point into them.          *)
CloseZeroesFd(closeFails, unmapFails) ==
  /\ IF fd # NoFd
     THEN table' = [table EXCEPT ![fd] = "free"] /\ descs' = {} /\ fd' = 0
     ELSE UNCHANGED <<table, fd, descs>>
  /\ mapped' = IF umem /\ ~unmapFails THEN mapped \ {"umem"} ELSE mapped
  /\ umem' = FALSE
  /\ err' = (err \/ (fd # NoFd /\ closeFails) \/ (umem /\ unmapFails))
  /\ UNCHANGED <<options, counters>>

CloseKeepsFd(closeFails, unmapFails) ==
  /\ IF fd # NoFd
     THEN table' = [table EXCEPT ![fd] = "free"] /\ descs' = {} /\ UNCHANGED fd
     ELSE UNCHANGED <<table, fd, descs>>
  /\ mapped' = IF umem /\ ~unmapFails THEN mapped \ {"umem"} ELSE mapped
  /\ umem' = FALSE
  /\ err' = (err \/ (fd # NoFd /\ closeFails) \/ (umem /\ unmapFails))
  /\ UNCHANGED <<options, counters>>

CloseKeepsUmem(closeFails, unmapFails) ==
  /\ IF fd # NoFd
     THEN table' = [table EXCEPT ![fd] = "free"] /\ descs' = {} /\ fd' = NoFd
     ELSE UNCHANGED <<table, fd, descs>>
  /\ umem' = FALSE
  /\ err' = (err \/ (fd # NoFd /\ closeFails))
  /\ UNCHANGED <<options, counters, mapped>>

CloseUnmapsRings(closeFails, unmapFails) ==
  /\ IF fd # NoFd
     THEN table' = [table EXCEPT ![fd] = "free"] /\ descs' = {} /\ fd' = NoFd
     ELSE UNCHANGED <<table, fd, descs>>
  /\ mapped' = {}
  /\ umem' = FALSE
  /\ err' = (err \/ (fd # NoFd /\ closeFails))
  /\ UNCHANGED <<options, counters>>

(* Close: the descriptor is gone even when close(2) reports an error.  The *)
(* ring slices are emptied; the counters and the ring mappings stay.       *)
Close(closeFails, unmapFails) ==
  /\ IF fd # NoFd
     THEN /\ table' = [table EXCEPT ![fd] = "free"]
          /\ fd' = NoFd
          /\ descs' = {}
     ELSE UNCHANGED <<table, fd, descs>>
  /\ mapped' = IF umem /\ ~unmapFails THEN mapped \ {"umem"} ELSE mapped
  /\ umem' = FALSE
  /\ err' = (err \/ (fd # NoFd /\ closeFails) \/ (umem /\ unmapFails))
  /\ UNCHANGED <<options, counters>>

(* A system call of NewSocket fails: Close, then return the error. *)
Fail(closeFails, unmapFails) ==
  /\ At({"umem", "bind"} \cup SockOpt \cup Ring)
  /\ Close(closeFails, unmapFails)
  /\ Return("failed")

(* syscall.Socket *)
OpenSocket(n) ==
  /\ At({"socket"}) /\ table[n] = "free"
  /\ fd' = n
  /\ table' = [table EXCEPT ![n] = "xsk"]
  /\ Advance
  /\ UNCHANGED <<options, umem, descs, counters, mapped, err>>

(* There is nothing to close yet. *)
OpenSocketFails ==
  /\ At({"socket"})
  /\ Return("failed")
  /\ UNCHANGED <<options, fields, table, mapped, err>>

MapUmem ==
  /\ At({"umem"})
  /\ umem' = TRUE
  /\ mapped' = mapped \cup {"umem"}
  /\ Advance
  /\ UNCHANGED <<options, fd, descs, counters, table, err>>

(* The setsockopt and getsockopt calls, and bind. *)
Configure ==
  /\ At(SockOpt \cup {"bind"})
  /\ Advance
  /\ UNCHANGED <<options, fields, table, mapped, err>>

(* if !(rxRing || txRing): the error is returned without a Close. *)
CheckRings ==
  /\ At({"check"})
  /\ IF hasRx \/ hasTx THEN Advance ELSE Return("failed")
  /\ UNCHANGED <<options, fields, table, mapped, err>>

(* Map a ring, point its counters and its slice into it. *)
MapRing(r) ==
  /\ At({r})
  /\ mapped' = mapped \cup {r}
  /\ counters' = counters \cup {r}
  /\ descs' = descs \cup {r}
  /\ Advance
  /\ UNCHANGED <<options, fd, umem, table, err>>

(* The program closes the socket, perhaps more than once. *)
UserClose(closeFails, unmapFails) ==
  /\ status \in {"open", "closed"}
  /\ Close(closeFails, unmapFails)
  /\ Return("closed")

OtherOpens(n) ==
  /\ table[n] = "free"
  /\ table' = [table EXCEPT ![n] = "other"]
  /\ UNCHANGED <<options, fields, mapped, status, next, err>>

OtherCloses(n) ==
  /\ table[n] = "other"
  /\ table' = [table EXCEPT ![n] = "free"]
  /\ UNCHANGED <<options, fields, mapped, status, next, err>>

Next ==
  \/ \E n \in FD : OpenSocket(n) \/ OtherOpens(n) \/ OtherCloses(n)
  \/ OpenSocketFails \/ MapUmem \/ Configure \/ CheckRings
  \/ \E r \in Ring : MapRing(r)
  \/ \E closeFails, unmapFails \in BOOLEAN :
       Fail(closeFails, unmapFails) \/ UserClose(closeFails, unmapFails)

Spec == Init /\ [][Next]_vars
-----------------------------------------------------------------------------
(* The fields of Socket (xdp.go:137-154) as NewSocket and Close set them. *)
TypeOK ==
  /\ hasRx \in BOOLEAN /\ hasTx \in BOOLEAN
  /\ fd \in FD \cup {NoFd} /\ umem \in BOOLEAN
  /\ descs \subseteq Ring /\ counters \subseteq Ring
  /\ table \in [FD -> {"free", "xsk", "other"}]
  /\ mapped \subseteq Ring \cup {"umem"}
  /\ status \in {"building", "open", "failed", "closed"}
  /\ next \in 1 .. Len(Steps) + 1
  /\ err \in BOOLEAN

(* A second Close (xdp.go:587-591,616-620) never closes a descriptor that  *)
(* somebody else was given in the meantime.                                *)
CloseSparesOthers ==
  [][\A n \in FD : table[n] = "other" /\ table'[n] # "other" => OtherCloses(n)]_vars

(* The socket's own descriptor is the one it has on record: none is lost   *)
(* while the record says it is closed (xdp.go:219,591), except for the     *)
(* error return without Close when both rings are of size zero             *)
(* (xdp.go:287-289), where the descriptor and the UMEM leak with the       *)
(* Socket.                                                                 *)
FailureReleases ==
  status \in {"failed", "closed"} /\ ~err /\ (hasRx \/ hasTx) =>
    /\ \A n \in FD : table[n] # "xsk"
    /\ "umem" \notin mapped

(* No method follows a pointer into memory that is unmapped, not even one  *)
(* called after Close: Producer and Consumer keep pointing into the ring   *)
(* (xdp.go:312-369), which Close leaves mapped, and the slices are emptied *)
(* (xdp.go:593-613).                                                       *)
PointersValid ==
  /\ counters \cup descs \subseteq mapped
  /\ umem => "umem" \in mapped
  /\ status = "closed" => descs = {}
=============================================================================
