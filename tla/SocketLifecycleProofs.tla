------------------------ MODULE SocketLifecycleProofs ------------------------
(***************************************************************************)
(* What NewSocket and Close keep, for any set of descriptor numbers and    *)
(* whatever other goroutines open and close between two system calls.      *)
(***************************************************************************)
EXTENDS SocketLifecycle, TLAPS

(* The descriptor on record is the one the process holds for the socket.   *)
RecordExact ==
  /\ fd # NoFd => table[fd] = "xsk"
  /\ \A n \in FD : table[n] = "xsk" => fd = n

(* syscall.Socket comes first, and nothing but Close takes the descriptor. *)
DescriptorKept ==
  /\ status = "building" => next <= Len(Steps)
  /\ status = "building" /\ next = 1 => fd = NoFd /\ ~umem
  /\ status = "building" /\ next > 1 => fd # NoFd
  /\ status = "open" => fd # NoFd

(* The UMEM is mapped while the field says so; else only a failed munmap   *)
(* leaves it mapped.                                                       *)
UmemKept ==
  /\ umem => "umem" \in mapped
  /\ "umem" \in mapped => umem \/ err

(* A Socket that was given back holds neither. *)
Released ==
  status \in {"failed", "closed"} /\ (hasRx \/ hasTx) => fd = NoFd /\ ~umem

IInv == TypeOK /\ RecordExact /\ DescriptorKept /\ UmemKept /\ Released /\ PointersValid
-----------------------------------------------------------------------------
(* NewSocket's first system call is the one that makes the descriptor      *)
(* (xdp.go:219), whichever rings were asked for.                           *)
LEMMA StepsBuilt ==
  ASSUME hasRx \in BOOLEAN, hasTx \in BOOLEAN
  PROVE  /\ Len(Steps) \in Nat /\ Len(Steps) > 1
         /\ Steps[1] = "socket"
         /\ \A i \in 2 .. Len(Steps) : Steps[i] # "socket"
<1>1. CASE hasRx /\ hasTx
  BY <1>1 DEF Steps, If
<1>2. CASE hasRx /\ ~hasTx
  BY <1>2 DEF Steps, If
<1>3. CASE ~hasRx /\ hasTx
  BY <1>3 DEF Steps, If
<1>4. CASE ~hasRx /\ ~hasTx
  BY <1>4 DEF Steps, If
<1> QED
  BY <1>1, <1>2, <1>3, <1>4

(* The options are fixed when NewSocket is called (xdp.go:213). *)
LEMMA StepsFixed ==
  ASSUME UNCHANGED options
  PROVE  Steps' = Steps
BY DEF options, Steps, If

(* Where NewSocket is when it makes any call but the first. *)
LEMMA PastSocket ==
  ASSUME IInv, NEW steps, At(steps), "socket" \notin steps
  PROVE  status = "building" /\ next \in 2 .. Len(Steps) /\ fd # NoFd /\ fd \in FD
<1>1. Len(Steps) \in Nat /\ Steps[1] = "socket"
  BY StepsBuilt DEF IInv, TypeOK
<1>2. status = "building" /\ next \in 1 .. Len(Steps)
  BY <1>1 DEF At, IInv, TypeOK, DescriptorKept
<1>3. next # 1
  BY <1>1 DEF At
<1> QED
  BY <1>2, <1>3 DEF IInv, TypeOK, DescriptorKept

(* A system call that succeeds: on to the next, or NewSocket returns. *)
LEMMA AdvanceKept ==
  ASSUME IInv, status = "building", Advance, UNCHANGED options
  PROVE  /\ next' \in 2 .. Len(Steps') + 1
         /\ status' \in {"building", "open"}
         /\ status' = "building" => next' <= Len(Steps')
<1>1. Steps' = Steps
  BY StepsFixed
<1>2. Len(Steps) \in Nat /\ next \in 1 .. Len(Steps)
  BY StepsBuilt DEF IInv, TypeOK, DescriptorKept
<1> HIDE DEF Steps
<1> QED
  BY <1>1, <1>2 DEF Advance

(* Close (xdp.go:583-620) gives the descriptor and the UMEM back, leaves   *)
(* those of others alone and no slice behind, whatever close(2) and        *)
(* munmap(2) return.                                                       *)
LEMMA CloseIInv ==
  ASSUME IInv, NEW closeFails \in BOOLEAN, NEW unmapFails \in BOOLEAN,
         Close(closeFails, unmapFails), next' = next,
         \/ status \in {"open", "closed"} /\ status' = "closed"
         \/ fd # NoFd /\ status' = "failed"
  PROVE  IInv'
<1>o. hasRx' = hasRx /\ hasTx' = hasTx /\ counters' = counters
  BY DEF Close, options
<1>s. Steps' = Steps
  BY <1>o, StepsFixed DEF options
<1>f. fd' = NoFd
  BY DEF Close
<1>u. umem' = FALSE
  BY DEF Close
<1>d. descs' \subseteq descs /\ (status' = "closed" => descs' = {})
  BY DEF Close, IInv, DescriptorKept, PointersValid
<1>m. mapped' \subseteq mapped /\ mapped \ {"umem"} \subseteq mapped'
  BY DEF Close
<1>e. err' \in BOOLEAN
  BY Zenon DEF Close
<1>n. fd # NoFd => fd \in FD
  BY DEF IInv, TypeOK
<1>t. table' \in [FD -> {"free", "xsk", "other"}] /\ \A n \in FD : table'[n] # "xsk"
  <2>0. /\ table \in [FD -> {"free", "xsk", "other"}]
        /\ \A n \in FD : table[n] = "xsk" => fd = n
        /\ NoFd \notin FD
    BY FDAssumption DEF IInv, TypeOK, RecordExact, NoFd
  <2>1. CASE fd = NoFd
    <3>1. table' = table
      BY <2>1 DEF Close
    <3> QED
      BY <2>0, <2>1, <3>1
  <2>2. CASE fd # NoFd
    <3>1. table' = [table EXCEPT ![fd] = "free"]
      BY <2>2 DEF Close
    <3> QED
      BY <1>n, <2>0, <2>2, <3>1
  <2> QED
    BY <2>1, <2>2
<1>1. TypeOK'
  <2>1. hasRx' \in BOOLEAN /\ hasTx' \in BOOLEAN /\ umem' \in BOOLEAN
    BY <1>o, <1>u, Zenon DEF IInv, TypeOK
  <2>2. fd' \in FD \cup {NoFd} /\ descs' \subseteq Ring /\ counters' \subseteq Ring
        /\ mapped' \subseteq Ring \cup {"umem"}
    BY <1>o, <1>f, <1>d, <1>m DEF IInv, TypeOK
  <2>3. status' \in {"building", "open", "failed", "closed"}
    OBVIOUS
  <2>4. next' \in 1 .. Len(Steps') + 1
    BY <1>s DEF IInv, TypeOK
  <2> QED
    BY <2>1, <2>2, <2>3, <2>4, <1>t, <1>e DEF TypeOK
<1>2. RecordExact'
  BY <1>f, <1>t DEF RecordExact
<1>3. DescriptorKept'
  BY DEF DescriptorKept
<1>4. UmemKept'
  <2>1. CASE umem
    BY <2>1, <1>u DEF Close, UmemKept
  <2>2. CASE ~umem
    <3>1. "umem" \in mapped => err
      BY <2>2 DEF IInv, UmemKept
    <3>2. mapped' = mapped /\ (err => err')
      BY <2>2 DEF Close
    <3> QED
      BY <1>u, <3>1, <3>2 DEF UmemKept
  <2> QED
    BY <2>1, <2>2
<1>5. Released'
  BY <1>f, <1>u DEF Released
<1>6. PointersValid'
  <2>1. counters' \cup descs' \subseteq mapped'
    BY <1>o, <1>d, <1>m DEF IInv, PointersValid, TypeOK, Ring
  <2> QED
    BY <1>u, <1>d, <2>1 DEF PointersValid
<1> QED
  BY <1>1, <1>2, <1>3, <1>4, <1>5, <1>6 DEF IInv

(* A system call after the first that succeeds: it changes the mappings    *)
(* and pointers at most, in step with each other (xdp.go:227-381).         *)
LEMMA BuildIInv ==
  ASSUME IInv, status = "building", next > 1, Advance,
         UNCHANGED <<options, fd, table, err>>,
         umem' \in BOOLEAN, mapped \subseteq mapped', mapped' \subseteq Ring \cup {"umem"},
         umem => umem', umem' => "umem" \in mapped', "umem" \in mapped' => umem' \/ "umem" \in mapped,
         counters' \subseteq Ring, descs' \subseteq Ring, counters' \cup descs' \subseteq mapped'
  PROVE  IInv'
<1> USE DEF IInv, options
<1>1. /\ next' \in 2 .. Len(Steps') + 1
      /\ status' \in {"building", "open"}
      /\ status' = "building" => next' <= Len(Steps')
  BY AdvanceKept
<1>2. Len(Steps') \in Nat
  <2>1. Len(Steps) \in Nat
    BY StepsBuilt DEF TypeOK
  <2> QED
    BY <2>1, StepsFixed
<1>3. fd # NoFd
  BY DEF DescriptorKept
<1>4. TypeOK'
  <2>1. hasRx' \in BOOLEAN /\ hasTx' \in BOOLEAN /\ err' \in BOOLEAN
    BY Zenon DEF TypeOK
  <2>2. next' \in 1 .. Len(Steps') + 1
    BY <1>1, <1>2
  <2> QED
    BY <1>1, <2>1, <2>2 DEF TypeOK
<1>5. RecordExact'
  BY DEF RecordExact
<1>6. DescriptorKept'
  BY <1>1, <1>2, <1>3 DEF DescriptorKept
<1>7. UmemKept'
  BY Zenon DEF UmemKept
<1>8. Released' /\ PointersValid'
  BY <1>1 DEF Released, PointersValid
<1> QED
  BY <1>4, <1>5, <1>6, <1>7, <1>8

(* syscall.Socket returned a number that nobody had (xdp.go:219). *)
LEMMA OpenSocketIInv ==
  ASSUME IInv, NEW n \in FD, OpenSocket(n)
  PROVE  IInv'
<1> USE DEF IInv, options
<1>u. /\ fd' = n /\ table[n] = "free" /\ table' = [table EXCEPT ![n] = "xsk"]
      /\ UNCHANGED <<options, umem, descs, counters, mapped, err>> /\ Advance
      /\ status = "building" /\ Steps[next] = "socket"
  BY DEF OpenSocket, At
<1>1. /\ next' \in 2 .. Len(Steps') + 1
      /\ status' \in {"building", "open"}
      /\ status' = "building" => next' <= Len(Steps')
  BY <1>u, AdvanceKept
<1>s. Len(Steps) \in Nat /\ Len(Steps) > 1 /\ next = 1
  BY <1>u, StepsBuilt DEF TypeOK, DescriptorKept
<1>2. Len(Steps') \in Nat /\ NoFd \notin FD
  BY <1>u, <1>s, StepsFixed, FDAssumption DEF NoFd
<1>3. fd = NoFd
  BY <1>u, <1>s DEF DescriptorKept
<1>4. TypeOK'
  <2>1. hasRx' \in BOOLEAN /\ hasTx' \in BOOLEAN /\ err' \in BOOLEAN /\ umem' \in BOOLEAN
    BY <1>u, Zenon DEF TypeOK
  <2>2. next' \in 1 .. Len(Steps') + 1
    BY <1>1, <1>2
  <2>3. table' \in [FD -> {"free", "xsk", "other"}]
    BY <1>u DEF TypeOK
  <2> QED
    BY <1>u, <1>1, <2>1, <2>2, <2>3 DEF TypeOK
<1>5. RecordExact'
  BY <1>u, <1>2, <1>3 DEF RecordExact, TypeOK
<1>6. DescriptorKept'
  BY <1>u, <1>1, <1>2 DEF DescriptorKept
<1>7. UmemKept'
  BY <1>u, Zenon DEF UmemKept
<1>8. Released' /\ PointersValid'
  BY <1>1, <1>u DEF Released, PointersValid
<1> QED
  BY <1>4, <1>5, <1>6, <1>7, <1>8

(* NewSocket returns an error with nothing acquired (xdp.go:220-222), or   *)
(* without any ring, where everything is lost (xdp.go:287-289).            *)
LEMMA ReturnIInv ==
  ASSUME IInv, OpenSocketFails \/ (CheckRings /\ ~(hasRx \/ hasTx))
  PROVE  IInv'
<1> USE DEF IInv, options, fields
<1>1. /\ UNCHANGED <<options, fields, table, mapped, err>>
      /\ status' = "failed" /\ next' = next /\ status = "building"
  BY DEF OpenSocketFails, CheckRings, Return, At
<1>2. hasRx \/ hasTx => fd = NoFd /\ ~umem
  <2>1. ASSUME hasRx \/ hasTx PROVE next = 1
    BY <1>1, <2>1, StepsBuilt DEF OpenSocketFails, At, TypeOK, DescriptorKept
  <2> QED
    BY <1>1, <2>1 DEF DescriptorKept
<1>3. TypeOK'
  <2>1. Steps' = Steps
    BY <1>1, StepsFixed
  <2>2. hasRx' \in BOOLEAN /\ hasTx' \in BOOLEAN /\ err' \in BOOLEAN /\ umem' \in BOOLEAN
    BY <1>1, Zenon DEF TypeOK
  <2>3. next' \in 1 .. Len(Steps') + 1
    BY <1>1, <2>1 DEF TypeOK
  <2> QED
    BY <1>1, <2>2, <2>3 DEF TypeOK
<1>4. RecordExact' /\ DescriptorKept'
  BY <1>1 DEF RecordExact, DescriptorKept
<1>5. UmemKept' /\ PointersValid'
  BY <1>1, Zenon DEF UmemKept, PointersValid
<1>6. Released'
  BY <1>1, <1>2, Zenon DEF Released
<1> QED
  BY <1>3, <1>4, <1>5, <1>6

(* Another goroutine opens or closes a descriptor between two calls. *)
LEMMA OtherIInv ==
  ASSUME IInv, NEW n \in FD, OtherOpens(n) \/ OtherCloses(n)
  PROVE  IInv'
<1> USE DEF IInv, options, fields
<1>1. /\ UNCHANGED <<options, fields, mapped, status, next, err>>
      /\ table[n] # "xsk"
      /\ \E use \in {"free", "other"} : table' = [table EXCEPT ![n] = use]
  BY DEF OtherOpens, OtherCloses
<1>s. Steps' = Steps
  BY <1>1, StepsFixed
<1>2. TypeOK'
  <2>1. hasRx' \in BOOLEAN /\ hasTx' \in BOOLEAN /\ err' \in BOOLEAN /\ umem' \in BOOLEAN
    BY <1>1, Zenon DEF TypeOK
  <2>2. next' \in 1 .. Len(Steps') + 1
    BY <1>1, <1>s DEF TypeOK
  <2>3. table' \in [FD -> {"free", "xsk", "other"}]
    BY <1>1 DEF TypeOK
  <2> QED
    BY <1>1, <2>1, <2>2, <2>3 DEF TypeOK
<1>3. RecordExact'
  <2>1. fd # NoFd => fd \in FD /\ fd # n
    BY <1>1 DEF TypeOK, RecordExact
  <2>2. \A m \in FD : m # n => table'[m] = table[m]
    BY <1>1 DEF TypeOK
  <2>3. table'[n] # "xsk"
    BY <1>1 DEF TypeOK
  <2> QED
    BY <1>1, <2>1, <2>2, <2>3 DEF RecordExact
<1>4. DescriptorKept'
  BY <1>1, <1>s DEF DescriptorKept
<1>5. UmemKept' /\ PointersValid' /\ Released'
  BY <1>1, Zenon DEF UmemKept, PointersValid, Released
<1> QED
  BY <1>2, <1>3, <1>4, <1>5

(* Before NewSocket there is nothing to release. *)
LEMMA InitIInv == Init => IInv
<1> SUFFICES ASSUME Init PROVE IInv
  OBVIOUS
<1>1. Len(Steps) \in Nat /\ Len(Steps) > 1
  BY StepsBuilt DEF Init
<1>2. TypeOK
  <2>1. /\ fd \in FD \cup {NoFd} /\ table \in [FD -> {"free", "xsk", "other"}]
        /\ descs \subseteq Ring /\ counters \subseteq Ring /\ mapped \subseteq Ring \cup {"umem"}
        /\ status \in {"building", "open", "failed", "closed"}
    BY DEF Init
  <2>2. next \in 1 .. Len(Steps) + 1
    BY <1>1 DEF Init
  <2>3. hasRx \in BOOLEAN /\ hasTx \in BOOLEAN /\ umem \in BOOLEAN /\ err \in BOOLEAN
    BY DEF Init
  <2> QED
    BY <2>1, <2>2, <2>3 DEF TypeOK
<1>3. RecordExact
  BY DEF Init, RecordExact
<1>4. DescriptorKept
  BY <1>1 DEF Init, DescriptorKept
<1>5. UmemKept /\ Released /\ PointersValid
  BY DEF Init, UmemKept, Released, PointersValid
<1> QED
  BY <1>2, <1>3, <1>4, <1>5 DEF IInv

(* Every system call of NewSocket, every error return, Close, and what the *)
(* rest of the process does keep the invariant.                            *)
LEMMA NextIInv == IInv /\ [Next]_vars => IInv'
<1> SUFFICES ASSUME IInv, [Next]_vars PROVE IInv'
  OBVIOUS
<1>1. ASSUME NEW n \in FD, OpenSocket(n) \/ OtherOpens(n) \/ OtherCloses(n)
      PROVE  IInv'
  BY <1>1, OpenSocketIInv, OtherIInv
<1>2. CASE OpenSocketFails
  BY <1>2, ReturnIInv
<1>3. CASE MapUmem
  <2>1. status = "building" /\ next > 1
    BY <1>3, PastSocket DEF MapUmem
  <2> QED
    BY <1>3, <2>1, BuildIInv DEF MapUmem, IInv, TypeOK, PointersValid
<1>4. CASE Configure
  <2>1. status = "building" /\ next > 1
    BY <1>4, PastSocket DEF Configure, SockOpt
  <2>2. umem \in BOOLEAN
    BY DEF IInv, TypeOK
  <2> QED
    BY <1>4, <2>1, <2>2, BuildIInv DEF Configure, fields, IInv, TypeOK, PointersValid
<1>5. CASE CheckRings
  <2>1. status = "building" /\ next > 1
    BY <1>5, PastSocket DEF CheckRings
  <2>2. umem \in BOOLEAN
    BY DEF IInv, TypeOK
  <2>3. CASE hasRx \/ hasTx
    BY <1>5, <2>1, <2>2, <2>3, BuildIInv DEF CheckRings, fields, IInv, TypeOK, PointersValid
  <2>4. CASE ~(hasRx \/ hasTx)
    BY <1>5, <2>4, ReturnIInv
  <2> QED
    BY <2>3, <2>4
<1>6. ASSUME NEW r \in Ring, MapRing(r)
      PROVE  IInv'
  <2>1. status = "building" /\ next > 1
    BY <1>6, PastSocket DEF MapRing, Ring
  <2>2. umem \in BOOLEAN
    BY DEF IInv, TypeOK
  <2>3. r # "umem"
    BY DEF Ring
  <2> QED
    BY <1>6, <2>1, <2>2, <2>3, BuildIInv DEF MapRing, IInv, TypeOK, PointersValid
<1>7. ASSUME NEW closeFails \in BOOLEAN, NEW unmapFails \in BOOLEAN,
             Fail(closeFails, unmapFails)
      PROVE  IInv'
  <2>1. fd # NoFd
    BY <1>7, PastSocket DEF Fail, SockOpt, Ring
  <2> QED
    BY <1>7, <2>1, CloseIInv DEF Fail, Return
<1>8. ASSUME NEW closeFails \in BOOLEAN, NEW unmapFails \in BOOLEAN,
             UserClose(closeFails, unmapFails)
      PROVE  IInv'
  BY <1>8, CloseIInv DEF UserClose, Return
<1>9. CASE UNCHANGED vars
  <2>1. Steps' = Steps
    BY <1>9, StepsFixed DEF vars
  <2> QED
    BY <1>9, <2>1 DEF vars, options, fields, IInv, TypeOK, RecordExact, DescriptorKept, UmemKept,
                      Released, PointersValid
<1> QED
  BY <1>1, <1>2, <1>3, <1>4, <1>5, <1>6, <1>7, <1>8, <1>9 DEF Next

(* The invariant of NewSocket and Close (xdp.go:213-390,583-620) holds in  *)
(* every reachable state.                                                  *)
THEOREM Invariance == Spec => []IInv
BY InitIInv, NextIInv, PTL DEF Spec

(* The fields of Socket (xdp.go:137-154) keep their types, and NewSocket   *)
(* never runs past its last system call.                                   *)
THEOREM TypeCorrect == Spec => []TypeOK
<1>1. IInv => TypeOK
  BY DEF IInv
<1> QED
  BY <1>1, Invariance, PTL

(* A failed NewSocket and a Close give back the descriptor and the UMEM,   *)
(* at whichever system call it failed (xdp.go:219-381), unless a system    *)
(* call of Close failed or no ring was asked for.                          *)
THEOREM FailureReleasesAlways == Spec => []FailureReleases
<1>1. IInv => FailureReleases
  <2> SUFFICES ASSUME IInv, status \in {"failed", "closed"}, ~err, hasRx \/ hasTx
               PROVE  (\A n \in FD : table[n] # "xsk") /\ "umem" \notin mapped
    BY DEF FailureReleases
  <2>1. fd = NoFd /\ ~umem
    BY DEF IInv, Released
  <2>2. NoFd \notin FD
    BY FDAssumption DEF NoFd
  <2>3. \A n \in FD : table[n] # "xsk"
    BY <2>1, <2>2 DEF IInv, RecordExact
  <2>4. "umem" \notin mapped
    BY <2>1 DEF IInv, UmemKept
  <2> QED
    BY <2>3, <2>4
<1> QED
  BY <1>1, Invariance, PTL

(* No pointer or slice of a Socket reaches into unmapped memory, before,   *)
(* between and after its Closes (xdp.go:312-369,593-613).                  *)
THEOREM PointersValidAlways == Spec => []PointersValid
<1>1. IInv => PointersValid
  BY DEF IInv
<1> QED
  BY <1>1, Invariance, PTL

(* Close never closes a number that somebody else was given in the         *)
(* meantime, however often it is called (xdp.go:587-591).                  *)
THEOREM CloseSparesOthersAlways == Spec => CloseSparesOthers
<1> DEFINE Spared == \A n \in FD : table[n] = "other" /\ table'[n] # "other" => OtherCloses(n)
<1>1. IInv /\ [Next]_vars => [Spared]_vars
  <2> SUFFICES ASSUME IInv, Next, NEW n \in FD, table[n] = "other", table'[n] # "other"
               PROVE  OtherCloses(n)
    OBVIOUS
  <2>1. table \in [FD -> {"free", "xsk", "other"}] /\ (fd # NoFd => fd \in FD /\ table[fd] = "xsk")
    BY DEF IInv, TypeOK, RecordExact
  <2>2. ASSUME NEW m \in FD, OpenSocket(m) \/ OtherOpens(m)
        PROVE  FALSE
    BY <2>1, <2>2 DEF OpenSocket, OtherOpens
  <2>3. ASSUME NEW m \in FD, OtherCloses(m)
        PROVE  m = n
    BY <2>1, <2>3 DEF OtherCloses
  <2>4. ASSUME NEW closeFails \in BOOLEAN, NEW unmapFails \in BOOLEAN,
               Close(closeFails, unmapFails)
        PROVE  FALSE
    BY <2>1, <2>4 DEF Close
  <2>5. table' # table
    OBVIOUS
  <2> QED
    BY <2>2, <2>3, <2>4, <2>5
       DEF Next, OpenSocketFails, MapUmem, Configure, CheckRings, MapRing, Fail, UserClose
<1> QED
  BY <1>1, Invariance, PTL DEF Spec, CloseSparesOthers
=============================================================================
