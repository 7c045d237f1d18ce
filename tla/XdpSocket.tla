----------------------------- MODULE XdpSocket -----------------------------
(***************************************************************************)
(* xdp.Socket of xdp.go: the frames of the UMEM travel between the Go      *)
(* program and the kernel through four rings, and the socket keeps two     *)
(* free lists and two counters to know which frames are out.               *)
(*                                                                         *)
(* A ring is the FIFO queue of its published entries; ProducerRing and     *)
(* ConsumerRing show that the code's counters and slots implement that.    *)
(* A method that touches a ring reads the other side's counter first and   *)
(* publishes its own last; the kernel runs in between.                     *)
(***************************************************************************)
EXTENDS Integers, Sequences, FiniteSets

CONSTANTS
  NumFrames, FrameSize,                      \* SocketOptions
  FillRingNumDescs, CompletionRingNumDescs,
  RxRingNumDescs, TxRingNumDescs,
  Headroom                                   \* where the kernel puts a packet in its frame

ASSUME OptionsAssumption ==
  /\ NumFrames \in Nat \ {0}
  /\ FrameSize \in Nat \ {0}
  /\ FillRingNumDescs \in Nat \ {0}
  /\ CompletionRingNumDescs \in Nat \ {0}
  /\ RxRingNumDescs \in Nat
  /\ TxRingNumDescs \in Nat
  /\ RxRingNumDescs > 0 \/ TxRingNumDescs > 0   \* checked by NewSocket
ASSUME HeadroomAssumption == Headroom \in 0 .. FrameSize - 1

VARIABLES
  fillRing, rxRing, txRing, completionRing,  \* descriptor addresses on each ring
  kernelRx, kernelTx,   \* addresses the kernel took and has not given back
  freeRXDescs, freeTXDescs,
  numFilled, numTransmitted,
  rxDescs,              \* what the last Receive returned and the program still uses
  numReceived,          \* what the last Poll returned
  call,                 \* the method in progress, or how the program ended
  args,                 \* its descriptors
  num                   \* its count

rings == <<fillRing, rxRing, txRing, completionRing>>
kernel == <<kernelRx, kernelTx>>
books == <<freeRXDescs, freeTXDescs, numFilled, numTransmitted>>
program == <<rxDescs, numReceived, call, args, num>>
vars == <<rings, kernel, books, program>>
-----------------------------------------------------------------------------
Frame == 0 .. NumFrames - 1
Addr == 0 .. NumFrames * FrameSize - 1

(* Mutant: frames are counted from 1. *)
AddrOfFromOne(frame) == (frame + 1) * FrameSize

(* desc.Addr / uint64(FrameSize), and the address GetDescs gives a frame *)
FrameOf(addr) == addr \div FrameSize
AddrOf(frame) == frame * FrameSize

FramesIn(descs) == {FrameOf(descs[i]) : i \in 1 .. Len(descs)}

AtMost(a, b) == IF a < b THEN a ELSE b
Prefix(descs, n) == SubSeq(descs, 1, AtMost(n, Len(descs)))
After(descs, n) == SubSeq(descs, n + 1, Len(descs))
Without(descs, i) ==
  [j \in 1 .. Len(descs) - 1 |-> IF j < i THEN descs[j] ELSE descs[j + 1]]

(* Set or clear the free flag of every frame in descs. *)
Mark(freeList, descs, flag) ==
  [f \in Frame |-> IF f \in FramesIn(descs) THEN flag ELSE freeList[f]]

(* Mutant: the search for rx goes on to the last frame. *)
SearchedToEnd(rx) ==
  IF rx THEN 0 .. NumFrames - 1 ELSE FillRingNumDescs .. NumFrames - 1

(* The frames GetDescs searches: from 0 up to the Fill ring's size for rx, *)
(* from there to the last frame for tx.                                    *)
Searched(rx) ==
  IF rx THEN 0 .. FillRingNumDescs - 1 ELSE FillRingNumDescs .. NumFrames - 1

FreeFrames(rx) ==
  LET freeList == IF rx THEN freeRXDescs ELSE freeTXDescs
  IN  {f \in Searched(rx) \cap Frame : freeList[f]}

(* n cut to cap(getRXDescs), and for tx to cap(getTXDescs) too *)
Capped(n, rx) ==
  LET m == AtMost(n, FillRingNumDescs)
  IN  IF rx THEN m ELSE AtMost(m, CompletionRingNumDescs)

(* GetDescs(n, rx) as the set of its one result: the lowest free frames in *)
(* ascending order.  It does not mark them as taken.                       *)
GetDescs(n, rx) ==
  LET free == FreeFrames(rx)
      len  == AtMost(Capped(n, rx), Cardinality(free))
      lowest == {d \in [1 .. len -> free] :
                   \A i \in 1 .. len : Cardinality({f \in free : f < d[i]}) = i - 1}
  IN  {[i \in 1 .. len |-> AddrOf(d[i])] : d \in lowest}

(* The search runs off the free list when the Fill ring has more entries   *)
(* than there are frames and too few of those are free (see SocketPanics). *)
GetDescsPanics(n, rx) ==
  /\ ~(Searched(rx) \subseteq Frame)
  /\ Cardinality(FreeFrames(rx)) < Capped(n, rx)
-----------------------------------------------------------------------------
(* NewSocket returned. *)
Init ==
  /\ fillRing = << >> /\ rxRing = << >> /\ txRing = << >> /\ completionRing = << >>
  /\ kernelRx = << >> /\ kernelTx = << >>
  /\ freeRXDescs = [f \in Frame |-> TRUE]
  /\ freeTXDescs = [f \in Frame |-> TRUE]
  /\ numFilled = 0 /\ numTransmitted = 0
  /\ rxDescs = << >> /\ numReceived = 0
  /\ call = "none" /\ args = << >> /\ num = 0

Panic(kind) ==
  /\ call' = kind
  /\ UNCHANGED <<rings, kernel, books, rxDescs, numReceived, args, num>>

(* Fill: count the free slots and cut descs, then publish and keep books.  *)
(* Which received frames the program goes on to use is up to the program.  *)
FillCall(descs) ==
  /\ call = "none"
  /\ call' = "Fill"
  /\ args' = Prefix(descs, FillRingNumDescs - Len(fillRing))
  /\ UNCHANGED <<rings, kernel, books, numReceived, num>>

(* Mutant: the frames stay marked free. *)
FillReturnUnmarked ==
  /\ call = "Fill"
  /\ call' = "none"
  /\ fillRing' = fillRing \o args
  /\ numFilled' = numFilled + Len(args)
  /\ args' = << >>
  /\ UNCHANGED <<rxRing, txRing, completionRing, kernel, freeRXDescs, freeTXDescs,
                 numTransmitted, rxDescs, numReceived, num>>

FillReturn ==
  /\ call = "Fill"
  /\ call' = "none"
  /\ fillRing' = fillRing \o args
  /\ freeRXDescs' = Mark(freeRXDescs, args, FALSE)
  /\ numFilled' = numFilled + Len(args)
  /\ args' = << >>
  /\ UNCHANGED <<rxRing, txRing, completionRing, kernel, freeTXDescs,
                 numTransmitted, rxDescs, numReceived, num>>

(* Receive: count what is there and cut n, then copy, publish, keep books. *)
(* The slice the last one returned has the same buffer and is gone.        *)
ReceiveCall(n) ==
  /\ call = "none" /\ RxRingNumDescs > 0
  /\ call' = "Receive"
  /\ num' = AtMost(n, Len(rxRing))
  /\ rxDescs' = << >>
  /\ UNCHANGED <<rings, kernel, books, numReceived, args>>

(* Mutants: numFilled is not lowered; the frames are not marked free. *)
ReceiveReturnUncounted ==
  /\ call = "Receive"
  /\ call' = "none"
  /\ rxDescs' = Prefix(rxRing, num)
  /\ rxRing' = After(rxRing, num)
  /\ freeRXDescs' = Mark(freeRXDescs, rxDescs', TRUE)
  /\ num' = 0
  /\ UNCHANGED <<fillRing, txRing, completionRing, kernel, freeTXDescs,
                 numFilled, numTransmitted, numReceived, args>>

ReceiveReturnUnmarked ==
  /\ call = "Receive"
  /\ call' = "none"
  /\ rxDescs' = Prefix(rxRing, num)
  /\ rxRing' = After(rxRing, num)
  /\ numFilled' = numFilled - num
  /\ num' = 0
  /\ UNCHANGED <<fillRing, txRing, completionRing, kernel, freeRXDescs, freeTXDescs,
                 numTransmitted, numReceived, args>>

ReceiveReturn ==
  /\ call = "Receive"
  /\ call' = "none"
  /\ rxDescs' = Prefix(rxRing, num)
  /\ rxRing' = After(rxRing, num)
  /\ freeRXDescs' = Mark(freeRXDescs, rxDescs', TRUE)
  /\ numFilled' = numFilled - num
  /\ num' = 0
  /\ UNCHANGED <<fillRing, txRing, completionRing, kernel, freeTXDescs,
                 numTransmitted, numReceived, args>>

(* Mutant: descs is not cut to the free slots. *)
TransmitCallUncut(descs) ==
  /\ call = "none" /\ TxRingNumDescs > 0
  /\ call' = "Transmit"
  /\ args' = descs
  /\ UNCHANGED <<rings, kernel, books, rxDescs, numReceived, num>>

(* Transmit: as Fill, and then the sendto loop. *)
TransmitCall(descs) ==
  /\ call = "none" /\ TxRingNumDescs > 0
  /\ call' = "Transmit"
  /\ args' = Prefix(descs, TxRingNumDescs - Len(txRing))
  /\ UNCHANGED <<rings, kernel, books, rxDescs, numReceived, num>>

TransmitPublish ==
  /\ call = "Transmit"
  /\ call' = "sendto"
  /\ txRing' = txRing \o args
  /\ freeTXDescs' = Mark(freeTXDescs, args, FALSE)
  /\ numTransmitted' = numTransmitted + Len(args)
  /\ args' = << >>
  /\ UNCHANGED <<fillRing, rxRing, completionRing, kernel, freeRXDescs,
                 numFilled, rxDescs, numReceived, num>>

(* rc 0, EAGAIN and EBUSY return; EINTR tries again, in the same state. *)
SendToReturns ==
  /\ call = "sendto"
  /\ call' = "none"
  /\ UNCHANGED <<rings, kernel, books, rxDescs, numReceived, args, num>>

(* Any other errno. *)
SendToPanics == call = "sendto" /\ Panic("sendto panic")

(* Poll returns at once when nothing is out, else it enters poll(2). *)
PollCall ==
  /\ call = "none"
  /\ IF numFilled > 0 \/ numTransmitted > 0
     THEN call' = "poll" /\ UNCHANGED numReceived
     ELSE numReceived' = 0 /\ UNCHANGED call
  /\ UNCHANGED <<rings, kernel, books, rxDescs, args, num>>

(* poll(2) returned an error other than EINTR. *)
PollFails ==
  /\ call = "poll"
  /\ call' = "none"
  /\ numReceived' = 0
  /\ UNCHANGED <<rings, kernel, books, rxDescs, args, num>>

(* Mutant: Poll reports the frames that are out instead of those received. *)
PollCountsFilled ==
  /\ call = "poll" /\ RxRingNumDescs > 0
  /\ numReceived' = numFilled
  /\ num' = Len(completionRing)
  /\ call' = IF num' > 0 THEN "Complete" ELSE "none"
  /\ UNCHANGED <<rings, kernel, books, rxDescs, args>>

(* poll(2) returned: count both rings, Complete when there is something.   *)
(* Without an Rx ring its counters are nil pointers (see SocketPanics).    *)
PollCounts ==
  /\ call = "poll" /\ RxRingNumDescs > 0
  /\ numReceived' = Len(rxRing)
  /\ num' = Len(completionRing)
  /\ call' = IF num' > 0 THEN "Complete" ELSE "none"
  /\ UNCHANGED <<rings, kernel, books, rxDescs, args>>

(* Complete called by a program that polls by itself: n from NumCompleted. *)
CompleteCall ==
  /\ call = "none"
  /\ num' = Len(completionRing)
  /\ call' = "Complete"
  /\ UNCHANGED <<rings, kernel, books, rxDescs, numReceived, args>>

(* Mutant: the frames are not marked free. *)
CompleteReturnUnmarked ==
  /\ call = "Complete"
  /\ call' = "none"
  /\ completionRing' = After(completionRing, num)
  /\ numTransmitted' = numTransmitted - num
  /\ num' = 0
  /\ UNCHANGED <<fillRing, rxRing, txRing, kernel, freeRXDescs, freeTXDescs, numFilled,
                 rxDescs, numReceived, args>>

CompleteReturn ==
  /\ call = "Complete"
  /\ call' = "none"
  /\ completionRing' = After(completionRing, num)
  /\ freeTXDescs' = Mark(freeTXDescs, Prefix(completionRing, num), TRUE)
  /\ numTransmitted' = numTransmitted - num
  /\ num' = 0
  /\ UNCHANGED <<fillRing, rxRing, txRing, kernel, freeRXDescs, numFilled,
                 rxDescs, numReceived, args>>
-----------------------------------------------------------------------------
(* The kernel takes a buffer; an address anywhere in a frame means the     *)
(* whole frame.                                                            *)
KernelTakesBuffer ==
  /\ fillRing # << >>
  /\ kernelRx' = Append(kernelRx, AddrOf(FrameOf(Head(fillRing))))
  /\ fillRing' = Tail(fillRing)
  /\ UNCHANGED <<rxRing, txRing, completionRing, kernelTx, books, program>>

(* A packet arrives and goes into one of the buffers.  With the Rx ring    *)
(* full the packet is dropped and the buffer stays.                        *)
KernelReceives(i) ==
  /\ i \in 1 .. Len(kernelRx)
  /\ Len(rxRing) < RxRingNumDescs
  /\ rxRing' = Append(rxRing, kernelRx[i] + Headroom)
  /\ kernelRx' = Without(kernelRx, i)
  /\ UNCHANGED <<fillRing, txRing, completionRing, kernelTx, books, program>>

(* The kernel starts to send a frame once its completion has a slot. *)
KernelTakesTx ==
  /\ txRing # << >>
  /\ Len(kernelTx) + Len(completionRing) < CompletionRingNumDescs
  /\ kernelTx' = Append(kernelTx, Head(txRing))
  /\ txRing' = Tail(txRing)
  /\ UNCHANGED <<fillRing, rxRing, completionRing, kernelRx, books, program>>

KernelCompletes(i) ==
  /\ i \in 1 .. Len(kernelTx)
  /\ completionRing' = Append(completionRing, kernelTx[i])
  /\ kernelTx' = Without(kernelTx, i)
  /\ UNCHANGED <<fillRing, rxRing, txRing, kernelRx, books, program>>

KernelNext ==
  \/ KernelTakesBuffer
  \/ \E i \in 1 .. Len(kernelRx) : KernelReceives(i)
  \/ KernelTakesTx
  \/ \E i \in 1 .. Len(kernelTx) : KernelCompletes(i)
-----------------------------------------------------------------------------
(* A program that hands frames to the methods the way their comments ask:  *)
(* Fill gets descriptors of GetDescs or of the last Receive, Transmit gets *)
(* descriptors of GetDescs.  It does two things less than the comments     *)
(* allow: it transmits no received frame (Rebroadcast does), and while it  *)
(* holds received frames it fills no frame of GetDescs that is one of them *)
(* (HeldFrames does).                                                      *)
FillFree(n) ==
  /\ ~GetDescsPanics(n, TRUE)
  /\ \E descs \in GetDescs(n, TRUE) :
       FramesIn(descs) \cap FramesIn(rxDescs) = {} /\ FillCall(descs)
  /\ UNCHANGED rxDescs

(* Fill(rxDescs[:n]): the program keeps what Fill did not take. *)
FillReceived(n) ==
  /\ FillCall(Prefix(rxDescs, n))
  /\ rxDescs' = After(rxDescs, Len(args'))

(* The program is through with the frames it received. *)
DropReceived ==
  /\ call = "none"
  /\ rxDescs' = << >>
  /\ UNCHANGED <<rings, kernel, books, numReceived, call, args, num>>

TransmitFree(n) == \E descs \in GetDescs(n, FALSE) : TransmitCall(descs)

(* A program may ask for more descriptors than there are. *)
Request == 0 .. NumFrames + 1

MethodNext ==
  \/ FillReturn \/ ReceiveReturn
  \/ TransmitPublish \/ SendToReturns \/ SendToPanics
  \/ PollFails \/ PollCounts
  \/ CompleteReturn

ProgramNext ==
  \/ \E n \in Request :
       FillFree(n) \/ ReceiveCall(n) \/ TransmitFree(n)
  \/ \E n \in 1 .. Len(rxDescs) : FillReceived(n)
  \/ DropReceived
  \/ PollCall \/ CompleteCall

Next == ProgramNext \/ MethodNext \/ KernelNext

Spec == Init /\ [][Next]_vars
-----------------------------------------------------------------------------
CallState == {"none", "Fill", "Receive", "Transmit", "sendto", "poll", "Complete",
              "sendto panic", "nil panic", "index panic"}

(* The fields of Socket (xdp.go:137-154) and the locals of its methods. *)
TypeOK ==
  /\ fillRing \in Seq(Addr) /\ rxRing \in Seq(Addr)
  /\ txRing \in Seq(Addr) /\ completionRing \in Seq(Addr)
  /\ kernelRx \in Seq(Addr) /\ kernelTx \in Seq(Addr)
  /\ freeRXDescs \in [Frame -> BOOLEAN] /\ freeTXDescs \in [Frame -> BOOLEAN]
  /\ numFilled \in Int /\ numTransmitted \in Int
  /\ rxDescs \in Seq(Addr) /\ numReceived \in Nat
  /\ call \in CallState /\ args \in Seq(Addr) /\ num \in Nat

(* Everywhere a frame can be: on a ring, with the kernel, with the program *)
(* or among the arguments of a call in progress.                           *)
Places == <<fillRing, kernelRx, rxRing, rxDescs, txRing, kernelTx, completionRing, args>>

(* No frame is in two places, or twice in one: the kernel never receives   *)
(* into a frame that is being sent, read by the program or already queued. *)
(* It rests on the two free lists of xdp.go:411,435,459,641 being right at *)
(* every GetDescs (xdp.go:563-570).                                        *)
FrameExclusive ==
  \A p, q \in DOMAIN Places :
    \A i \in 1 .. Len(Places[p]), j \in 1 .. Len(Places[q]) :
      FrameOf(Places[p][i]) = FrameOf(Places[q][j]) => p = q /\ i = j

(* numFilled and numTransmitted (xdp.go:416,440,464,646) count exactly the *)
(* frames the kernel still owes, so Poll (xdp.go:508-516) asks for the     *)
(* right events, and never sleeps with nothing to wait for.                *)
CountersExact ==
  /\ numFilled = Len(fillRing) + Len(kernelRx) + Len(rxRing)
  /\ numTransmitted = Len(txRing) + Len(kernelTx) + Len(completionRing)

(* A frame is marked free (xdp.go:411,435,459,641) exactly when it is on   *)
(* neither ring of its direction nor with the kernel: no frame is lost to  *)
(* GetDescs and none is handed out early.                                  *)
FreeListsExact ==
  \A f \in Frame :
    /\ freeRXDescs[f] <=> f \notin FramesIn(fillRing) \cup FramesIn(kernelRx) \cup FramesIn(rxRing)
    /\ freeTXDescs[f] <=> f \notin FramesIn(txRing) \cup FramesIn(kernelTx) \cup FramesIn(completionRing)

(* Whatever GetDescs(n, true) can return fits on the Fill ring, so Fill    *)
(* (xdp.go:402-405) cuts nothing and its result may be ignored, as the     *)
(* programs of the repository do (dumpframes.go:90).                       *)
FreeFramesFit == Len(fillRing) + Cardinality(FreeFrames(TRUE)) <= FillRingNumDescs

(* With an Rx ring as large as the Fill ring (xdp.go:118-120) the kernel   *)
(* always has a slot for a received frame: no packet is dropped for it.    *)
RxRingHasRoom ==
  RxRingNumDescs >= FillRingNumDescs =>
    (kernelRx # << >> => Len(rxRing) < RxRingNumDescs)

(* No ring is given more entries than it has slots, although the slots are *)
(* counted before and filled after the kernel ran (xdp.go:402-414,450-462).*)
RingsFit ==
  /\ Len(fillRing) <= FillRingNumDescs
  /\ call = "Fill" => Len(fillRing) + Len(args) <= FillRingNumDescs
  /\ Len(rxRing) <= RxRingNumDescs
  /\ Len(txRing) <= TxRingNumDescs
  /\ call = "Transmit" => Len(txRing) + Len(args) <= TxRingNumDescs
  /\ Len(kernelTx) + Len(completionRing) <= CompletionRingNumDescs
=============================================================================
