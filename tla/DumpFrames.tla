----------------------------- MODULE DumpFrames -----------------------------
(***************************************************************************)
(* The receive loop of dumpframes/src/dumpframes.go on top of XdpSocket:   *)
(* refill, poll without a timeout, receive, print, forever.  The loop ends *)
(* only when Poll fails.                                                   *)
(***************************************************************************)
EXTENDS XdpSocket

VARIABLES
  pc,    \* where the loop is
  slots  \* n of the loop: what NumFreeFillSlots returned

dumpVars == <<pc, slots>>
allVars == <<vars, dumpVars>>

Goto(from, to) == pc = from /\ pc' = to

DumpInit == Init /\ pc = "count" /\ slots = 0

(* if n := xsk.NumFreeFillSlots(); n > 0 *)
CountSlots ==
  /\ call = "none"
  /\ slots' = FillRingNumDescs - Len(fillRing)
  /\ Goto("count", IF slots' > 0 THEN "fill" ELSE "poll")
  /\ UNCHANGED vars

(* Mutant: the frames of the transmit side. *)
RefillFromTx ==
  /\ Goto("fill", "poll")
  /\ \E descs \in GetDescs(slots, FALSE) : FillCall(descs)
  /\ UNCHANGED <<rxDescs, slots>>

(* xsk.Fill(xsk.GetDescs(n, true)) *)
Refill == Goto("fill", "poll") /\ FillFree(slots) /\ UNCHANGED slots

(* xsk.Poll(-1); the loop reads its results when the call is over. *)
EnterPoll == Goto("poll", "polled") /\ PollCall /\ UNCHANGED slots

(* With timeout -1, and nothing transmitted, poll(2) returns for POLLIN. *)
Wake == rxRing # << >> /\ PollCounts /\ UNCHANGED dumpVars

(* The error is printed and main returns. *)
Fail == Goto("polled", "returned") /\ PollFails /\ UNCHANGED slots

(* Mutant: one frame too few is received. *)
AfterPollShort ==
  /\ call = "none"
  /\ IF numReceived > 0
     THEN Goto("polled", "print") /\ ReceiveCall(numReceived - 1)
     ELSE Goto("polled", "count") /\ UNCHANGED vars
  /\ UNCHANGED slots

(* if numRx > 0 { rxDescs := xsk.Receive(numRx) *)
AfterPoll ==
  /\ call = "none"
  /\ IF numReceived > 0
     THEN Goto("polled", "print") /\ ReceiveCall(numReceived)
     ELSE Goto("polled", "count") /\ UNCHANGED vars
  /\ UNCHANGED slots

(* The frames are decoded and logged, and rxDescs goes out of scope. *)
LogFrames == Goto("print", "count") /\ DropReceived /\ UNCHANGED slots

(* Nothing is transmitted, so Poll never gets to Complete. *)
MethodReturns == (FillReturn \/ ReceiveReturn) /\ UNCHANGED dumpVars

LoopNext ==
  \/ CountSlots \/ Refill \/ EnterPoll \/ AfterPoll \/ LogFrames \/ MethodReturns
  \/ Wake

KernelRxNext ==
  \/ KernelTakesBuffer
  \/ \E i \in 1 .. Len(kernelRx) : KernelReceives(i)

DumpNext == LoopNext \/ Fail \/ (KernelRxNext /\ UNCHANGED dumpVars)

(* The goroutine of main is scheduled and the kernel takes the buffers it  *)
(* is given; packets need not arrive and poll(2) need not fail.            *)
DumpFairness ==
  /\ WF_allVars(LoopNext)
  /\ WF_allVars(KernelTakesBuffer /\ UNCHANGED dumpVars)

DumpSpec == DumpInit /\ [][DumpNext]_allVars
FairDumpSpec == DumpSpec /\ DumpFairness
-----------------------------------------------------------------------------
(* The loop uses the socket as its methods ask (XdpSocket!Spec), so all    *)
(* that holds of every such program holds of dumpframes.go:83-121.         *)
ImplementsSocket == Spec

(* When Receive(numRx) is called (dumpframes.go:106) the Rx ring still     *)
(* holds what Poll counted, and Poll(-1) never returns empty-handed from   *)
(* poll(2): the loop does not spin.                                        *)
PollCountStillHolds ==
  pc = "polled" /\ call = "none" => numReceived > 0 /\ numReceived <= Len(rxRing)

(* Every frame that reaches the Rx ring is handed to the printing code     *)
(* (dumpframes.go:103-119) unless Poll fails.                              *)
EveryFrameDumped ==
  \A f \in Frame :
    f \in FramesIn(rxRing) ~> (pc = "print" /\ f \in FramesIn(rxDescs)) \/ pc = "returned"

(* The kernel is never left without receive buffers: once it has used them *)
(* all, the loop refills the Fill ring (dumpframes.go:85-91).              *)
KernelResupplied ==
  fillRing = << >> /\ kernelRx = << >> ~> fillRing # << >> \/ pc = "returned"
=============================================================================
