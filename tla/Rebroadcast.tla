---------------------------- MODULE Rebroadcast ----------------------------
(***************************************************************************)
(* The example program of the package comment (xdp.go:83-99): it transmits *)
(* the frames it received, with the descriptors Receive returned, which    *)
(* the comment of Transmit allows.                                         *)
(***************************************************************************)
EXTENDS XdpSocket

VARIABLE pc

exampleVars == <<vars, pc>>

Goto(from, to) == pc = from /\ pc' = to

ExampleInit == Init /\ pc = "fill"

(* xsk.Fill(xsk.GetDescs(xsk.NumFreeFillSlots(), true)) *)
Refill == Goto("fill", "poll") /\ FillFree(FillRingNumDescs - Len(fillRing))

(* numRx, _, err := xsk.Poll(-1) *)
EnterPoll == Goto("poll", "polled") /\ PollCall

(* poll(2) returns for a received frame or, when frames are out on the Tx  *)
(* ring, because that ring can take more.                                  *)
Wake ==
  /\ rxRing # << >> \/ numTransmitted > 0
  /\ PollCounts
  /\ UNCHANGED pc

(* rxDescs := xsk.Receive(numRx) *)
TakeReceived == Goto("polled", "transmit") /\ ReceiveCall(numReceived)

(* xsk.Transmit(rxDescs) *)
TransmitReceived == Goto("transmit", "end") /\ TransmitCall(rxDescs)

(* The turn ends, and rxDescs goes out of scope. *)
EndTurn == Goto("end", "fill") /\ DropReceived

MethodReturns ==
  /\ \/ FillReturn \/ ReceiveReturn \/ TransmitPublish \/ SendToReturns \/ CompleteReturn
  /\ UNCHANGED pc

ExampleNext ==
  \/ Refill \/ EnterPoll \/ Wake \/ TakeReceived \/ TransmitReceived \/ EndTurn \/ MethodReturns
  \/ KernelNext /\ UNCHANGED pc

ExampleSpec == ExampleInit /\ [][ExampleNext]_exampleVars
-----------------------------------------------------------------------------
(* "GetDescs returns up to n descriptors which are not currently in use"   *)
(* (xdp.go:536): what the program submits to receive into is not waiting   *)
(* to be sent or being sent.                                               *)
GetDescsNotInUse ==
  call = "Fill" => FramesIn(args) \cap (FramesIn(txRing) \cup FramesIn(kernelTx)) = {}
=============================================================================
