---------------------------- MODULE SocketPanics ----------------------------
(***************************************************************************)
(* The methods of xdp.Socket with options NewSocket accepts and they do    *)
(* not expect: without an Rx ring its counters are nil pointers, and a     *)
(* Fill ring may have more entries than there are frames.  Where a method  *)
(* of XdpSocket cannot go on it panics here, and the program is over.      *)
(* Programs do not call Receive and Transmit without the ring for it.      *)
(***************************************************************************)
EXTENDS XdpSocket

(* Poll calls NumReceived when poll(2) has returned, and Stats reads       *)
(* rxRing.Consumer; neither looks whether there is an Rx ring.  Stats      *)
(* changes nothing otherwise.                                              *)
PollPanics == call = "poll" /\ RxRingNumDescs = 0 /\ Panic("nil panic")
StatsPanics == call = "none" /\ RxRingNumDescs = 0 /\ Panic("nil panic")

(* Fill(GetDescs(n, true)) *)
FillFreePanics(n) == call = "none" /\ GetDescsPanics(n, TRUE) /\ Panic("index panic")

PanicNext ==
  \/ PollPanics \/ StatsPanics
  \/ \E n \in Request : FillFreePanics(n)

PanicSpec == Init /\ [][Next \/ PanicNext]_vars
=============================================================================
