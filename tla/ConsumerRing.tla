---------------------------- MODULE ConsumerRing ----------------------------
(***************************************************************************)
(* A ring to which the kernel produces and from which the Go program       *)
(* consumes: the Rx ring of Socket.Receive and the Completion ring of      *)
(* Socket.Complete and Socket.Poll.  Both methods copy slots one by one    *)
(* and then store Consumer.  Receive clamps its argument to what is        *)
(* available; Complete trusts it.                                          *)
(*                                                                         *)
(* The load fences between reading Producer and reading the slots are      *)
(* commented out; the module is about processors that keep the order of    *)
(* loads without them (amd64, 386).                                        *)
(***************************************************************************)
EXTENDS RingArith

CONSTANTS
  Value,   \* descriptors the kernel produces
  NoDesc   \* content of a slot never written

ASSUME ValueAssumption == NoDesc \notin Value

VARIABLES
  Producer, Consumer, Descs,  \* the shared ring
  busy,                       \* whether a call is in progress
  left, cons, descs,          \* locals of the call: turns left, cons, copies
  counted,                    \* result of the last NumReceived/NumCompleted
  taken,                      \* what the last call returned
  cachedProd, cachedCons      \* the kernel's private copies of the counters

sharedVars == <<Producer, Consumer, Descs>>
callVars == <<busy, left, cons, descs>>
kernelVars == <<cachedProd, cachedCons>>
vars == <<sharedVars, callVars, counted, taken, kernelVars>>

Init ==
  /\ Producer = 0 /\ Consumer = 0
  /\ Descs = [s \in SlotIndex |-> NoDesc]
  /\ busy = FALSE /\ left = 0 /\ cons = 0 /\ descs = << >>
  /\ counted = 0 /\ taken = << >>
  /\ cachedProd = 0 /\ cachedCons = 0

(* NumReceived and NumCompleted, as Poll and the clients call them: the    *)
(* count is used in a later call, when the kernel may have produced more.  *)
Count ==
  /\ ~busy
  /\ counted' = NumAvailable(Producer, Consumer)
  /\ UNCHANGED <<sharedVars, callVars, taken, kernelVars>>

Begin(n) ==
  /\ ~busy
  /\ busy' = TRUE
  /\ left' = n
  /\ cons' = Consumer
  /\ descs' = << >>
  /\ counted' = 0
  /\ UNCHANGED <<sharedVars, taken, kernelVars>>

(* Mutant: num is not cut. *)
ReceiveUncut(num) == Begin(num)

(* Receive(num): never more than NumReceived(). *)
Receive(num) ==
  Begin(LET numAvailable == NumAvailable(Producer, Consumer)
        IN  IF num > numAvailable THEN numAvailable ELSE num)

(* Complete(n): exactly n turns of the loop. *)
Complete(n) == Begin(n)

(* Mutant: cons++ comes before the slot is read. *)
CopyDescAfterIncrement ==
  /\ busy /\ left > 0
  /\ descs' = Append(descs, Descs[Slot(Succ(cons))])
  /\ cons' = Succ(cons)
  /\ left' = left - 1
  /\ UNCHANGED <<sharedVars, busy, counted, taken, kernelVars>>

(* One turn of the loop: copy Descs[cons & mask]; cons++. *)
CopyDesc ==
  /\ busy /\ left > 0
  /\ descs' = Append(descs, Descs[Slot(cons)])
  /\ cons' = Succ(cons)
  /\ left' = left - 1
  /\ UNCHANGED <<sharedVars, busy, counted, taken, kernelVars>>

(* After the loop: *Consumer = cons, and the call returns. *)
StoreConsumer ==
  /\ busy /\ left = 0
  /\ Consumer' = cons
  /\ taken' = descs
  /\ descs' = << >>
  /\ busy' = FALSE
  /\ UNCHANGED <<Producer, Descs, left, cons, counted, kernelVars>>

(* The kernel writes a slot it knows to be free. *)
KernelWrite(v) ==
  /\ Distance(cachedProd, cachedCons) < Size
  /\ Descs' = [Descs EXCEPT ![Slot(cachedProd)] = v]
  /\ cachedProd' = Succ(cachedProd)
  /\ UNCHANGED <<Producer, Consumer, callVars, counted, taken, cachedCons>>

(* The kernel publishes the slots written since the last time. *)
KernelSubmit ==
  /\ Producer # cachedProd
  /\ Producer' = cachedProd
  /\ UNCHANGED <<Consumer, Descs, callVars, counted, taken, kernelVars>>

(* The kernel, out of free slots, reads Consumer again. *)
KernelRefresh ==
  /\ Distance(cachedProd, cachedCons) = Size
  /\ cachedCons' = Consumer
  /\ UNCHANGED <<sharedVars, callVars, counted, taken, cachedProd>>

KernelNext ==
  \/ \E v \in Value : KernelWrite(v)
  \/ KernelSubmit
  \/ KernelRefresh

(* Receive takes any num; Complete gets a number that Poll or the client   *)
(* counted before.                                                         *)
Next ==
  \/ Count
  \/ \E num \in 0 .. Size + 1 : Receive(num)
  \/ Complete(counted)
  \/ CopyDesc
  \/ StoreConsumer
  \/ KernelNext

Spec == Init /\ [][Next]_vars
-----------------------------------------------------------------------------
(* Counters, slots and locals have the types of umemRing and rxTxRing      *)
(* (xdp.go:124-134).                                                       *)
TypeOK ==
  /\ Producer \in Counter /\ Consumer \in Counter /\ cons \in Counter
  /\ Descs \in [SlotIndex -> Value \cup {NoDesc}]
  /\ busy \in BOOLEAN /\ left \in 0 .. Size /\ counted \in 0 .. Size
  /\ descs \in Seq(Value \cup {NoDesc}) /\ taken \in Seq(Value \cup {NoDesc})
  /\ cachedProd \in Counter /\ cachedCons \in Counter

(* Receive clamps num, and Poll passes Complete a number it counted before *)
(* (xdp.go:424-427,529-530): no call advances Consumer past the kernel's   *)
(* Producer, so the subtraction in NumReceived/NumCompleted                *)
(* (xdp.go:688,703) cannot wrap.                                           *)
NeverPastProducer ==
  /\ Distance(Producer, Consumer) <= Size
  /\ busy => Distance(cons, Consumer) + left <= Distance(Producer, Consumer)

(* The copies a call makes slot by slot, while the kernel produces on, are *)
(* the oldest values in order (xdp.go:432-438,638-644): the two ends see a *)
(* bounded FIFO.                                                           *)
Fifo == INSTANCE BoundedFifo
          WITH Capacity <- Size, fifo <- Window(Descs, Consumer, Producer)

ImplementsFifo == Fifo!Spec
=============================================================================
