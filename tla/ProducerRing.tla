---------------------------- MODULE ProducerRing ----------------------------
(***************************************************************************)
(* A ring to which the Go program produces and from which the kernel       *)
(* consumes: the Fill ring of Socket.Fill and the Tx ring of               *)
(* Socket.Transmit, down to the single loads and stores of shared memory.  *)
(*                                                                         *)
(* The methods write the slots and then the Producer counter with plain    *)
(* stores; the fence between them is commented out.  A store therefore     *)
(* waits in `stores' until the processor makes it visible: in program      *)
(* order when StoresInOrder (amd64, 386), in any order when not (arm64,    *)
(* ppc64le and riscv64 are build targets of the repository too).           *)
(***************************************************************************)
EXTENDS RingArith

CONSTANTS
  Value,          \* descriptors a client may submit
  NoDesc,         \* content of a slot never written
  StoresInOrder,  \* whether the processor keeps the order of stores
  MaxStores       \* bound: pending stores (the size of the store buffer)

ASSUME ValueAssumption == NoDesc \notin Value
ASSUME StoresAssumption == StoresInOrder \in BOOLEAN /\ MaxStores \in Nat

VARIABLES
  Producer, Consumer, Descs,  \* the shared ring
  stores,                     \* stores issued and not yet visible
  busy,                       \* whether a call is in progress
  todo, prod,                 \* locals of the call: descs left, prod
  cachedProd, cachedCons,     \* the kernel's private copies of the counters
  taken                       \* the descriptor the kernel consumed last

goVars == <<busy, todo, prod>>
kernelVars == <<cachedProd, cachedCons, taken>>
vars == <<Producer, Consumer, Descs, stores, goVars, kernelVars>>

(* A pending store: to a slot, or to the Producer counter (slot Size). *)
ProducerLoc == Size
Store(loc, val) == [loc |-> loc, val |-> val]

(* What the Go program reads back at a location: its own newest store. *)
ReadBack(loc, mem) ==
  LET mine == {i \in 1 .. Len(stores) : stores[i].loc = loc}
  IN  IF mine = {} THEN mem
      ELSE stores[CHOOSE i \in mine : \A j \in mine : j <= i].val

ProducerSeen == ReadBack(ProducerLoc, Producer)

Init ==
  /\ Producer = 0 /\ Consumer = 0
  /\ Descs = [s \in SlotIndex |-> NoDesc]
  /\ stores = << >>
  /\ busy = FALSE /\ todo = << >> /\ prod = 0
  /\ cachedProd = 0 /\ cachedCons = 0 /\ taken = << >>

(* Mutant: prod is loaded from Consumer. *)
SubmitFromConsumer(descs) ==
  /\ ~busy
  /\ busy' = TRUE
  /\ todo' = Truncate(descs, NumFreeSlots(ProducerSeen, Consumer))
  /\ prod' = Consumer
  /\ UNCHANGED <<Producer, Consumer, Descs, stores, kernelVars>>

(* Mutant: Producer is stored before the slots. *)
SubmitPublishing(descs) ==
  /\ ~busy
  /\ Len(stores) < MaxStores
  /\ busy' = TRUE
  /\ todo' = Truncate(descs, NumFreeSlots(ProducerSeen, Consumer))
  /\ prod' = ProducerSeen
  /\ stores' = Append(stores, Store(ProducerLoc, (ProducerSeen + Len(todo')) % Modulus))
  /\ UNCHANGED <<Producer, Consumer, Descs, kernelVars>>

(* Entry of Fill and Transmit: count the free slots, cut descs to them. *)
Submit(descs) ==
  /\ ~busy
  /\ busy' = TRUE
  /\ todo' = Truncate(descs, NumFreeSlots(ProducerSeen, Consumer))
  /\ prod' = ProducerSeen
  /\ UNCHANGED <<Producer, Consumer, Descs, stores, kernelVars>>

(* Mutant: prod++ comes before the slot is written. *)
StoreDescAfterIncrement ==
  /\ busy /\ todo # << >>
  /\ Len(stores) < MaxStores
  /\ stores' = Append(stores, Store(Slot(Succ(prod)), Head(todo)))
  /\ prod' = Succ(prod)
  /\ todo' = Tail(todo)
  /\ UNCHANGED <<Producer, Consumer, Descs, busy, kernelVars>>

(* One turn of the loop: Descs[prod & mask] = desc; prod++. *)
StoreDesc ==
  /\ busy /\ todo # << >>
  /\ Len(stores) < MaxStores
  /\ stores' = Append(stores, Store(Slot(prod), Head(todo)))
  /\ prod' = Succ(prod)
  /\ todo' = Tail(todo)
  /\ UNCHANGED <<Producer, Consumer, Descs, busy, kernelVars>>

(* After the loop: *Producer = prod, and the call returns. *)
StoreProducer ==
  /\ busy /\ todo = << >>
  /\ Len(stores) < MaxStores
  /\ stores' = Append(stores, Store(ProducerLoc, prod))
  /\ busy' = FALSE
  /\ UNCHANGED <<Producer, Consumer, Descs, todo, prod, kernelVars>>

(* The pending stores the processor may make visible next: stores to the   *)
(* same location never overtake each other.                                *)
Drainable ==
  IF StoresInOrder THEN {1} \cap (1 .. Len(stores))
  ELSE {i \in 1 .. Len(stores) : \A j \in 1 .. i - 1 : stores[j].loc # stores[i].loc}

Drain(i) ==
  /\ i \in Drainable
  /\ stores' = SubSeq(stores, 1, i - 1) \o SubSeq(stores, i + 1, Len(stores))
  /\ IF stores[i].loc = ProducerLoc
     THEN Producer' = stores[i].val /\ UNCHANGED Descs
     ELSE Descs' = [Descs EXCEPT ![stores[i].loc] = stores[i].val] /\ UNCHANGED Producer
  /\ UNCHANGED <<Consumer, goVars, kernelVars>>

(* The kernel hands back the slots it consumed and looks for new ones. *)
KernelRefresh ==
  /\ cachedProd' = Producer
  /\ Consumer' = cachedCons
  /\ UNCHANGED <<Producer, Descs, stores, goVars, cachedCons, taken>>

(* The kernel consumes one descriptor. *)
KernelConsume ==
  /\ cachedCons # cachedProd
  /\ taken' = << Descs[Slot(cachedCons)] >>
  /\ cachedCons' = Succ(cachedCons)
  /\ UNCHANGED <<Producer, Consumer, Descs, stores, goVars, cachedProd>>

(* Clients submit batches of up to Size + 1 descriptors. *)
Batch == UNION {[1 .. n -> Value] : n \in 0 .. Size + 1}

Next ==
  \/ \E descs \in Batch : Submit(descs)
  \/ StoreDesc
  \/ StoreProducer
  \/ \E i \in 1 .. MaxStores : Drain(i)
  \/ KernelRefresh
  \/ KernelConsume

(* A store issued becomes visible, a call in progress goes on, and the     *)
(* kernel keeps serving the ring.                                          *)
Fairness ==
  /\ WF_vars(StoreDesc) /\ WF_vars(StoreProducer)
  /\ WF_vars(\E i \in 1 .. MaxStores : Drain(i))
  /\ WF_vars(KernelRefresh) /\ WF_vars(KernelConsume)

Spec == Init /\ [][Next]_vars
FairSpec == Spec /\ Fairness
-----------------------------------------------------------------------------
(* Counters, slots and pending stores have the types of umemRing and       *)
(* rxTxRing (xdp.go:124-134).                                              *)
TypeOK ==
  /\ Producer \in Counter /\ Consumer \in Counter
  /\ Descs \in [SlotIndex -> Value \cup {NoDesc}]
  /\ stores \in Seq([loc : 0 .. Size, val : Value \cup Counter])
  /\ busy \in BOOLEAN /\ todo \in Seq(Value) /\ prod \in Counter
  /\ cachedProd \in Counter /\ cachedCons \in Counter
  /\ taken \in Seq(Value \cup {NoDesc})

(* The free-running counters never drift apart by more than the ring: the  *)
(* subtraction in NumFreeFillSlots/NumFreeTxSlots (xdp.go:657,673) cannot  *)
(* underflow into the clamp, whatever wraps, and however late the kernel's *)
(* Consumer store is.                                                      *)
CountersOrdered ==
  /\ Distance(prod, Consumer) <= Size
  /\ Distance(cachedCons, Consumer) <= Distance(cachedProd, Consumer)
  /\ Distance(cachedProd, Consumer) <= Distance(Producer, Consumer)
  /\ Distance(Producer, Consumer) <= Distance(ProducerSeen, Consumer)
  /\ Distance(ProducerSeen, Consumer) <= Distance(prod, Consumer)

(* The ring as its two ends see it: the slots as the Go program reads them *)
(* back, from the kernel's position to the Producer that it reads back.    *)
SeenSlots == [s \in SlotIndex |-> ReadBack(s, Descs[s])]
Queue == Window(SeenSlots, cachedCons, ProducerSeen)

(* A call that fits the free slots it counted never overwrites a slot the  *)
(* kernel has yet to consume (xdp.go:402-411): the ring's two ends see a   *)
(* bounded FIFO.                                                           *)
Fifo == INSTANCE BoundedFifo WITH Capacity <- Size, fifo <- Queue

ImplementsFifo == Fifo!Spec

(* Fill "submits the given descriptors to be filled" (xdp.go:397): the     *)
(* kernel consumes no slot before the descriptor submitted in it is there  *)
(* (xdp.go:409-414).                                                       *)
ConsumesSubmitted == taken \in Seq(Value)

(* Every descriptor whose submission was counted is consumed in the end.   *)
EverySubmissionConsumed ==
  \A c \in Counter : ProducerSeen = c /\ cachedCons # c ~> cachedCons = c
=============================================================================
