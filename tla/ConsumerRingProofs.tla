------------------------- MODULE ConsumerRingProofs -------------------------
(***************************************************************************)
(* What ConsumerRing keeps, for rings of any size and counters of any      *)
(* width that holds two rings: the counters wrap any number of times.      *)
(***************************************************************************)
EXTENDS ConsumerRing, RingArithProofs

(* The order of the counters around the circle, seen from the last one the *)
(* kernel knows of.                                                        *)
KernelOrder ==
  /\ Distance(Consumer, cachedCons) <= Distance(Producer, cachedCons)
  /\ Distance(Producer, cachedCons) <= Distance(cachedProd, cachedCons)
  /\ Distance(cachedProd, cachedCons) <= Size

(* A count outlives what the kernel adds after it (xdp.go:529), and is     *)
(* used up by the call it is passed to.                                    *)
CountHolds ==
  /\ counted <= Distance(Producer, Consumer)
  /\ busy => counted = 0

(* A call in progress has as many slots ahead as turns. *)
CallFits == busy => Distance(cons, Consumer) + left <= Distance(Producer, Consumer)

IInv == TypeOK /\ KernelOrder /\ CountHolds /\ CallFits
-----------------------------------------------------------------------------
(* NumReceived and NumCompleted never count more than a ring holds. *)
LEMMA NumAvailableFits ==
  ASSUME NEW p \in Counter, NEW c \in Counter
  PROVE  /\ NumAvailable(p, c) \in 0 .. Size
         /\ NumAvailable(p, c) <= Distance(p, c)
<1>1. Distance(p, c) \in Nat
  BY DistanceType
<1> DEFINE d == Distance(p, c)
<1>2. NumAvailable(p, c) = IF d > Size THEN Size ELSE d
  BY DEF NumAvailable
<1> HIDE DEF d
<1>3. d \in Nat
  BY <1>1 DEF d
<1>4. NumAvailable(p, c) \in 0 .. Size /\ NumAvailable(p, c) <= d
  BY <1>2, <1>3, SizeFacts
<1> QED
  BY <1>4 DEF d
-----------------------------------------------------------------------------
(* The distances of the counters, as far as the invariant orders them. *)
LEMMA OrderFacts ==
  ASSUME IInv
  PROVE  /\ Distance(Producer, Consumer) \in Nat /\ Distance(Producer, Consumer) <= Size
         /\ Distance(Producer, Consumer) <= Distance(cachedProd, Consumer)
         /\ Distance(cachedProd, Consumer) <= Size
<1>1. Producer \in Counter /\ Consumer \in Counter /\ cachedProd \in Counter /\ cachedCons \in Counter
  BY DEF IInv, TypeOK
<1> DEFINE c == Distance(Consumer, cachedCons)
           p == Distance(Producer, cachedCons)
           q == Distance(cachedProd, cachedCons)
<1>2. c \in Nat /\ p \in Nat /\ q \in Nat /\ c <= p /\ p <= q /\ q <= Size
  BY <1>1, DistanceType DEF IInv, KernelOrder
<1>3. c <= q
  BY <1>2
<1>4. Distance(Producer, Consumer) = p - c /\ Distance(cachedProd, Consumer) = q - c
  BY <1>1, <1>2, <1>3, DistanceBetween
<1> HIDE DEF c, p, q
<1> QED
  BY <1>2, <1>4, SizeFacts

(* A call begins with what is available or less (xdp.go:424-427,633-636). *)
LEMMA BeginIInv ==
  ASSUME IInv, NEW n \in 0 .. Size, n <= Distance(Producer, Consumer), Begin(n)
  PROVE  IInv'
<1> USE DEF IInv
<1>1. /\ busy' = TRUE /\ left' = n /\ cons' = Consumer /\ descs' = << >> /\ counted' = 0
      /\ UNCHANGED <<Producer, Consumer, Descs, taken, cachedProd, cachedCons>>
  BY DEF Begin, sharedVars, kernelVars
<1>2. TypeOK'
  <2>1. 0 \in 0 .. Size
    BY SizeFacts
  <2> QED
    BY <1>1, <2>1 DEF TypeOK
<1>3. KernelOrder'
  BY <1>1 DEF KernelOrder
<1>4. CountHolds'
  <2>1. Distance(Producer, Consumer) \in Nat
    BY OrderFacts
  <2> QED
    BY <1>1, <2>1 DEF CountHolds
<1>5. CallFits'
  <2>1. Distance(Consumer, Consumer) = 0
    BY DistanceType DEF TypeOK
  <2>2. 0 + n = n
    OBVIOUS
  <2>3. Distance(cons', Consumer') + left' = n /\ Distance(Producer', Consumer') = Distance(Producer, Consumer)
    BY <1>1, <2>1, <2>2, Zenon
  <2> QED
    BY <2>3 DEF CallFits
<1> QED
  BY <1>2, <1>3, <1>4, <1>5

(* One turn of the copying loop (xdp.go:432-437,638-643). *)
LEMMA CopyDescIInv ==
  ASSUME IInv, CopyDesc
  PROVE  IInv'
<1> USE DEF IInv
<1>1. /\ busy /\ left > 0 /\ cons' = Succ(cons) /\ left' = left - 1
      /\ descs' = Append(descs, Descs[Slot(cons)])
      /\ UNCHANGED <<Producer, Consumer, Descs, busy, counted, taken, cachedProd, cachedCons>>
  BY DEF CopyDesc, sharedVars, kernelVars
<1>2. cons \in Counter /\ Consumer \in Counter /\ left \in 0 .. Size
  BY DEF TypeOK
<1>3. TypeOK'
  <2>1. cons' \in Counter
    BY <1>1, <1>2, SuccValue
  <2>2. left' \in 0 .. Size
    BY <1>1, <1>2, SizeFacts
  <2>3. Descs[Slot(cons)] \in Value \cup {NoDesc}
    BY <1>2, SlotType DEF TypeOK
  <2>4. descs' \in Seq(Value \cup {NoDesc})
    BY <1>1, <2>3 DEF TypeOK
  <2>5. busy' \in BOOLEAN
    BY <1>1, Zenon DEF TypeOK
  <2> QED
    BY <1>1, <2>1, <2>2, <2>4, <2>5 DEF TypeOK
<1>4. KernelOrder' /\ CountHolds'
  BY <1>1 DEF KernelOrder, CountHolds
<1>5. CallFits'
  <2> DEFINE d == Distance(cons, Consumer)
             w == Distance(Producer, Consumer)
  <2>1. d \in Nat /\ d + left <= w /\ w \in Nat /\ w <= Size
    BY <1>1, <1>2, DistanceType, OrderFacts DEF CallFits
  <2> HIDE DEF d, w
  <2>2. d + 1 < Modulus \/ d + 1 = Modulus
    BY <1>1, <1>2, <2>1, SizeFacts
  <2>3. d + 1 < Modulus
    BY <1>1, <1>2, <2>1, SizeFacts
  <2>4. Distance(cons', Consumer') = d + 1 /\ Distance(Producer', Consumer') = w
    BY <1>1, <1>2, <2>3, DistanceSucc DEF d, w
  <2>5. (d + 1) + (left - 1) <= w
    BY <1>2, <2>1
  <2> QED
    BY <1>1, <2>4, <2>5 DEF CallFits
<1> QED
  BY <1>3, <1>4, <1>5

(* The call stores Consumer and returns (xdp.go:438,644): what it took was *)
(* there to take.                                                          *)
LEMMA StoreConsumerIInv ==
  ASSUME IInv, StoreConsumer
  PROVE  IInv'
<1> USE DEF IInv
<1>1. /\ busy /\ left = 0 /\ Consumer' = cons /\ taken' = descs /\ descs' = << >> /\ busy' = FALSE
      /\ UNCHANGED <<Producer, Descs, left, cons, counted, cachedProd, cachedCons>>
  BY DEF StoreConsumer, kernelVars
<1>2. TypeOK'
  <2>1. busy' \in BOOLEAN
    BY <1>1
  <2>2. taken' \in Seq(Value \cup {NoDesc}) /\ descs' \in Seq(Value \cup {NoDesc})
    BY <1>1 DEF TypeOK
  <2> QED
    BY <1>1, <2>1, <2>2 DEF TypeOK
<1>3. CallFits'
  BY <1>1 DEF CallFits
<1> DEFINE b == Distance(Consumer, cachedCons)
           d == Distance(cons, Consumer)
           w == Distance(Producer, Consumer)
           p == Distance(Producer, cachedCons)
           q == Distance(cachedProd, cachedCons)
<1>4. /\ cons \in Counter /\ Consumer \in Counter /\ Producer \in Counter
      /\ cachedProd \in Counter /\ cachedCons \in Counter
  BY DEF TypeOK
<1>5. b \in Nat /\ d \in Nat /\ w \in Nat /\ p \in Nat /\ q \in Nat /\ w = p - b
  BY <1>4, DistanceType, DistanceBetween DEF KernelOrder
<1>6. b <= p /\ p <= q /\ q <= Size
  BY DEF KernelOrder
<1>7. d <= w
  <2>1. d + 0 <= w
    BY <1>1 DEF CallFits
  <2> HIDE DEF d, w
  <2> QED
    BY <1>5, <2>1
<1> HIDE DEF b, d, w, p, q
<1>8. b + d < Modulus /\ b + d <= p
  BY <1>5, <1>6, <1>7, SizeFacts
<1>9. Distance(cons, cachedCons) = b + d
  BY <1>4, <1>8, DistanceSum DEF b, d
<1>10. KernelOrder'
  <2>1. Distance(Consumer', cachedCons') = b + d /\ Distance(Producer', cachedCons') = p
        /\ Distance(cachedProd', cachedCons') = q
    BY <1>1, <1>9 DEF p, q
  <2> QED
    BY <1>6, <1>8, <2>1 DEF KernelOrder
<1>11. CountHolds'
  <2>1. Distance(Producer, cons) \in Nat
    BY <1>4, DistanceType
  <2>2. counted' = 0 /\ Distance(Producer', Consumer') = Distance(Producer, cons)
    BY <1>1 DEF CountHolds
  <2> QED
    BY <1>1, <2>1, <2>2 DEF CountHolds
<1> QED
  BY <1>2, <1>3, <1>10, <1>11

(* What the locals and the counts of the program do not notice: the kernel *)
(* moves its counters on, or tells of them.                                *)
LEMMA KernelIInv ==
  ASSUME IInv, TypeOK', KernelOrder',
         Distance(Producer', Consumer) >= Distance(Producer, Consumer),
         UNCHANGED <<Consumer, busy, left, cons, descs, counted, taken>>
  PROVE  IInv'
<1> USE DEF IInv
<1> DEFINE v == Distance(Producer', Consumer)
           w == Distance(Producer, Consumer)
           d == Distance(cons, Consumer)
<1>1. v \in Nat /\ w \in Nat /\ d \in Nat /\ w <= v
  BY DistanceType DEF TypeOK
<1>2. left \in Nat /\ counted \in Nat
  BY SizeFacts DEF TypeOK
<1>3. Distance(Producer', Consumer') = v /\ Distance(cons', Consumer') = d
  OBVIOUS
<1>4. counted <= w /\ (busy => counted = 0) /\ (busy => d + left <= w)
  BY DEF CountHolds, CallFits
<1> HIDE DEF v, w, d
<1>5. counted <= v /\ (busy => d + left <= v)
  BY <1>1, <1>2, <1>4
<1>6. CountHolds'
  BY <1>3, <1>4, <1>5 DEF CountHolds
<1>7. CallFits'
  BY <1>3, <1>5 DEF CallFits
<1> QED
  BY <1>6, <1>7

(* The kernel writes a slot beyond all the program can see. *)
LEMMA KernelWriteIInv ==
  ASSUME IInv, NEW v \in Value, KernelWrite(v)
  PROVE  IInv'
<1>1. /\ Distance(cachedProd, cachedCons) < Size
      /\ Descs' = [Descs EXCEPT ![Slot(cachedProd)] = v] /\ cachedProd' = Succ(cachedProd)
      /\ UNCHANGED <<Producer, Consumer, busy, left, cons, descs, counted, taken, cachedCons>>
  BY DEF KernelWrite, callVars
<1>2. cachedProd \in Counter /\ cachedCons \in Counter
  BY DEF IInv, TypeOK
<1>3. TypeOK'
  <2>1. Descs' \in [SlotIndex -> Value \cup {NoDesc}]
    BY <1>1 DEF IInv, TypeOK
  <2>2. cachedProd' \in Counter
    BY <1>1, <1>2, SuccValue
  <2>3. busy' \in BOOLEAN
    BY <1>1, Zenon DEF IInv, TypeOK
  <2> QED
    BY <1>1, <2>1, <2>2, <2>3 DEF IInv, TypeOK
<1>4. KernelOrder'
  <2> DEFINE p == Distance(Producer, cachedCons)
             q == Distance(cachedProd, cachedCons)
  <2>1. p \in Nat /\ q \in Nat /\ p <= q /\ q < Size
    BY <1>1, <1>2, DistanceType DEF IInv, TypeOK, KernelOrder
  <2>2. Distance(Consumer, cachedCons) <= p
    BY DEF IInv, KernelOrder
  <2> HIDE DEF p, q
  <2>3. q + 1 < Modulus /\ p <= q + 1 /\ q + 1 <= Size
    BY <2>1, SizeFacts
  <2>4. Distance(cachedProd', cachedCons') = q + 1
    BY <1>1, <1>2, <2>3, DistanceSucc DEF q
  <2>5. Distance(Producer', cachedCons') = p
    BY <1>1 DEF p
  <2> QED
    BY <1>1, <2>2, <2>3, <2>4, <2>5 DEF KernelOrder
<1>5. Distance(Producer', Consumer) >= Distance(Producer, Consumer)
  BY <1>1, OrderFacts
<1> QED
  BY <1>1, <1>3, <1>4, <1>5, KernelIInv

(* The kernel publishes what it wrote, which is not more than a ring. *)
LEMMA KernelSubmitIInv ==
  ASSUME IInv, KernelSubmit
  PROVE  IInv'
<1>1. /\ Producer' = cachedProd
      /\ UNCHANGED <<Consumer, Descs, busy, left, cons, descs, counted, taken, cachedProd, cachedCons>>
  BY DEF KernelSubmit, callVars, kernelVars
<1>2. TypeOK'
  <2>1. busy' \in BOOLEAN
    BY <1>1, Zenon DEF IInv, TypeOK
  <2> QED
    BY <1>1, <2>1 DEF IInv, TypeOK
<1>3. KernelOrder'
  <2> DEFINE c == Distance(Consumer, cachedCons)
             p == Distance(Producer, cachedCons)
             q == Distance(cachedProd, cachedCons)
  <2>1. c \in Nat /\ p \in Nat /\ q \in Nat /\ c <= p /\ p <= q /\ q <= Size
    BY DistanceType DEF IInv, TypeOK, KernelOrder
  <2>2. /\ Distance(Consumer', cachedCons') = c /\ Distance(Producer', cachedCons') = q
        /\ Distance(cachedProd', cachedCons') = q
    BY <1>1
  <2> HIDE DEF c, p, q
  <2>3. c <= q /\ q <= q
    BY <2>1
  <2> QED
    BY <2>1, <2>2, <2>3 DEF KernelOrder
<1>4. Distance(Producer', Consumer) >= Distance(Producer, Consumer)
  <2>1. Distance(Producer, Consumer) <= Distance(cachedProd, Consumer)
    BY OrderFacts
  <2>2. Distance(Producer, Consumer) \in Nat /\ Distance(cachedProd, Consumer) \in Nat
    BY DistanceType DEF IInv, TypeOK
  <2> QED
    BY <1>1, <2>1, <2>2
<1> QED
  BY <1>1, <1>2, <1>3, <1>4, KernelIInv

(* The kernel learns what the program has taken. *)
LEMMA KernelRefreshIInv ==
  ASSUME IInv, KernelRefresh
  PROVE  IInv'
<1>1. /\ cachedCons' = Consumer
      /\ UNCHANGED <<Producer, Consumer, Descs, busy, left, cons, descs, counted, taken, cachedProd>>
  BY DEF KernelRefresh, sharedVars, callVars
<1>2. TypeOK'
  <2>1. busy' \in BOOLEAN
    BY <1>1, Zenon DEF IInv, TypeOK
  <2> QED
    BY <1>1, <2>1 DEF IInv, TypeOK
<1>3. KernelOrder'
  <2>1. Distance(Consumer, Consumer) = 0
    BY DistanceType DEF IInv, TypeOK
  <2>2. 0 <= Distance(Producer, Consumer)
    BY OrderFacts
  <2> QED
    BY <1>1, <2>1, <2>2, OrderFacts DEF KernelOrder
<1>4. Distance(Producer', Consumer) >= Distance(Producer, Consumer)
  BY <1>1, OrderFacts
<1> QED
  BY <1>1, <1>2, <1>3, <1>4, KernelIInv

(* The program counts what is there (xdp.go:682-710). *)
LEMMA CountIInv ==
  ASSUME IInv, Count
  PROVE  IInv'
<1> USE DEF IInv
<1>1. /\ ~busy /\ counted' = NumAvailable(Producer, Consumer)
      /\ UNCHANGED <<Producer, Consumer, Descs, busy, left, cons, descs, taken, cachedProd, cachedCons>>
  BY DEF Count, sharedVars, callVars, kernelVars
<1>2. counted' \in 0 .. Size /\ counted' <= Distance(Producer, Consumer)
  BY <1>1, NumAvailableFits DEF TypeOK
<1>3. TypeOK'
  <2>1. busy' \in BOOLEAN
    BY <1>1, Zenon DEF TypeOK
  <2> QED
    BY <1>1, <1>2, <2>1 DEF TypeOK
<1>4. KernelOrder' /\ CallFits'
  BY <1>1 DEF KernelOrder, CallFits
<1>5. CountHolds'
  BY <1>1, <1>2 DEF CountHolds
<1> QED
  BY <1>3, <1>4, <1>5

(* Receive cuts num to what it counts at once (xdp.go:424-427). *)
LEMMA ReceiveIInv ==
  ASSUME IInv, NEW num \in 0 .. Size + 1, Receive(num)
  PROVE  IInv'
<1> DEFINE m == NumAvailable(Producer, Consumer)
           n == IF num > m THEN m ELSE num
<1>1. m \in 0 .. Size /\ m <= Distance(Producer, Consumer)
  BY NumAvailableFits DEF IInv, TypeOK
<1>2. Begin(n)
  BY DEF Receive
<1>3. Distance(Producer, Consumer) \in Nat
  BY OrderFacts
<1> HIDE DEF m
<1>4. n \in 0 .. Size /\ n <= Distance(Producer, Consumer)
  BY <1>1, <1>3, SizeFacts
<1> HIDE DEF n
<1> QED
  BY <1>2, <1>4, BeginIInv

(* Complete is passed a count (xdp.go:529-530). *)
LEMMA CompleteIInv ==
  ASSUME IInv, Complete(counted)
  PROVE  IInv'
BY BeginIInv DEF Complete, IInv, TypeOK, CountHolds

(* All counters start at 0. *)
LEMMA InitIInv == Init => IInv
<1> SUFFICES ASSUME Init PROVE IInv
  OBVIOUS
<1>1. 0 \in Counter /\ 0 \in 0 .. Size
  BY SizeFacts DEF Counter
<1>2. Distance(0, 0) = 0
  BY <1>1, DistanceType
<1>3. TypeOK
  <2>1. Descs \in [SlotIndex -> Value \cup {NoDesc}]
    BY DEF Init
  <2>2. descs \in Seq(Value \cup {NoDesc}) /\ taken \in Seq(Value \cup {NoDesc})
    BY DEF Init
  <2>3. busy \in BOOLEAN
    BY DEF Init
  <2> QED
    BY <1>1, <2>1, <2>2, <2>3 DEF Init, TypeOK
<1>4. KernelOrder /\ CountHolds /\ CallFits
  BY <1>2, SizeFacts DEF Init, KernelOrder, CountHolds, CallFits
<1> QED
  BY <1>3, <1>4 DEF IInv

(* One step per action, and stuttering. *)
LEMMA NextIInv ==
  ASSUME IInv, [Next]_vars
  PROVE  IInv'
<1>1. CASE Next
  BY <1>1, CountIInv, ReceiveIInv, CompleteIInv, CopyDescIInv, StoreConsumerIInv, KernelWriteIInv,
     KernelSubmitIInv, KernelRefreshIInv DEF Next, KernelNext
<1>2. CASE UNCHANGED vars
  <2>1. UNCHANGED <<Producer, Consumer, Descs, busy, left, cons, descs, counted, taken, cachedProd, cachedCons>>
    BY <1>2 DEF vars, sharedVars, callVars, kernelVars
  <2>2. busy' \in BOOLEAN
    BY <2>1, Zenon DEF IInv, TypeOK
  <2>3. TypeOK'
    BY <2>1, <2>2 DEF IInv, TypeOK
  <2>4. KernelOrder' /\ CountHolds' /\ CallFits'
    BY <2>1 DEF IInv, KernelOrder, CountHolds, CallFits
  <2> QED
    BY <2>3, <2>4 DEF IInv
<1> QED
  BY <1>1, <1>2

(* The four counters and the call's own keep their order around the circle *)
(* (xdp.go:424-440,633-646), however often they wrap.                      *)
THEOREM Invariance == Spec => []IInv
<1>1. IInv /\ [Next]_vars => IInv'
  BY NextIInv
<1> QED
  BY <1>1, InitIInv, PTL DEF Spec

(* Counters, slots and locals keep their types (xdp.go:124-134): every     *)
(* masked index is one of the ring.                                        *)
THEOREM TypeCorrect == Spec => []TypeOK
<1>1. IInv => TypeOK
  BY DEF IInv
<1> QED
  BY <1>1, Invariance, PTL

(* No call takes what the kernel has not produced, so that the unsigned    *)
(* subtraction of NumReceived and NumCompleted (xdp.go:688,703) is the     *)
(* number of descriptors, for rings of any size.                           *)
THEOREM NeverPastProducerAlways == Spec => []NeverPastProducer
<1>1. IInv => NeverPastProducer
  BY OrderFacts DEF IInv, CallFits, NeverPastProducer
<1> QED
  BY <1>1, Invariance, PTL
-----------------------------------------------------------------------------
(* The kernel has written every slot from Consumer to its own producer. *)
Written ==
  \A c \in Counter :
    Distance(c, Consumer) < Distance(cachedProd, Consumer) => Descs[Slot(c)] \in Value

(* What a call has copied is still in the ring. *)
Copied ==
  busy =>
    /\ Len(descs) = Distance(cons, Consumer)
    /\ \A i \in 1 .. Len(descs) : descs[i] = Descs[Slot(At(Consumer, i - 1))]

FInv == IInv /\ Written /\ Copied

(* The kernel writes only when a slot is free, also in the program's view. *)
LEMMA RoomToWrite ==
  ASSUME IInv, NEW v \in Value, KernelWrite(v)
  PROVE  Distance(cachedProd, Consumer) \in Nat /\ Distance(cachedProd, Consumer) < Size
<1>1. Consumer \in Counter /\ cachedProd \in Counter /\ cachedCons \in Counter
  BY DEF IInv, TypeOK
<1> DEFINE b == Distance(Consumer, cachedCons)
           p == Distance(Producer, cachedCons)
           q == Distance(cachedProd, cachedCons)
<1>2. b \in Nat /\ p \in Nat /\ q \in Nat /\ q < Size /\ b <= p /\ p <= q
  BY <1>1, DistanceType DEF KernelWrite, IInv, TypeOK, KernelOrder
<1>3. b <= q
  BY <1>2
<1>4. Distance(cachedProd, Consumer) = q - b
  BY <1>1, <1>3, DistanceBetween
<1> HIDE DEF b, p, q
<1> QED
  BY <1>2, <1>3, <1>4, SizeFacts

(* The kernel writes no slot that holds a descriptor not yet taken. *)
LEMMA NotOverwritten ==
  ASSUME IInv, NEW v \in Value, KernelWrite(v), NEW c \in Counter,
         Distance(c, Consumer) < Distance(cachedProd, Consumer)
  PROVE  Descs'[Slot(c)] = Descs[Slot(c)]
<1>1. Consumer \in Counter /\ cachedProd \in Counter
  BY DEF IInv, TypeOK
<1> DEFINE x == Distance(cachedProd, Consumer)
           d == Distance(c, Consumer)
<1>2. x \in Nat /\ d \in Nat /\ d < x /\ x < Size
  BY <1>1, DistanceType, RoomToWrite
<1>3. Distance(cachedProd, c) = x - d
  <2>1. Distance(c, Consumer) <= Distance(cachedProd, Consumer)
    BY <1>2
  <2> QED
    BY <1>1, <2>1, DistanceBetween
<1> HIDE DEF x, d
<1>4. x - d > 0 /\ x - d < Size
  BY <1>2, SizeFacts
<1>5. Slot(c) # Slot(cachedProd)
  BY <1>1, <1>3, <1>4, SlotsDiffer
<1>6. Slot(c) \in SlotIndex
  BY SlotType
<1>7. Descs' = [Descs EXCEPT ![Slot(cachedProd)] = v] /\ Descs \in [SlotIndex -> Value \cup {NoDesc}]
  BY DEF KernelWrite, IInv, TypeOK
<1> QED
  BY <1>5, <1>6, <1>7

(* The steps that move neither the slots nor the ends of what is copied. *)
LEMMA StillCopied ==
  ASSUME FInv, UNCHANGED <<Consumer, cachedProd, Descs, busy, cons, descs>>
  PROVE  Written' /\ Copied'
BY DEF FInv, Written, Copied

(* A call starts with nothing copied. *)
LEMMA BeginCopied ==
  ASSUME FInv, NEW n, Begin(n)
  PROVE  Written' /\ Copied'
<1>1. cons' = Consumer /\ descs' = << >> /\ UNCHANGED <<Consumer, cachedProd, Descs>>
  BY DEF Begin, sharedVars, kernelVars
<1>2. Written'
  BY <1>1 DEF FInv, Written
<1>3. Distance(cons', Consumer') = 0
  BY <1>1, DistanceType DEF FInv, IInv, TypeOK
<1>4. Len(descs') = 0
  BY <1>1
<1> QED
  BY <1>2, <1>3, <1>4 DEF Copied

(* One turn copies the slot that is next (xdp.go:434-436,640-642). *)
LEMMA CopyDescCopied ==
  ASSUME FInv, CopyDesc
  PROVE  Written' /\ Copied'
<1>1. /\ busy /\ left > 0 /\ cons' = Succ(cons) /\ descs' = Append(descs, Descs[Slot(cons)])
      /\ UNCHANGED <<Consumer, cachedProd, Descs, busy>>
  BY DEF CopyDesc, sharedVars, kernelVars
<1>2. /\ cons \in Counter /\ Consumer \in Counter /\ Producer \in Counter /\ left \in 0 .. Size
      /\ descs \in Seq(Value \cup {NoDesc})
  BY DEF FInv, IInv, TypeOK
<1>3. Written'
  BY <1>1 DEF FInv, Written
<1> DEFINE d == Distance(cons, Consumer)
<1>4. /\ Len(descs) = d /\ d \in Nat
      /\ \A i \in 1 .. Len(descs) : descs[i] = Descs[Slot(At(Consumer, i - 1))]
  BY <1>1, <1>2, DistanceType DEF FInv, Copied
<1>5. d + 1 < Modulus
  <2> DEFINE w == Distance(Producer, Consumer)
  <2>1. w \in Nat /\ w <= Size /\ d + left <= w
    BY <1>1, OrderFacts DEF FInv, IInv, CallFits
  <2> HIDE DEF d, w
  <2> QED
    BY <1>1, <1>2, <1>4, <2>1, SizeFacts
<1>6. Distance(cons', Consumer') = d + 1
  BY <1>1, <1>2, <1>5, DistanceSucc
<1>7. At(Consumer, d) = cons
  BY <1>2, AtArrives
<1> HIDE DEF d
<1>8. Len(descs') = d + 1
  BY <1>1, <1>2, <1>4
<1>9. ASSUME NEW i \in 1 .. Len(descs')
      PROVE  descs'[i] = Descs'[Slot(At(Consumer', i - 1))]
  <2>1. CASE i <= d
    <3>1. i \in 1 .. Len(descs) /\ descs'[i] = descs[i]
      BY <1>1, <1>2, <1>4, <1>8, <2>1
    <3>2. descs[i] = Descs[Slot(At(Consumer, i - 1))]
      BY <1>4, <3>1
    <3> QED
      BY <1>1, <3>1, <3>2
  <2>2. CASE ~(i <= d)
    <3>1. i = d + 1 /\ i - 1 = d
      BY <1>4, <1>8, <2>2
    <3>2. descs'[d + 1] = Descs[Slot(cons)]
      BY <1>1, <1>2, <1>4
    <3>3. descs'[i] = Descs[Slot(At(Consumer, i - 1))]
      BY <1>7, <3>1, <3>2, Zenon
    <3> QED
      BY <1>1, <3>3
  <2> QED
    BY <2>1, <2>2
<1> QED
  BY <1>3, <1>6, <1>8, <1>9 DEF Copied

(* What lies beyond the new Consumer lay beyond the old one. *)
LEMMA StoreConsumerCopied ==
  ASSUME FInv, StoreConsumer
  PROVE  Written' /\ Copied'
<1>1. busy /\ left = 0 /\ Consumer' = cons /\ busy' = FALSE /\ UNCHANGED <<cachedProd, Descs>>
  BY DEF StoreConsumer, kernelVars
<1>2. Copied'
  BY <1>1 DEF Copied
<1>3. cons \in Counter /\ Consumer \in Counter /\ cachedProd \in Counter /\ Producer \in Counter
  BY DEF FInv, IInv, TypeOK
<1>4. ASSUME NEW c \in Counter, Distance(c, cons) < Distance(cachedProd, cons)
      PROVE  Descs[Slot(c)] \in Value
  <2> DEFINE d == Distance(cons, Consumer)
             w == Distance(Producer, Consumer)
             x == Distance(cachedProd, Consumer)
             e == Distance(c, cons)
  <2>1. d \in Nat /\ w \in Nat /\ x \in Nat /\ e \in Nat /\ w <= x /\ x <= Size
    BY <1>3, DistanceType, OrderFacts DEF FInv
  <2>2. d + 0 <= w
    BY <1>1 DEF FInv, IInv, CallFits
  <2>3. d <= x
    <3> HIDE DEF d, w, x
    <3> QED
      BY <2>1, <2>2
  <2>4. Distance(cachedProd, cons) = x - d
    BY <1>3, <2>3, DistanceBetween
  <2>5. e < x - d
    BY <1>4, <2>4
  <2>6. d + e < x /\ d + e < Modulus
    <3> HIDE DEF d, x, e
    <3> QED
      BY <2>1, <2>5, SizeFacts
  <2>7. Distance(c, Consumer) = d + e
    BY <1>3, <2>6, DistanceSum
  <2>8. Distance(c, Consumer) < x
    BY <2>6, <2>7
  <2> QED
    BY <2>8 DEF FInv, Written
<1>5. Written'
  BY <1>1, <1>4 DEF Written
<1> QED
  BY <1>2, <1>5

(* The kernel fills the next slot and spares the others. *)
LEMMA KernelWriteCopied ==
  ASSUME FInv, NEW v \in Value, KernelWrite(v)
  PROVE  Written' /\ Copied'
<1>1. /\ Descs' = [Descs EXCEPT ![Slot(cachedProd)] = v] /\ cachedProd' = Succ(cachedProd)
      /\ UNCHANGED <<Consumer, busy, cons, descs>>
  BY DEF KernelWrite, callVars
<1>2. cons \in Counter /\ Consumer \in Counter /\ cachedProd \in Counter /\ Producer \in Counter
  BY DEF FInv, IInv, TypeOK
<1> DEFINE x == Distance(cachedProd, Consumer)
<1>3. x \in Nat /\ x < Size
  BY RoomToWrite DEF FInv
<1>4. x + 1 < Modulus
  <2> HIDE DEF x
  <2> QED
    BY <1>3, SizeFacts
<1>5. Distance(cachedProd', Consumer') = x + 1
  BY <1>1, <1>2, <1>4, DistanceSucc
<1>6. ASSUME NEW c \in Counter, Distance(c, Consumer) < x + 1
      PROVE  Descs'[Slot(c)] \in Value
  <2>1. Distance(c, Consumer) \in Nat
    BY <1>2, DistanceType
  <2>2. CASE Distance(c, Consumer) < x
    <3>1. Descs'[Slot(c)] = Descs[Slot(c)]
      BY <2>2, NotOverwritten DEF FInv
    <3> QED
      BY <2>2, <3>1 DEF FInv, Written
  <2>3. CASE Distance(c, Consumer) = x
    <3>1. At(Consumer, x) = c /\ At(Consumer, x) = cachedProd
      <4>1. At(Consumer, Distance(c, Consumer)) = c
        BY <1>2, AtArrives
      <4>2. At(Consumer, x) = cachedProd
        BY <1>2, AtArrives
      <4> QED
        BY <2>3, <4>1, <4>2, Zenon
    <3>2. Slot(cachedProd) \in SlotIndex /\ Descs \in [SlotIndex -> Value \cup {NoDesc}]
      BY <1>2, SlotType DEF FInv, IInv, TypeOK
    <3>3. Descs'[Slot(cachedProd)] = v
      BY <1>1, <3>2
    <3> QED
      BY <3>1, <3>3, Zenon
  <2>4. Distance(c, Consumer) < x \/ Distance(c, Consumer) = x
    <3> DEFINE e == Distance(c, Consumer)
    <3>1. e \in Nat /\ e < x + 1
      BY <1>6, <2>1
    <3> HIDE DEF x, e
    <3>2. e < x \/ e = x
      BY <1>3, <3>1
    <3> QED
      BY <3>2 DEF e
  <2> QED
    BY <2>2, <2>3, <2>4
<1>7. Written'
  BY <1>1, <1>5, <1>6 DEF Written
<1>8. ASSUME busy, NEW i \in 1 .. Len(descs)
      PROVE  descs[i] = Descs'[Slot(At(Consumer, i - 1))]
  <2> DEFINE d == Distance(cons, Consumer)
             w == Distance(Producer, Consumer)
  <2>1. /\ Len(descs) = d /\ d \in Nat /\ w \in Nat /\ w <= x
        /\ descs[i] = Descs[Slot(At(Consumer, i - 1))]
    BY <1>2, <1>8, DistanceType, OrderFacts DEF FInv, Copied
  <2>2. d + left <= w /\ left \in Nat
    BY <1>8, SizeFacts DEF FInv, IInv, CallFits, TypeOK
  <2>3. i - 1 \in Nat /\ i - 1 < x /\ i - 1 < Modulus
    <3> HIDE DEF d, w, x
    <3> QED
      BY <1>3, <1>4, <2>1, <2>2, SizeFacts
  <2>4. At(Consumer, i - 1) \in Counter /\ Distance(At(Consumer, i - 1), Consumer) < x
    BY <1>2, <2>3, AtValue, AtDistance
  <2>5. Descs'[Slot(At(Consumer, i - 1))] = Descs[Slot(At(Consumer, i - 1))]
    BY <2>4, NotOverwritten DEF FInv
  <2> QED
    BY <2>1, <2>5
<1>9. Copied'
  BY <1>1, <1>8 DEF FInv, Copied
<1> QED
  BY <1>7, <1>9

(* Nothing is written or copied at first. *)
LEMMA InitFInv == Init => FInv
<1> SUFFICES ASSUME Init PROVE FInv
  OBVIOUS
<1>1. IInv
  BY InitIInv
<1>2. Distance(cachedProd, Consumer) = 0
  BY <1>1, DistanceType DEF Init, IInv, TypeOK
<1>3. Written
  <2>1. ASSUME NEW c \in Counter
        PROVE  ~(Distance(c, Consumer) < 0)
    <3>1. Distance(c, Consumer) \in Nat
      BY <1>1, DistanceType DEF IInv, TypeOK
    <3>2. \A n \in Nat : ~(n < 0)
      OBVIOUS
    <3> QED
      BY <3>1, <3>2
  <2> QED
    BY <1>2, <2>1 DEF Written
<1>4. Copied
  BY DEF Init, Copied
<1> QED
  BY <1>1, <1>3, <1>4 DEF FInv

(* One step per action, and stuttering. *)
LEMMA NextFInv ==
  ASSUME FInv, [Next]_vars
  PROVE  FInv'
<1>1. IInv'
  BY NextIInv DEF FInv
<1>2. ASSUME Count \/ KernelSubmit \/ KernelRefresh \/ UNCHANGED vars
      PROVE  Written' /\ Copied'
  <2>1. UNCHANGED <<Consumer, cachedProd, Descs, busy, cons, descs>>
    BY <1>2 DEF Count, KernelSubmit, KernelRefresh, vars, sharedVars, callVars, kernelVars
  <2> QED
    BY <2>1, StillCopied
<1>3. ASSUME NEW num, Receive(num)
      PROVE  Written' /\ Copied'
  BY <1>3, BeginCopied DEF Receive
<1>4. ASSUME Complete(counted)
      PROVE  Written' /\ Copied'
  BY <1>4, BeginCopied DEF Complete
<1>5. Written' /\ Copied'
  BY <1>2, <1>3, <1>4, CopyDescCopied, StoreConsumerCopied, KernelWriteCopied DEF Next, KernelNext
<1> QED
  BY <1>1, <1>5 DEF FInv

(* A step that leaves counters, slots and results alone is none of the     *)
(* queue's.                                                                *)
LEMMA FifoStutters ==
  ASSUME UNCHANGED <<Producer, Consumer, Descs, taken>>
  PROVE  UNCHANGED Fifo!vars
BY DEF Fifo!vars

(* Neither is a slot the kernel has yet to publish. *)
LEMMA FifoKernelWrite ==
  ASSUME FInv, FInv', NEW v \in Value, KernelWrite(v)
  PROVE  UNCHANGED Fifo!vars
<1>1. UNCHANGED <<Producer, Consumer, taken>>
  BY DEF KernelWrite
<1>2. /\ Producer \in Counter /\ Consumer \in Counter /\ cachedProd \in Counter
      /\ Descs \in [SlotIndex -> Value \cup {NoDesc}] /\ Descs' \in [SlotIndex -> Value \cup {NoDesc}]
  BY DEF FInv, IInv, TypeOK
<1>3. ASSUME NEW i \in 1 .. Distance(Producer, Consumer)
      PROVE  Descs'[Slot(At(Consumer, i - 1))] = Descs[Slot(At(Consumer, i - 1))]
  <2> DEFINE w == Distance(Producer, Consumer)
             x == Distance(cachedProd, Consumer)
  <2>1. w \in Nat /\ x \in Nat /\ w <= x /\ x <= Size
    BY <1>2, DistanceType, OrderFacts DEF FInv
  <2>2. i \in 1 .. w
    OBVIOUS
  <2>3. i - 1 \in Nat /\ i - 1 < x /\ i - 1 < Modulus
    <3> HIDE DEF w, x
    <3> QED
      BY <2>1, <2>2, SizeFacts
  <2>4. At(Consumer, i - 1) \in Counter /\ Distance(At(Consumer, i - 1), Consumer) < x
    BY <1>2, <2>3, AtValue, AtDistance
  <2> QED
    BY <2>4, NotOverwritten DEF FInv
<1>4. Window(Descs', Consumer, Producer) = Window(Descs, Consumer, Producer)
  BY <1>2, <1>3, WindowSame
<1> QED
  BY <1>1, <1>4 DEF Fifo!vars

(* The window over the slots of this ring. *)
LEMMA DescsWindow ==
  ASSUME NEW s \in [SlotIndex -> Value \cup {NoDesc}], NEW c \in Counter, NEW p \in Counter
  PROVE  /\ Window(s, c, p) \in Seq(Value \cup {NoDesc})
         /\ Len(Window(s, c, p)) = Distance(p, c)
         /\ \A i \in 1 .. Distance(p, c) : Window(s, c, p)[i] = s[Slot(At(c, i - 1))]
BY WindowFacts

(* Publishing puts the slots written since the last time, at the end. *)
LEMMA FifoKernelSubmit ==
  ASSUME FInv, KernelSubmit
  PROVE  Fifo!Put
<1>1. /\ Producer # cachedProd /\ Producer' = cachedProd
      /\ UNCHANGED <<Consumer, Descs, taken>>
  BY DEF KernelSubmit
<1>2. /\ Producer \in Counter /\ Consumer \in Counter /\ cachedProd \in Counter
      /\ Descs \in [SlotIndex -> Value \cup {NoDesc}]
  BY DEF FInv, IInv, TypeOK
<1> DEFINE f == Window(Descs, Consumer, Producer)
           g == Window(Descs, Consumer, cachedProd)
           w == Distance(Producer, Consumer)
           x == Distance(cachedProd, Consumer)
<1>3. w \in Nat /\ x \in Nat /\ w <= x /\ x <= Size
  BY <1>2, DistanceType, OrderFacts DEF FInv
<1>4. w # x
  <2>1. At(Consumer, w) = Producer /\ At(Consumer, x) = cachedProd
    BY <1>2, AtArrives
  <2> QED
    BY <1>1, <2>1, Zenon
<1>5. /\ f \in Seq(Value \cup {NoDesc}) /\ Len(f) = w
      /\ \A i \in 1 .. w : f[i] = Descs[Slot(At(Consumer, i - 1))]
  BY <1>2, DescsWindow
<1>6. /\ g \in Seq(Value \cup {NoDesc}) /\ Len(g) = x
      /\ \A i \in 1 .. x : g[i] = Descs[Slot(At(Consumer, i - 1))]
  BY <1>2, DescsWindow
<1>7. ASSUME NEW i \in 1 .. x
      PROVE  Descs[Slot(At(Consumer, i - 1))] \in Value
  <2>1. i - 1 \in Nat /\ i - 1 < x /\ i - 1 < Modulus
    <3> HIDE DEF x
    <3> QED
      BY <1>3, <1>7, SizeFacts
  <2>2. At(Consumer, i - 1) \in Counter /\ Distance(At(Consumer, i - 1), Consumer) < x
    BY <1>2, <2>1, AtValue, AtDistance
  <2> QED
    BY <2>2 DEF FInv, Written
<1>8. Window(Descs, Consumer, Producer)' = g /\ Window(Descs, Consumer, Producer) = f
  BY <1>1
<1> HIDE DEF f, g, w, x
<1>9. Len(g) > Len(f) /\ Len(g) <= Size
  BY <1>3, <1>4, <1>5, <1>6
<1>10. SubSeq(g, 1, Len(f)) = f
  <2> DEFINE h == SubSeq(g, 1, Len(f))
  <2>1. h \in Seq(Value \cup {NoDesc}) /\ Len(h) = w /\ \A i \in 1 .. w : h[i] = g[i]
    BY <1>3, <1>5, <1>6
  <2>2. \A i \in 1 .. w : g[i] = f[i]
    BY <1>3, <1>5, <1>6
  <2> HIDE DEF h
  <2>3. h = f
    BY <1>5, <2>1, <2>2
  <2> QED
    BY <2>3 DEF h
<1>11. \A i \in 1 .. Len(g) : g[i] \in Value
  BY <1>6, <1>7
<1> QED
  BY <1>1, <1>8, <1>9, <1>10, <1>11 DEF Fifo!Put

(* A call takes a prefix of the queue: the descriptors it copied, oldest   *)
(* first (xdp.go:432-438,638-644).                                         *)
LEMMA FifoStoreConsumer ==
  ASSUME FInv, StoreConsumer
  PROVE  Fifo!Take
<1>1. /\ busy /\ left = 0 /\ Consumer' = cons /\ taken' = descs
      /\ UNCHANGED <<Producer, Descs>>
  BY DEF StoreConsumer
<1>2. /\ Producer \in Counter /\ Consumer \in Counter /\ cons \in Counter
      /\ Descs \in [SlotIndex -> Value \cup {NoDesc}] /\ descs \in Seq(Value \cup {NoDesc})
  BY DEF FInv, IInv, TypeOK
<1> DEFINE f == Window(Descs, Consumer, Producer)
           g == Window(Descs, cons, Producer)
           d == Distance(cons, Consumer)
           w == Distance(Producer, Consumer)
<1>3. w \in Nat /\ d \in Nat /\ w <= Size
  BY <1>2, DistanceType, OrderFacts DEF FInv
<1>4. d <= w
  <2>1. d + 0 <= w
    BY <1>1 DEF FInv, IInv, CallFits
  <2> HIDE DEF d, w
  <2> QED
    BY <1>3, <2>1
<1>5. Distance(Producer, cons) = w - d
  BY <1>2, <1>4, DistanceBetween
<1>6. /\ f \in Seq(Value \cup {NoDesc}) /\ Len(f) = w
      /\ \A i \in 1 .. w : f[i] = Descs[Slot(At(Consumer, i - 1))]
  BY <1>2, DescsWindow
<1>7. /\ g \in Seq(Value \cup {NoDesc}) /\ Len(g) = w - d
      /\ \A i \in 1 .. w - d : g[i] = Descs[Slot(At(cons, i - 1))]
  BY <1>2, <1>5, DescsWindow
<1>8. Len(descs) = d /\ \A i \in 1 .. d : descs[i] = Descs[Slot(At(Consumer, i - 1))]
  BY <1>1 DEF FInv, Copied
<1>9. At(Consumer, d) = cons
  BY <1>2, AtArrives
<1>10. Window(Descs, Consumer, Producer)' = g /\ Window(Descs, Consumer, Producer) = f
  BY <1>1
<1> HIDE DEF f, g, d, w
<1>11. ASSUME NEW i \in 1 .. w - d
       PROVE  g[i] = f[d + i]
  <2>1. d + i \in 1 .. w /\ i - 1 \in Nat /\ (d + i) - 1 = d + (i - 1) /\ d + (i - 1) < Modulus
    BY <1>3, <1>4, SizeFacts
  <2>2. At(At(Consumer, d), i - 1) = At(Consumer, d + (i - 1))
    BY <1>2, <1>3, <2>1, AtAt
  <2>3. At(cons, i - 1) = At(Consumer, (d + i) - 1)
    BY <1>9, <2>1, <2>2, Zenon
  <2>4. f[d + i] = Descs[Slot(At(Consumer, (d + i) - 1))]
    BY <1>6, <2>1
  <2> QED
    BY <1>7, <2>3, <2>4
<1>12. f = descs \o g
  <2> DEFINE h == descs \o g
  <2>1. h \in Seq(Value \cup {NoDesc}) /\ Len(h) = d + (w - d)
    <3>1. h \in Seq(Value \cup {NoDesc}) /\ Len(h) = Len(descs) + Len(g)
      BY <1>2, <1>7
    <3> QED
      BY <1>7, <1>8, <3>1, Zenon
  <2>2. d + (w - d) = w
    BY <1>3
  <2>3. ASSUME NEW i \in 1 .. w
        PROVE  h[i] = f[i]
    <3>1. CASE i <= d
      <4>1. i \in 1 .. d /\ h[i] = descs[i]
        BY <1>2, <1>3, <1>7, <1>8, <3>1
      <4> QED
        BY <1>6, <1>8, <4>1
    <3>2. CASE ~(i <= d)
      <4>1. i - d \in 1 .. w - d /\ d + (i - d) = i
        BY <1>3, <1>4, <3>2
      <4>2. h[i] = g[i - d]
        BY <1>2, <1>3, <1>4, <1>7, <1>8, <2>2, <3>2
      <4>3. g[i - d] = f[d + (i - d)]
        BY <1>11, <4>1
      <4> QED
        BY <4>1, <4>2, <4>3
    <3> QED
      BY <3>1, <3>2
  <2> HIDE DEF h
  <2>4. h = f
    BY <1>6, <2>1, <2>2, <2>3
  <2> QED
    BY <2>4 DEF h
<1>13. Len(descs) <= Len(f)
  BY <1>4, <1>6, <1>8
<1> QED
  BY <1>1, <1>10, <1>12, <1>13 DEF Fifo!Take

(* The ring starts as the empty queue. *)
LEMMA FifoInit == Init => Fifo!Init
<1> SUFFICES ASSUME Init PROVE Fifo!Init
  OBVIOUS
<1> DEFINE f == Window(Descs, Consumer, Producer)
<1>1. f \in Seq(Value \cup {NoDesc}) /\ Len(f) = Distance(Producer, Consumer)
  BY InitIInv, DescsWindow DEF IInv, TypeOK
<1>2. Distance(Producer, Consumer) = 0
  BY InitIInv, DistanceType DEF Init, IInv, TypeOK
<1> HIDE DEF f
<1>3. f = << >>
  BY <1>1, <1>2
<1> QED
  BY <1>3 DEF Init, Fifo!Init, f

(* Every step is one of the queue, or nothing to it. *)
LEMMA FifoNext ==
  ASSUME FInv, FInv', [Next]_vars
  PROVE  [Fifo!Put \/ Fifo!Take]_(Fifo!vars)
<1>1. ASSUME Count \/ CopyDesc \/ KernelRefresh \/ UNCHANGED vars
      PROVE  UNCHANGED Fifo!vars
  <2>1. UNCHANGED <<Producer, Consumer, Descs, taken>>
    BY <1>1 DEF Count, CopyDesc, KernelRefresh, vars, sharedVars
  <2> QED
    BY <2>1, FifoStutters
<1>2. ASSUME NEW n, Begin(n)
      PROVE  UNCHANGED Fifo!vars
  <2>1. UNCHANGED <<Producer, Consumer, Descs, taken>>
    BY <1>2 DEF Begin, sharedVars
  <2> QED
    BY <2>1, FifoStutters
<1>3. ASSUME NEW num, Receive(num)
      PROVE  UNCHANGED Fifo!vars
  BY <1>2, <1>3 DEF Receive
<1>4. ASSUME Complete(counted)
      PROVE  UNCHANGED Fifo!vars
  BY <1>2, <1>4 DEF Complete
<1> QED
  BY <1>1, <1>3, <1>4, FifoKernelWrite, FifoKernelSubmit, FifoStoreConsumer DEF Next, KernelNext

(* For rings of any size and counters of any width, the Rx and Completion  *)
(* rings are bounded queues between the kernel and Receive, Complete and   *)
(* Poll (xdp.go:421-443,631-647): no descriptor is lost, taken twice, out  *)
(* of order or overwritten while it is copied.                             *)
THEOREM ImplementsFifoAlways == Spec => ImplementsFifo
<1>1. Init => FInv /\ Fifo!Init
  BY InitFInv, FifoInit
<1>2. FInv /\ [Next]_vars => FInv'
  BY NextFInv
<1>3. FInv /\ FInv' /\ [Next]_vars => [Fifo!Put \/ Fifo!Take]_(Fifo!vars)
  BY FifoNext
<1> QED
  BY <1>1, <1>2, <1>3, PTL DEF Spec, ImplementsFifo, Fifo!Spec
=============================================================================
