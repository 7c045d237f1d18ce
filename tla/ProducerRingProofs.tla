------------------------ MODULE ProducerRingProofs ------------------------
(***************************************************************************)
(* What ProducerRing keeps, for rings of any size, counters of any width   *)
(* that holds two rings, and a store buffer of any length: the counters    *)
(* wrap any number of times, and the kernel sees every store late.         *)
(***************************************************************************)
EXTENDS ProducerRing, RingArithProofs, SequenceTheorems

StoreRecord == [loc : 0 .. Size, val : Value \cup Counter]

(* Where the stores to a location are in a sequence of stores. *)
Mine(q, loc) == {i \in 1 .. Len(q) : q[i].loc = loc}

Newest(q, loc, i) == i \in Mine(q, loc) /\ \A j \in Mine(q, loc) : j <= i

HasNewest(q, loc) == Mine(q, loc) = {} \/ \E i \in 1 .. Len(q) : Newest(q, loc, i)

(* What is read at a location through these stores. *)
LastVal(q, loc, mem) ==
  IF Mine(q, loc) = {} THEN mem
  ELSE q[CHOOSE i \in Mine(q, loc) : \A j \in Mine(q, loc) : j <= i].val

(* The sequence without its i-th store, as Drain leaves it. *)
Without(q, i) == SubSeq(q, 1, i - 1) \o SubSeq(q, i + 1, Len(q))

Passed(i, j) == IF j < i THEN j ELSE j + 1
-----------------------------------------------------------------------------
(* The Go program reads its newest store of a location, or memory where it *)
(* has none pending (xdp.go:407,653).                                      *)
LEMMA LastValFacts ==
  ASSUME NEW q \in Seq(StoreRecord), NEW loc, NEW mem
  PROVE  /\ Mine(q, loc) = {} => LastVal(q, loc, mem) = mem
         /\ \A i \in 1 .. Len(q) : Newest(q, loc, i) => LastVal(q, loc, mem) = q[i].val
<1>1. Mine(q, loc) = {} => LastVal(q, loc, mem) = mem
  BY Zenon DEF LastVal
<1>2. ASSUME NEW i \in 1 .. Len(q), Newest(q, loc, i)
      PROVE  LastVal(q, loc, mem) = q[i].val
  <2> DEFINE k == CHOOSE m \in Mine(q, loc) : \A j \in Mine(q, loc) : j <= m
  <2>1. i \in Mine(q, loc) /\ \A j \in Mine(q, loc) : j <= i
    BY <1>2, Zenon DEF Newest
  <2>2. k \in Mine(q, loc) /\ \A j \in Mine(q, loc) : j <= k
    BY <2>1, Zenon
  <2>3. \A j \in Mine(q, loc) : j \in Int
    BY DEF Mine
  <2> HIDE DEF k
  <2>4. k = i
    BY <2>1, <2>2, <2>3
  <2>5. LastVal(q, loc, mem) = q[k].val
    BY <2>1, Zenon DEF LastVal, k
  <2> QED
    BY <2>4, <2>5, Zenon
<1> QED
  BY <1>1, <1>2, Zenon

(* A store just issued is the newest of its location (xdp.go:409,414). *)
LEMMA AppendSame ==
  ASSUME NEW q \in Seq(StoreRecord), NEW e \in StoreRecord, NEW mem
  PROVE  /\ HasNewest(Append(q, e), e.loc)
         /\ LastVal(Append(q, e), e.loc, mem) = e.val
<1> DEFINE r == Append(q, e)
           n == Len(q) + 1
<1>1. r \in Seq(StoreRecord) /\ Len(r) = n /\ n \in Nat /\ n \in 1 .. n /\ r[n] = e
  OBVIOUS
<1> HIDE DEF r, n
<1>2. Mine(r, e.loc) \subseteq 1 .. n /\ n \in Mine(r, e.loc)
  BY <1>1 DEF Mine
<1>3. Newest(r, e.loc, n)
  BY <1>1, <1>2 DEF Newest
<1>4. LastVal(r, e.loc, mem) = r[n].val
  BY <1>1, <1>3, LastValFacts
<1>5. HasNewest(r, e.loc)
  BY <1>1, <1>3 DEF HasNewest
<1> QED
  BY <1>1, <1>4, <1>5 DEF r

(* A store just issued changes nothing for the other locations. *)
LEMMA AppendOther ==
  ASSUME NEW q \in Seq(StoreRecord), NEW e \in StoreRecord, NEW loc, NEW mem,
         e.loc # loc, HasNewest(q, loc)
  PROVE  /\ HasNewest(Append(q, e), loc)
         /\ LastVal(Append(q, e), loc, mem) = LastVal(q, loc, mem)
         /\ Mine(Append(q, e), loc) = Mine(q, loc)
<1> DEFINE r == Append(q, e)
           n == Len(q)
<1>1. /\ r \in Seq(StoreRecord) /\ Len(r) = n + 1 /\ n \in Nat /\ r[n + 1] = e
      /\ \A i \in 1 .. n : r[i] = q[i]
  OBVIOUS
<1>2. 1 .. (n + 1) = (1 .. n) \cup {n + 1}
  BY <1>1
<1> HIDE DEF r
<1>3. Mine(r, loc) = Mine(q, loc)
  BY <1>1, <1>2 DEF Mine
<1>4. CASE Mine(q, loc) = {}
  <2>1. HasNewest(r, loc)
    BY <1>3, <1>4, Zenon DEF HasNewest
  <2>2. LastVal(q, loc, mem) = mem /\ LastVal(r, loc, mem) = mem
    BY <1>1, <1>3, <1>4, LastValFacts
  <2> QED
    BY <1>3, <2>1, <2>2 DEF r
<1>5. CASE \E i \in 1 .. n : Newest(q, loc, i)
  <2>1. PICK i \in 1 .. n : Newest(q, loc, i)
    BY <1>5
  <2>2. Newest(r, loc, i)
    BY <1>3, <2>1, Zenon DEF Newest
  <2>3. i \in 1 .. Len(r) /\ r[i] = q[i]
    BY <1>1
  <2>4. HasNewest(r, loc)
    BY <2>2, <2>3, Zenon DEF HasNewest
  <2>5. LastVal(q, loc, mem) = q[i].val
    BY <2>1, LastValFacts
  <2>6. LastVal(r, loc, mem) = r[i].val
    BY <1>1, <2>2, <2>3, LastValFacts
  <2> QED
    BY <1>3, <2>3, <2>4, <2>5, <2>6 DEF r
<1> QED
  BY <1>4, <1>5, Zenon DEF HasNewest

(* Taking out the i-th store moves the later ones up by one. *)
LEMMA WithoutFacts ==
  ASSUME NEW q \in Seq(StoreRecord), NEW i \in 1 .. Len(q)
  PROVE  /\ Without(q, i) \in Seq(StoreRecord)
         /\ Len(Without(q, i)) = Len(q) - 1
         /\ \A j \in 1 .. Len(q) - 1 :
              Passed(i, j) \in 1 .. Len(q) /\ Without(q, i)[j] = q[Passed(i, j)]
<1> DEFINE a == SubSeq(q, 1, i - 1)
           b == SubSeq(q, i + 1, Len(q))
<1>1. /\ a \in Seq(StoreRecord) /\ Len(a) = i - 1
      /\ \A j \in 1 .. i - 1 : a[j] = q[j]
  OBVIOUS
<1>2. /\ b \in Seq(StoreRecord) /\ Len(b) = Len(q) - i
      /\ \A j \in 1 .. Len(q) - i : b[j] = q[i + j]
  OBVIOUS
<1> HIDE DEF a, b
<1>3. /\ a \o b \in Seq(StoreRecord) /\ Len(a \o b) = Len(q) - 1
      /\ \A j \in 1 .. Len(q) - 1 : (a \o b)[j] = IF j <= i - 1 THEN a[j] ELSE b[j - (i - 1)]
  <2>1. /\ a \o b \in Seq(StoreRecord) /\ Len(a \o b) = Len(a) + Len(b)
        /\ \A j \in 1 .. Len(a) + Len(b) :
             (a \o b)[j] = IF j <= Len(a) THEN a[j] ELSE b[j - Len(a)]
    <3>1. a \in Seq(StoreRecord) /\ b \in Seq(StoreRecord)
      BY <1>1, <1>2
    <3> QED
      BY <3>1, ConcatProperties, Zenon
  <2>2. Len(a) + Len(b) = Len(q) - 1
    BY <1>1, <1>2
  <2> QED
    BY <1>1, <2>1, <2>2
<1>4. ASSUME NEW j \in 1 .. Len(q) - 1
      PROVE  Passed(i, j) \in 1 .. Len(q) /\ (a \o b)[j] = q[Passed(i, j)]
  <2>1. CASE j < i
    BY <1>1, <1>3, <2>1 DEF Passed
  <2>2. CASE ~(j < i)
    <3>1. j - (i - 1) \in 1 .. Len(q) - i /\ i + (j - (i - 1)) = j + 1 /\ ~(j <= i - 1)
      BY <2>2
    <3>2. b[j - (i - 1)] = q[j + 1]
      BY <1>2, <3>1
    <3>3. (a \o b)[j] = b[j - (i - 1)]
      BY <1>3, <3>1
    <3> QED
      BY <2>2, <3>2, <3>3 DEF Passed
  <2> QED
    BY <2>1, <2>2
<1> QED
  BY <1>3, <1>4 DEF Without, a, b

(* A location keeps its newest store while an other one is taken out. *)
LEMMA WithoutNewest ==
  ASSUME NEW q \in Seq(StoreRecord), NEW i \in 1 .. Len(q), NEW loc, NEW mem,
         NEW k \in 1 .. Len(q), k # i, Newest(q, loc, k)
  PROVE  /\ HasNewest(Without(q, i), loc)
         /\ LastVal(Without(q, i), loc, mem) = q[k].val
<1> DEFINE r == Without(q, i)
           h == IF k < i THEN k ELSE k - 1
<1>1. /\ r \in Seq(StoreRecord) /\ Len(r) = Len(q) - 1 /\ Len(q) \in Nat
      /\ \A j \in 1 .. Len(r) : Passed(i, j) \in 1 .. Len(q) /\ r[j] = q[Passed(i, j)]
  BY WithoutFacts
<1>2. h \in 1 .. Len(r) /\ Passed(i, h) = k
  BY <1>1 DEF Passed
<1>3. r[h] = q[k]
  BY <1>1, <1>2
<1>4. q[k].loc = loc /\ \A j \in 1 .. Len(q) : q[j].loc = loc => j <= k
  BY DEF Newest, Mine
<1>5. ASSUME NEW j \in 1 .. Len(r), r[j].loc = loc
      PROVE  j <= h
  <2>1. Passed(i, j) \in 1 .. Len(q) /\ q[Passed(i, j)].loc = loc
    BY <1>1, <1>5
  <2>2. Passed(i, j) <= k
    BY <1>4, <2>1
  <2> QED
    BY <1>1, <2>2 DEF Passed
<1> HIDE DEF r, h
<1>6. Newest(r, loc, h)
  BY <1>2, <1>3, <1>4, <1>5 DEF Newest, Mine
<1>7. LastVal(r, loc, mem) = q[k].val
  BY <1>1, <1>2, <1>3, <1>6, LastValFacts
<1>8. HasNewest(r, loc)
  BY <1>2, <1>6, Zenon DEF HasNewest
<1> QED
  BY <1>7, <1>8 DEF r

(* Without the only store to a location there is none. *)
LEMMA WithoutLast ==
  ASSUME NEW q \in Seq(StoreRecord), NEW i \in 1 .. Len(q), NEW loc, NEW mem,
         \A j \in 1 .. Len(q) : q[j].loc = loc => j = i
  PROVE  HasNewest(Without(q, i), loc) /\ LastVal(Without(q, i), loc, mem) = mem
<1> DEFINE r == Without(q, i)
<1>1. /\ r \in Seq(StoreRecord) /\ Len(r) = Len(q) - 1 /\ Len(q) \in Nat
      /\ \A j \in 1 .. Len(r) : Passed(i, j) \in 1 .. Len(q) /\ r[j] = q[Passed(i, j)]
  BY WithoutFacts
<1>2. ASSUME NEW j \in 1 .. Len(r)
      PROVE  r[j].loc # loc
  <2>1. Passed(i, j) # i
    BY <1>1 DEF Passed
  <2> QED
    BY <1>1, <2>1
<1> HIDE DEF r
<1>3. Mine(r, loc) = {}
  BY <1>2 DEF Mine
<1>4. LastVal(r, loc, mem) = mem
  BY <1>1, <1>3, LastValFacts
<1> QED
  BY <1>3, <1>4, Zenon DEF HasNewest, r

(* The other locations read the same while a store is made visible. *)
LEMMA WithoutOther ==
  ASSUME NEW q \in Seq(StoreRecord), NEW i \in 1 .. Len(q), NEW loc, NEW mem,
         q[i].loc # loc, HasNewest(q, loc)
  PROVE  /\ HasNewest(Without(q, i), loc)
         /\ LastVal(Without(q, i), loc, mem) = LastVal(q, loc, mem)
<1>1. CASE Mine(q, loc) = {}
  <2>1. \A j \in 1 .. Len(q) : q[j].loc = loc => j = i
    BY <1>1, Zenon DEF Mine
  <2>2. LastVal(q, loc, mem) = mem
    BY <1>1, LastValFacts
  <2> QED
    BY <2>1, <2>2, WithoutLast
<1>2. CASE \E k \in 1 .. Len(q) : Newest(q, loc, k)
  <2>1. PICK k \in 1 .. Len(q) : Newest(q, loc, k)
    BY <1>2
  <2>2. k # i
    BY <2>1, Zenon DEF Newest, Mine
  <2>3. LastVal(q, loc, mem) = q[k].val
    BY <2>1, LastValFacts
  <2> QED
    BY <2>1, <2>2, <2>3, WithoutNewest
<1> QED
  BY <1>1, <1>2, Zenon DEF HasNewest

(* Neither does the location of that store: what memory now holds is what  *)
(* was read before.                                                        *)
LEMMA WithoutSame ==
  ASSUME NEW q \in Seq(StoreRecord), NEW i \in 1 .. Len(q), NEW loc, NEW v, NEW mem,
         q[i].loc = loc, q[i].val = v,
         \A j \in 1 .. i - 1 : q[j].loc # loc,
         HasNewest(q, loc)
  PROVE  /\ HasNewest(Without(q, i), loc)
         /\ LastVal(Without(q, i), loc, v) = LastVal(q, loc, mem)
<1>1. Mine(q, loc) # {}
  BY Zenon DEF Mine
<1>2. PICK k \in 1 .. Len(q) : Newest(q, loc, k)
  BY <1>1, Zenon DEF HasNewest
<1>3. LastVal(q, loc, mem) = q[k].val
  BY <1>2, LastValFacts
<1>4. CASE k = i
  <2>1. \A j \in 1 .. Len(q) : q[j].loc = loc => j <= i
    BY <1>2, <1>4 DEF Newest, Mine
  <2>2. \A j \in 1 .. Len(q) : q[j].loc = loc => j = i
    BY <2>1
  <2> QED
    BY <1>3, <1>4, <2>2, WithoutLast
<1>5. CASE k # i
  <2>1. HasNewest(Without(q, i), loc) /\ LastVal(Without(q, i), loc, v) = q[k].val
    BY <1>2, <1>5, WithoutNewest
  <2> QED
    BY <1>3, <2>1, Zenon
<1> QED
  BY <1>4, <1>5
-----------------------------------------------------------------------------
(* How far a counter is ahead of the last one the kernel handed back. *)
Ahead(c) == Distance(c, Consumer)

PendingProducer == Mine(stores, ProducerLoc)

(* A slot is stored a descriptor, the Producer counter a counter, and each *)
(* location has a newest store when it has any.                            *)
StoresKept ==
  /\ \A i \in 1 .. Len(stores) :
       stores[i].val \in IF stores[i].loc = ProducerLoc THEN Counter ELSE Value
  /\ \A loc \in 0 .. Size : HasNewest(stores, loc)

(* The order of the counters around the circle. *)
CounterOrder ==
  /\ Ahead(cachedCons) <= Ahead(cachedProd)
  /\ Ahead(cachedProd) <= Ahead(Producer)
  /\ Ahead(Producer) <= Ahead(prod)

(* The values on their way to Producer are between it and prod, each no    *)
(* further than the next.                                                  *)
PendingOrder ==
  /\ \A i \in PendingProducer :
       Ahead(Producer) <= Ahead(stores[i].val) /\ Ahead(stores[i].val) <= Ahead(prod)
  /\ \A i, j \in PendingProducer : i <= j => Ahead(stores[i].val) <= Ahead(stores[j].val)

(* What a call still has to write fits the ring, and between two calls     *)
(* Producer reads back as the last of them left prod.                      *)
CallFits ==
  /\ Ahead(prod) + Len(todo) <= Size
  /\ ~busy => prod = ProducerSeen /\ todo = << >>

IInv == TypeOK /\ StoresKept /\ CounterOrder /\ PendingOrder /\ CallFits

(* Every slot from the kernel's position up to prod was written. *)
Written ==
  \A c \in Counter :
    Ahead(cachedCons) <= Ahead(c) /\ Ahead(c) < Ahead(prod) => SeenSlots[Slot(c)] \in Value

(* With stores in order, a slot store that is pending is for a counter     *)
(* that neither Producer nor an older pending value of it has passed.      *)
StoredFor(i, c) ==
  /\ stores[i].loc = Slot(c)
  /\ Ahead(Producer) <= Ahead(c) /\ Ahead(c) < Ahead(prod)
  /\ \A j \in PendingProducer : j < i => Ahead(stores[j].val) <= Ahead(c)

SlotsAhead ==
  \A i \in 1 .. Len(stores) :
    stores[i].loc # ProducerLoc => \E c \in Counter : StoredFor(i, c)

FInv == IInv /\ Written /\ SlotsAhead
-----------------------------------------------------------------------------
(* The types under the names used here. *)
LEMMA TypeFacts ==
  ASSUME TypeOK
  PROVE  /\ Producer \in Counter /\ Consumer \in Counter /\ prod \in Counter
         /\ cachedProd \in Counter /\ cachedCons \in Counter
         /\ Descs \in [SlotIndex -> Value \cup {NoDesc}]
         /\ stores \in Seq(StoreRecord) /\ todo \in Seq(Value) /\ busy \in BOOLEAN
         /\ taken \in Seq(Value \cup {NoDesc})
BY DEF TypeOK, StoreRecord

(* Reading back depends on the pending stores and on memory alone. *)
LEMMA SeenIs ==
  /\ ProducerSeen = LastVal(stores, ProducerLoc, Producer)
  /\ ProducerSeen' = LastVal(stores', ProducerLoc, Producer')
  /\ SeenSlots = [s \in SlotIndex |-> LastVal(stores, s, Descs[s])]
  /\ SeenSlots' = [s \in SlotIndex |-> LastVal(stores', s, Descs'[s])]
BY Zenon DEF ProducerSeen, SeenSlots, ReadBack, LastVal, Mine

(* The store to Producer that is read back is one of those pending, or the *)
(* one that memory has.                                                    *)
LEMMA SeenOrder ==
  ASSUME IInv
  PROVE  /\ ProducerSeen \in Counter
         /\ Ahead(Producer) <= Ahead(ProducerSeen) /\ Ahead(ProducerSeen) <= Ahead(prod)
<1>1. stores \in Seq(StoreRecord) /\ Producer \in Counter /\ Consumer \in Counter
  BY TypeFacts DEF IInv
<1>2. HasNewest(stores, ProducerLoc)
  BY SizeFacts DEF IInv, StoresKept, ProducerLoc
<1>3. CASE Mine(stores, ProducerLoc) = {}
  <2>1. ProducerSeen = Producer
    BY <1>1, <1>3, SeenIs, LastValFacts
  <2>2. Ahead(Producer) <= Ahead(prod)
    BY DEF IInv, CounterOrder
  <2>3. Ahead(Producer) \in Nat
    BY <1>1, DistanceType DEF Ahead
  <2> QED
    BY <1>1, <2>1, <2>2, <2>3
<1>4. CASE \E i \in 1 .. Len(stores) : Newest(stores, ProducerLoc, i)
  <2>1. PICK i \in 1 .. Len(stores) : Newest(stores, ProducerLoc, i)
    BY <1>4
  <2>2. ProducerSeen = stores[i].val
    BY <1>1, <2>1, SeenIs, LastValFacts
  <2>3. i \in PendingProducer /\ stores[i].loc = ProducerLoc
    BY <2>1, Zenon DEF Newest, PendingProducer, Mine
  <2>4. stores[i].val \in Counter
    BY <2>3 DEF IInv, StoresKept
  <2> QED
    BY <2>2, <2>3, <2>4, Zenon DEF IInv, PendingOrder
<1> QED
  BY <1>2, <1>3, <1>4, Zenon DEF HasNewest

(* The subtraction of NumFreeFillSlots and NumFreeTxSlots does not wrap    *)
(* (xdp.go:657,673).                                                       *)
LEMMA FreeSlotsValue ==
  ASSUME NEW p \in Counter, NEW c \in Counter, Distance(p, c) <= Size
  PROVE  NumFreeSlots(p, c) = Size - Distance(p, c)
<1> DEFINE d == Distance(p, c)
<1>1. d \in Nat /\ d <= Size
  BY DistanceType
<1>2. \A x \in Nat, m \in Nat : x < m => x % m = x
  OBVIOUS
<1> HIDE DEF d
<1>3. Size - d \in Nat /\ Size - d < Modulus /\ Size - d <= Size
  BY <1>1, SizeFacts
<1>4. (Size - d) % Modulus = Size - d
  BY <1>2, <1>3, SizeFacts
<1>5. ~(Size - d > Size)
  BY <1>1, SizeFacts
<1> QED
  BY <1>4, <1>5, Zenon DEF NumFreeSlots, d

(* Cutting a batch to the slots counted (xdp.go:402). *)
LEMMA TruncateFacts ==
  ASSUME NEW descs \in Batch, NEW n \in Nat
  PROVE  Truncate(descs, n) \in Seq(Value) /\ Len(Truncate(descs, n)) <= n
<1>1. descs \in Seq(Value)
  BY SizeFacts DEF Batch
<1> DEFINE m == IF n < Len(descs) THEN n ELSE Len(descs)
<1>2. m \in Nat /\ m <= n /\ m <= Len(descs)
  BY <1>1
<1> HIDE DEF m
<1>3. SubSeq(descs, 1, m) \in Seq(Value) /\ Len(SubSeq(descs, 1, m)) = m
  BY <1>1, <1>2
<1> QED
  BY <1>2, <1>3 DEF Truncate, m

(* Counters that are equally far ahead are equal. *)
LEMMA AheadInjective ==
  ASSUME NEW a \in Counter, NEW b \in Counter, NEW c \in Counter,
         Distance(a, c) = Distance(b, c)
  PROVE  a = b
<1>1. At(c, Distance(a, c)) = a /\ At(c, Distance(b, c)) = b
  BY AtArrives
<1> QED
  BY <1>1, Zenon

LEMMA InitIInv == Init => IInv
<1> SUFFICES ASSUME Init PROVE IInv
  OBVIOUS
<1>1. 0 \in Counter /\ Distance(0, 0) = 0
  <2>1. 0 \in Counter
    BY SizeFacts DEF Counter
  <2> QED
    BY <2>1, DistanceType
<1>2. TypeOK
  <2>1. Descs \in [SlotIndex -> Value \cup {NoDesc}]
    BY DEF Init
  <2>2. stores \in Seq([loc : 0 .. Size, val : Value \cup Counter])
    BY DEF Init
  <2>3. busy \in BOOLEAN
    BY Zenon DEF Init
  <2>4. todo \in Seq(Value) /\ taken \in Seq(Value \cup {NoDesc})
    BY DEF Init
  <2> QED
    BY <1>1, <2>1, <2>2, <2>3, <2>4, Zenon DEF Init, TypeOK
<1>3. \A loc : Mine(stores, loc) = {}
  BY DEF Init, Mine
<1>4. StoresKept
  <2>1. \A loc \in 0 .. Size : HasNewest(stores, loc)
    BY <1>3 DEF HasNewest
  <2>2. 1 .. Len(stores) = {}
    BY DEF Init
  <2> QED
    BY <2>1, <2>2, Zenon DEF StoresKept
<1>5. CounterOrder
  BY <1>1 DEF Init, CounterOrder, Ahead
<1>6. PendingOrder
  BY <1>3, Zenon DEF PendingOrder, PendingProducer
<1>7. CallFits
  <2>1. ProducerSeen = prod
    BY <1>2, <1>3, SeenIs, LastValFacts, TypeFacts DEF Init
  <2> QED
    BY <1>1, <2>1, SizeFacts DEF Init, CallFits, Ahead
<1> QED
  BY <1>2, <1>4, <1>5, <1>6, <1>7 DEF IInv

(* The distances are natural numbers. *)
LEMMA AheadFacts ==
  ASSUME IInv
  PROVE  /\ Ahead(cachedCons) \in Nat /\ Ahead(cachedProd) \in Nat
         /\ Ahead(Producer) \in Nat /\ Ahead(prod) \in Nat
         /\ Ahead(cachedCons) <= Ahead(cachedProd) /\ Ahead(cachedProd) <= Ahead(Producer)
         /\ Ahead(Producer) <= Ahead(prod) /\ Ahead(prod) <= Size
<1>1. /\ Ahead(cachedCons) \in Nat /\ Ahead(cachedProd) \in Nat
      /\ Ahead(Producer) \in Nat /\ Ahead(prod) \in Nat
  BY TypeFacts, DistanceType DEF IInv, Ahead
<1>2. Ahead(prod) + Len(todo) <= Size /\ Len(todo) \in Nat
  BY TypeFacts DEF IInv, CallFits
<1>3. CounterOrder
  BY DEF IInv
<1> QED
  BY <1>1, <1>2, <1>3, SizeFacts DEF CounterOrder

(* A pending store to Producer. *)
LEMMA PendingFacts ==
  ASSUME IInv, NEW i \in PendingProducer
  PROVE  /\ i \in 1 .. Len(stores) /\ stores[i].loc = ProducerLoc
         /\ stores[i].val \in Counter /\ Ahead(stores[i].val) \in Nat
         /\ Ahead(Producer) <= Ahead(stores[i].val)
         /\ Ahead(stores[i].val) <= Ahead(prod)
<1>1. i \in 1 .. Len(stores) /\ stores[i].loc = ProducerLoc
  BY DEF PendingProducer, Mine
<1>2. stores[i].val \in Counter
  BY <1>1 DEF IInv, StoresKept
<1>3. Ahead(stores[i].val) \in Nat
  BY <1>2, TypeFacts, DistanceType DEF IInv, Ahead
<1>4. Ahead(Producer) <= Ahead(stores[i].val) /\ Ahead(stores[i].val) <= Ahead(prod)
  BY DEF IInv, PendingOrder
<1> QED
  BY <1>1, <1>2, <1>3, <1>4

(* A call starts where the last one left prod, and takes no more than the  *)
(* slots that are free whatever the kernel does meanwhile (xdp.go:402-407).*)
LEMMA SubmitIInv ==
  ASSUME IInv, NEW descs \in Batch, Submit(descs)
  PROVE  IInv'
<1>1. /\ ~busy /\ busy' = TRUE /\ prod' = ProducerSeen
      /\ todo' = Truncate(descs, NumFreeSlots(ProducerSeen, Consumer))
      /\ UNCHANGED <<Producer, Consumer, Descs, stores, cachedProd, cachedCons, taken>>
  BY DEF Submit, kernelVars
<1>2. prod = ProducerSeen /\ Ahead(prod) + Len(todo) <= Size
  BY <1>1 DEF IInv, CallFits
<1>3. prod \in Counter /\ Consumer \in Counter /\ todo \in Seq(Value)
  BY TypeFacts DEF IInv
<1> DEFINE d == Distance(prod, Consumer)
<1>4. d \in Nat /\ Len(todo) \in Nat /\ d + Len(todo) <= Size
  BY <1>2, <1>3, DistanceType DEF Ahead
<1>5. NumFreeSlots(ProducerSeen, Consumer) = Size - d
  <2>1. d <= Size
    <3> HIDE DEF d
    <3> QED
      BY <1>4, SizeFacts
  <2> QED
    BY <1>2, <1>3, <2>1, FreeSlotsValue
<1> HIDE DEF d
<1>6. Size - d \in Nat
  BY <1>4, SizeFacts
<1>7. todo' \in Seq(Value) /\ Len(todo') <= Size - d
  BY <1>1, <1>5, <1>6, TruncateFacts
<1>8. TypeOK'
  BY <1>1, <1>2, <1>3, <1>7 DEF IInv, TypeOK
<1>9. StoresKept'
  BY <1>1 DEF IInv, StoresKept
<1>10. CounterOrder' /\ PendingOrder'
  BY <1>1, <1>2 DEF IInv, CounterOrder, PendingOrder, PendingProducer, Ahead
<1>11. CallFits'
  <2>1. Ahead(prod)' = d
    BY <1>1, <1>2 DEF Ahead, d
  <2>2. d + Len(todo') <= Size
    BY <1>4, <1>7, SizeFacts
  <2> QED
    BY <1>1, <2>1, <2>2 DEF CallFits
<1> QED
  BY <1>8, <1>9, <1>10, <1>11 DEF IInv

(* Issuing a store of the right kind keeps the pending stores as they are. *)
LEMMA AppendKept ==
  ASSUME IInv, NEW e \in StoreRecord, stores' = Append(stores, e),
         e.val \in IF e.loc = ProducerLoc THEN Counter ELSE Value
  PROVE  /\ stores' \in Seq(StoreRecord) /\ StoresKept'
         /\ Len(stores') = Len(stores) + 1 /\ Len(stores) \in Nat
         /\ stores'[Len(stores) + 1] = e
         /\ \A i \in 1 .. Len(stores) : stores'[i] = stores[i]
<1>1. stores \in Seq(StoreRecord)
  BY TypeFacts DEF IInv
<1>2. /\ stores' \in Seq(StoreRecord)
      /\ Len(stores') = Len(stores) + 1 /\ Len(stores) \in Nat
      /\ stores'[Len(stores) + 1] = e
      /\ \A i \in 1 .. Len(stores) : stores'[i] = stores[i]
  BY <1>1
<1>3. ASSUME NEW i \in 1 .. Len(stores')
      PROVE  stores'[i].val \in IF stores'[i].loc = ProducerLoc THEN Counter ELSE Value
  <2>1. CASE i = Len(stores) + 1
    BY <1>2, <2>1, Zenon
  <2>2. CASE i \in 1 .. Len(stores)
    <3>1. stores[i].val \in IF stores[i].loc = ProducerLoc THEN Counter ELSE Value
      BY <2>2, Zenon DEF IInv, StoresKept
    <3> QED
      BY <1>2, <2>2, <3>1, Zenon
  <2> QED
    BY <1>2, <1>3, <2>1, <2>2
<1>4. ASSUME NEW loc \in 0 .. Size
      PROVE  HasNewest(stores', loc)
  <2>1. HasNewest(stores, loc)
    BY Zenon DEF IInv, StoresKept
  <2>2. CASE e.loc = loc
    BY <1>1, <2>2, AppendSame
  <2>3. CASE e.loc # loc
    BY <1>1, <2>1, <2>3, AppendOther
  <2> QED
    BY <2>2, <2>3
<1>5. StoresKept'
  BY <1>3, <1>4, Zenon DEF StoresKept, ProducerLoc
<1> QED
  BY <1>2, <1>5

(* A turn of the loop moves prod on by one, within the ring. *)
LEMMA StoreDescProd ==
  ASSUME IInv, StoreDesc
  PROVE  /\ Ahead(prod) \in Nat /\ Ahead(prod) < Size
         /\ Ahead(prod)' = Ahead(prod) + 1
<1>1. /\ prod \in Counter /\ Consumer \in Counter /\ todo \in Seq(Value) /\ todo # << >>
      /\ prod' = Succ(prod) /\ UNCHANGED Consumer
  BY TypeFacts DEF StoreDesc, IInv
<1>2. /\ Ahead(prod) \in Nat /\ Ahead(prod) + Len(todo) <= Size
      /\ Len(todo) \in Nat /\ Len(todo) > 0
  BY <1>1, AheadFacts DEF IInv, CallFits
<1>3. Ahead(prod) < Size /\ Ahead(prod) + 1 < Modulus
  BY <1>2, SizeFacts
<1>4. Distance(Succ(prod), Consumer) = Distance(prod, Consumer) + 1
  BY <1>1, <1>3, DistanceSucc DEF Ahead
<1> QED
  BY <1>1, <1>2, <1>3, <1>4 DEF Ahead

(* A turn of the loop moves prod over a slot that was free (xdp.go:409). *)
LEMMA StoreDescIInv ==
  ASSUME IInv, StoreDesc
  PROVE  IInv'
<1>1. /\ busy /\ todo # << >> /\ prod' = Succ(prod) /\ todo' = Tail(todo)
      /\ stores' = Append(stores, Store(Slot(prod), Head(todo)))
      /\ UNCHANGED <<Producer, Consumer, Descs, busy, cachedProd, cachedCons, taken>>
  BY DEF StoreDesc, kernelVars
<1>2. /\ prod \in Counter /\ Consumer \in Counter /\ todo \in Seq(Value)
      /\ stores \in Seq(StoreRecord)
  BY TypeFacts DEF IInv
<1>3. /\ Head(todo) \in Value /\ todo' \in Seq(Value) /\ Len(todo') = Len(todo) - 1
      /\ Len(todo) \in Nat /\ Len(todo) > 0
  BY <1>1, <1>2
<1>4. Ahead(prod) + Len(todo) <= Size
  BY DEF IInv, CallFits
<1> DEFINE e == Store(Slot(prod), Head(todo))
<1>5. Slot(prod) \in 0 .. Size /\ Slot(prod) # ProducerLoc
  BY <1>2, SlotType, SizeFacts DEF SlotIndex, ProducerLoc
<1>6. e \in StoreRecord /\ e.loc = Slot(prod) /\ e.val = Head(todo)
  BY <1>3, <1>5 DEF Store, StoreRecord
<1>7. e.loc # ProducerLoc /\ e.val \in IF e.loc = ProducerLoc THEN Counter ELSE Value
  BY <1>3, <1>5, <1>6
<1>8. stores' = Append(stores, e)
  BY <1>1
<1> HIDE DEF e
<1>9. /\ stores' \in Seq(StoreRecord) /\ StoresKept'
      /\ Len(stores) \in Nat /\ \A i \in 1 .. Len(stores) : stores'[i] = stores[i]
  BY <1>6, <1>7, <1>8, AppendKept
<1>10. Mine(stores', ProducerLoc) = Mine(stores, ProducerLoc)
  <2>1. HasNewest(stores, ProducerLoc)
    BY SizeFacts DEF IInv, StoresKept, ProducerLoc
  <2> QED
    BY <1>2, <1>6, <1>7, <1>8, <2>1, AppendOther
<1>11. Succ(prod) \in Counter
  BY <1>2, SuccValue
<1>12. Ahead(prod) \in Nat /\ Ahead(prod)' = Ahead(prod) + 1
  BY StoreDescProd
<1>13. TypeOK'
  BY <1>1, <1>3, <1>9, <1>11 DEF IInv, TypeOK, StoreRecord
<1>14. /\ Ahead(cachedCons)' = Ahead(cachedCons) /\ Ahead(cachedProd)' = Ahead(cachedProd)
       /\ Ahead(Producer)' = Ahead(Producer)
       /\ Ahead(cachedCons) \in Nat /\ Ahead(cachedProd) \in Nat /\ Ahead(Producer) \in Nat
  BY <1>1, TypeFacts, DistanceType DEF IInv, Ahead
<1>15. CounterOrder'
  <2>1. CounterOrder
    BY DEF IInv
  <2> QED
    BY <1>12, <1>14, <2>1 DEF CounterOrder
<1>16. PendingOrder'
  <2>1. ASSUME NEW i \in PendingProducer
        PROVE  /\ stores'[i].val = stores[i].val /\ stores[i].val \in Counter
               /\ Ahead(stores[i].val)' = Ahead(stores[i].val)
               /\ Ahead(stores[i].val) \in Nat
               /\ Ahead(Producer) <= Ahead(stores[i].val)
               /\ Ahead(stores[i].val) <= Ahead(prod)
    <3>1. /\ i \in 1 .. Len(stores)
          /\ stores[i].val \in Counter /\ Ahead(stores[i].val) \in Nat
          /\ Ahead(Producer) <= Ahead(stores[i].val) /\ Ahead(stores[i].val) <= Ahead(prod)
      BY PendingFacts
    <3>2. stores'[i].val = stores[i].val
      BY <1>9, <3>1
    <3>3. Ahead(stores[i].val)' = Ahead(stores[i].val)
      BY <1>1, <3>2 DEF Ahead
    <3> QED
      BY <3>1, <3>2, <3>3
  <2>2. PendingProducer' = PendingProducer
    BY <1>10 DEF PendingProducer, ProducerLoc
  <2>3. ASSUME NEW i \in PendingProducer
        PROVE  /\ Ahead(Producer)' <= Ahead(stores[i].val)'
               /\ Ahead(stores[i].val)' <= Ahead(prod)'
    <3>1. /\ Ahead(stores[i].val)' = Ahead(stores[i].val) /\ Ahead(stores[i].val) \in Nat
          /\ Ahead(Producer) <= Ahead(stores[i].val)
          /\ Ahead(stores[i].val) <= Ahead(prod)
      BY <2>1
    <3> QED
      BY <1>12, <1>14, <3>1
  <2>4. ASSUME NEW i \in PendingProducer, NEW j \in PendingProducer, i <= j
        PROVE  Ahead(stores[i].val)' <= Ahead(stores[j].val)'
    <3>1. Ahead(stores[i].val) <= Ahead(stores[j].val)
      BY <2>4 DEF IInv, PendingOrder
    <3> QED
      BY <2>1, <3>1
  <2> QED
    BY <2>2, <2>3, <2>4, Zenon DEF PendingOrder
<1>17. CallFits'
  BY <1>1, <1>3, <1>4, <1>12 DEF CallFits
<1> QED
  BY <1>9, <1>13, <1>15, <1>16, <1>17 DEF IInv

(* After the loop prod is on its way to Producer (xdp.go:414). *)
LEMMA StoreProducerIInv ==
  ASSUME IInv, StoreProducer
  PROVE  IInv'
<1>1. /\ busy /\ todo = << >> /\ busy' = FALSE
      /\ stores' = Append(stores, Store(ProducerLoc, prod))
      /\ UNCHANGED <<Producer, Consumer, Descs, todo, prod, cachedProd, cachedCons, taken>>
  BY DEF StoreProducer, kernelVars
<1>2. prod \in Counter /\ Consumer \in Counter /\ stores \in Seq(StoreRecord)
  BY TypeFacts DEF IInv
<1> DEFINE e == Store(ProducerLoc, prod)
           n == Len(stores) + 1
<1>3. e \in StoreRecord /\ e.loc = ProducerLoc /\ e.val = prod
  BY <1>2, SizeFacts DEF Store, StoreRecord, ProducerLoc
<1>4. stores' = Append(stores, e)
  BY <1>1
<1> HIDE DEF e
<1>5. e.val \in IF e.loc = ProducerLoc THEN Counter ELSE Value
  BY <1>2, <1>3
<1>6. /\ stores' \in Seq(StoreRecord) /\ StoresKept'
      /\ Len(stores') = n /\ Len(stores) \in Nat /\ stores'[n] = e
      /\ \A i \in 1 .. Len(stores) : stores'[i] = stores[i]
  BY <1>3, <1>4, <1>5, AppendKept
<1>7. ProducerSeen' = prod
  BY <1>2, <1>3, <1>4, AppendSame, SeenIs
<1>8. TypeOK'
  BY <1>1, <1>6 DEF IInv, TypeOK, StoreRecord
<1>9. CounterOrder' /\ CallFits'
  BY <1>1, <1>7 DEF IInv, CounterOrder, CallFits, Ahead
<1>10. PendingProducer' = PendingProducer \cup {n}
  <2>1. 1 .. n = (1 .. Len(stores)) \cup {n}
    BY <1>6
  <2> QED
    BY <1>3, <1>6, <2>1 DEF PendingProducer, Mine, ProducerLoc
<1>11. /\ Ahead(Producer)' = Ahead(Producer) /\ Ahead(prod)' = Ahead(prod)
       /\ Ahead(prod) \in Nat /\ Ahead(Producer) <= Ahead(prod)
  BY <1>1, AheadFacts DEF Ahead
<1>12. ASSUME NEW i, i = n
       PROVE  Ahead(stores[i].val)' = Ahead(prod)
  <2>1. stores'[i].val = prod
    BY <1>3, <1>6, <1>12
  <2> QED
    BY <1>1, <2>1 DEF Ahead
<1>13. ASSUME NEW i \in PendingProducer
       PROVE  /\ i \in 1 .. Len(stores)
              /\ Ahead(stores[i].val)' = Ahead(stores[i].val)
              /\ Ahead(Producer) <= Ahead(stores[i].val)
              /\ Ahead(stores[i].val) <= Ahead(prod)
  <2>1. /\ i \in 1 .. Len(stores) /\ Ahead(Producer) <= Ahead(stores[i].val)
        /\ Ahead(stores[i].val) <= Ahead(prod)
    BY PendingFacts
  <2>2. stores'[i] = stores[i]
    BY <1>6, <2>1
  <2>3. Ahead(stores[i].val)' = Ahead(stores[i].val)
    BY <1>1, <2>2 DEF Ahead
  <2> QED
    BY <2>1, <2>3
<1>14. ASSUME NEW i \in PendingProducer \cup {n}
       PROVE  Ahead(Producer)' <= Ahead(stores[i].val)' /\ Ahead(stores[i].val)' <= Ahead(prod)'
  <2>1. CASE i = n
    BY <1>11, <1>12, <2>1
  <2>2. CASE i \in PendingProducer
    BY <1>11, <1>13, <2>2
  <2> QED
    BY <2>1, <2>2
<1>15. ASSUME NEW i \in PendingProducer \cup {n}, NEW j \in PendingProducer \cup {n}, i <= j
       PROVE  Ahead(stores[i].val)' <= Ahead(stores[j].val)'
  <2>1. CASE j = n
    BY <1>11, <1>12, <1>14, <2>1
  <2>2. CASE i = n /\ j \in PendingProducer
    BY <1>6, <1>13, <1>15, <2>2
  <2>3. CASE i \in PendingProducer /\ j \in PendingProducer
    <3>1. Ahead(stores[i].val) <= Ahead(stores[j].val)
      BY <1>15, <2>3 DEF IInv, PendingOrder
    <3> QED
      BY <1>13, <2>3, <3>1
  <2> QED
    BY <2>1, <2>2, <2>3
<1>16. PendingOrder'
  BY <1>10, <1>14, <1>15, Zenon DEF PendingOrder
<1> QED
  BY <1>6, <1>8, <1>9, <1>16 DEF IInv

(* The store that is made visible is the oldest of its location. *)
LEMMA DrainFacts ==
  ASSUME IInv, NEW i, Drain(i)
  PROVE  /\ i \in 1 .. Len(stores) /\ stores' = Without(stores, i)
         /\ \A j \in 1 .. i - 1 : stores[j].loc # stores[i].loc
         /\ UNCHANGED <<Consumer, busy, todo, prod, cachedProd, cachedCons, taken>>
         /\ \/ /\ stores[i].loc = ProducerLoc /\ Producer' = stores[i].val
               /\ UNCHANGED Descs
            \/ /\ stores[i].loc # ProducerLoc /\ UNCHANGED Producer
               /\ Descs' = [Descs EXCEPT ![stores[i].loc] = stores[i].val]
<1>1. i \in 1 .. Len(stores) /\ \A j \in 1 .. i - 1 : stores[j].loc # stores[i].loc
  <2>1. i \in Drainable
    BY DEF Drain
  <2>2. Len(stores) \in Nat
    BY TypeFacts DEF IInv
  <2>3. CASE StoresInOrder
    <3>1. i = 1 /\ i \in 1 .. Len(stores)
      BY <2>1, <2>3 DEF Drainable
    <3> QED
      BY <3>1
  <2>4. CASE ~StoresInOrder
    BY <2>1, <2>4 DEF Drainable
  <2> QED
    BY <2>3, <2>4
<1>2. stores' = Without(stores, i)
  BY Zenon DEF Drain, Without
<1>3. UNCHANGED <<Consumer, busy, todo, prod, cachedProd, cachedCons, taken>>
  BY DEF Drain, goVars, kernelVars
<1>4. \/ /\ stores[i].loc = ProducerLoc /\ Producer' = stores[i].val
         /\ UNCHANGED Descs
      \/ /\ stores[i].loc # ProducerLoc /\ UNCHANGED Producer
         /\ Descs' = [Descs EXCEPT ![stores[i].loc] = stores[i].val]
  BY Zenon DEF Drain
<1> QED
  BY <1>1, <1>2, <1>3, <1>4, Zenon

(* A pending store has the type of its location. *)
LEMMA StoreFacts ==
  ASSUME IInv, NEW i \in 1 .. Len(stores)
  PROVE  /\ stores[i] \in StoreRecord /\ stores[i].loc \in 0 .. Size
         /\ HasNewest(stores, stores[i].loc)
         /\ stores[i].loc = ProducerLoc => stores[i].val \in Counter
         /\ stores[i].loc # ProducerLoc => stores[i].loc \in SlotIndex /\ stores[i].val \in Value
<1>1. stores \in Seq(StoreRecord)
  BY TypeFacts DEF IInv
<1>2. stores[i] \in StoreRecord
  BY <1>1
<1>3. stores[i].loc \in 0 .. Size
  BY <1>2 DEF StoreRecord
<1>4. stores[i].loc # ProducerLoc => stores[i].loc \in SlotIndex
  BY <1>3, SizeFacts DEF ProducerLoc, SlotIndex
<1>5. HasNewest(stores, stores[i].loc)
  BY <1>3 DEF IInv, StoresKept
<1>6. stores[i].val \in IF stores[i].loc = ProducerLoc THEN Counter ELSE Value
  BY Zenon DEF IInv, StoresKept
<1> QED
  BY <1>2, <1>3, <1>4, <1>5, <1>6

(* Making a store visible changes nothing for the program that issued it.  *)
LEMMA DrainSeen ==
  ASSUME IInv, NEW i, Drain(i)
  PROVE  /\ ProducerSeen' = ProducerSeen /\ SeenSlots' = SeenSlots
         /\ \A loc \in 0 .. Size : HasNewest(stores', loc)
<1>1. stores \in Seq(StoreRecord) /\ Descs \in [SlotIndex -> Value \cup {NoDesc}]
  BY TypeFacts DEF IInv
<1>2. /\ i \in 1 .. Len(stores) /\ stores' = Without(stores, i)
      /\ \A j \in 1 .. i - 1 : stores[j].loc # stores[i].loc
  BY DrainFacts
<1>3. \/ stores[i].loc = ProducerLoc /\ Producer' = stores[i].val /\ UNCHANGED Descs
      \/ /\ stores[i].loc # ProducerLoc /\ UNCHANGED Producer
         /\ Descs' = [Descs EXCEPT ![stores[i].loc] = stores[i].val]
  BY DrainFacts
<1>4. ProducerLoc \in 0 .. Size /\ \A s \in SlotIndex : s \in 0 .. Size /\ s # ProducerLoc
  BY SizeFacts DEF ProducerLoc, SlotIndex
<1>5. \A loc \in 0 .. Size : HasNewest(stores, loc)
  BY DEF IInv, StoresKept
<1>6. ASSUME NEW loc \in 0 .. Size, stores[i].loc # loc
      PROVE  HasNewest(stores', loc) /\ \A mem : LastVal(stores', loc, mem) = LastVal(stores, loc, mem)
  <2>1. HasNewest(stores, loc)
    BY <1>5
  <2>2. ASSUME NEW mem
        PROVE  /\ HasNewest(Without(stores, i), loc)
               /\ LastVal(Without(stores, i), loc, mem) = LastVal(stores, loc, mem)
    BY <1>1, <1>2, <1>6, <2>1, WithoutOther
  <2> QED
    BY <1>2, <2>2, Zenon
<1>7. ASSUME NEW loc \in 0 .. Size, stores[i].loc = loc
      PROVE  /\ HasNewest(stores', loc)
             /\ \A mem : LastVal(stores', loc, stores[i].val) = LastVal(stores, loc, mem)
  <2>1. HasNewest(stores, loc) /\ \A j \in 1 .. i - 1 : stores[j].loc # loc
    BY <1>2, <1>5, <1>7
  <2>2. ASSUME NEW mem, NEW v, stores[i].val = v
        PROVE  /\ HasNewest(Without(stores, i), loc)
               /\ LastVal(Without(stores, i), loc, v) = LastVal(stores, loc, mem)
    <3>1. /\ stores \in Seq(StoreRecord) /\ i \in 1 .. Len(stores)
          /\ stores[i].loc = loc /\ stores[i].val = v
          /\ \A j \in 1 .. i - 1 : stores[j].loc # loc
          /\ HasNewest(stores, loc)
      BY <1>1, <1>2, <1>7, <2>1, <2>2
    <3> QED
      BY ONLY <3>1, WithoutSame
  <2> QED
    BY <1>2, <2>2, Zenon
<1>8. LastVal(stores', ProducerLoc, Producer') = LastVal(stores, ProducerLoc, Producer)
  BY <1>3, <1>4, <1>6, <1>7, Zenon
<1>9. ASSUME NEW s \in SlotIndex
      PROVE  LastVal(stores', s, Descs'[s]) = LastVal(stores, s, Descs[s])
  <2>1. s \in 0 .. Size /\ s # ProducerLoc
    BY <1>4
  <2>2. CASE stores[i].loc = s
    <3>1. Descs' = [Descs EXCEPT ![s] = stores[i].val]
      BY <1>3, <2>1, <2>2, Zenon
    <3>2. Descs'[s] = stores[i].val
      BY <1>1, <3>1
    <3> QED
      BY <1>7, <2>1, <2>2, <3>2, Zenon
  <2>3. CASE stores[i].loc # s
    <3>1. Descs'[s] = Descs[s]
      BY <1>1, <1>3, <2>3
    <3> QED
      BY <1>6, <2>1, <2>3, <3>1, Zenon
  <2> QED
    BY <2>2, <2>3
<1>10. [s \in SlotIndex |-> LastVal(stores', s, Descs'[s])]
         = [s \in SlotIndex |-> LastVal(stores, s, Descs[s])]
  BY <1>9, Zenon
<1>11. ProducerSeen' = ProducerSeen /\ SeenSlots' = SeenSlots
  BY <1>8, <1>10, SeenIs, Zenon
<1>12. \A loc \in 0 .. Size : HasNewest(stores', loc)
  BY <1>6, <1>7, Zenon
<1> QED
  BY <1>11, <1>12

(* The oldest value on its way to Producer is the least of them: when it   *)
(* arrives the order is the same (xdp.go:414).                             *)
LEMMA DrainIInv ==
  ASSUME IInv, NEW i, Drain(i)
  PROVE  IInv'
<1>1. stores \in Seq(StoreRecord) /\ Descs \in [SlotIndex -> Value \cup {NoDesc}]
  BY TypeFacts DEF IInv
<1>2. /\ i \in 1 .. Len(stores) /\ stores' = Without(stores, i)
      /\ \A j \in 1 .. i - 1 : stores[j].loc # stores[i].loc
      /\ UNCHANGED <<Consumer, busy, todo, prod, cachedProd, cachedCons, taken>>
  BY DrainFacts
<1>3. \/ stores[i].loc = ProducerLoc /\ Producer' = stores[i].val /\ UNCHANGED Descs
      \/ /\ stores[i].loc # ProducerLoc /\ UNCHANGED Producer
         /\ Descs' = [Descs EXCEPT ![stores[i].loc] = stores[i].val]
  BY DrainFacts
<1>4. /\ stores[i].loc = ProducerLoc => stores[i].val \in Counter
      /\ stores[i].loc # ProducerLoc => stores[i].loc \in SlotIndex /\ stores[i].val \in Value
  BY <1>2, StoreFacts
<1>5. /\ stores' \in Seq(StoreRecord) /\ Len(stores') = Len(stores) - 1 /\ Len(stores) \in Nat
      /\ \A j \in 1 .. Len(stores') :
           Passed(i, j) \in 1 .. Len(stores) /\ stores'[j] = stores[Passed(i, j)]
  BY <1>1, <1>2, WithoutFacts
<1>6. Producer' \in Counter /\ Descs' \in [SlotIndex -> Value \cup {NoDesc}]
  <2>1. Producer \in Counter
    BY TypeFacts DEF IInv
  <2> QED
    BY <1>1, <1>3, <1>4, <2>1
<1>7. TypeOK'
  BY <1>2, <1>5, <1>6 DEF IInv, TypeOK, StoreRecord
<1>8. StoresKept'
  <2>1. ASSUME NEW j \in 1 .. Len(stores')
        PROVE  stores'[j].val \in IF stores'[j].loc = ProducerLoc THEN Counter ELSE Value
    <3>1. Passed(i, j) \in 1 .. Len(stores) /\ stores'[j] = stores[Passed(i, j)]
      BY <1>5
    <3> QED
      BY <3>1, Zenon DEF IInv, StoresKept
  <2> QED
    BY <2>1, DrainSeen, Zenon DEF StoresKept, ProducerLoc
<1>9. \A c : Distance(c, Consumer') = Distance(c, Consumer)
  BY <1>2
<1>10. ASSUME NEW j \in PendingProducer'
       PROVE  /\ Passed(i, j) \in PendingProducer /\ j \in 1 .. Len(stores')
              /\ stores'[j] = stores[Passed(i, j)]
              /\ Ahead(stores[j].val)' = Ahead(stores[Passed(i, j)].val)
              /\ stores[i].loc = ProducerLoc => i \in PendingProducer /\ i <= Passed(i, j)
  <2>1. j \in 1 .. Len(stores') /\ stores'[j].loc = ProducerLoc
    BY DEF PendingProducer, Mine, ProducerLoc
  <2>2. Passed(i, j) \in 1 .. Len(stores) /\ stores'[j] = stores[Passed(i, j)]
    BY <1>5, <2>1
  <2>3. Passed(i, j) \in PendingProducer
    BY <2>1, <2>2 DEF PendingProducer, Mine
  <2>4. stores[i].loc = ProducerLoc => i \in PendingProducer /\ i <= Passed(i, j)
    BY <1>2, <2>1, <2>2 DEF PendingProducer, Mine
  <2>5. Ahead(stores[j].val)' = Ahead(stores[Passed(i, j)].val)
    BY <1>9, <2>2 DEF Ahead
  <2> QED
    BY <2>1, <2>2, <2>3, <2>4, <2>5
<1>11. /\ Ahead(Producer)' \in Nat
       /\ Ahead(Producer) <= Ahead(Producer)' /\ Ahead(Producer)' <= Ahead(prod)
       /\ \A j \in PendingProducer' : Ahead(Producer)' <= Ahead(stores[Passed(i, j)].val)
  <2>1. CASE stores[i].loc = ProducerLoc
    <3>1. i \in PendingProducer
      BY <1>2, <2>1 DEF PendingProducer, Mine
    <3>2. Ahead(Producer)' = Ahead(stores[i].val)
      BY <1>3, <1>9, <2>1 DEF Ahead
    <3>3. /\ Ahead(stores[i].val) \in Nat
          /\ Ahead(Producer) <= Ahead(stores[i].val) /\ Ahead(stores[i].val) <= Ahead(prod)
      BY <3>1, PendingFacts
    <3>4. ASSUME NEW j \in PendingProducer'
          PROVE  Ahead(stores[i].val) <= Ahead(stores[Passed(i, j)].val)
      <4>1. Passed(i, j) \in PendingProducer /\ i <= Passed(i, j)
        BY <1>10, <2>1
      <4> QED
        BY <3>1, <4>1 DEF IInv, PendingOrder
    <3> QED
      BY <3>2, <3>3, <3>4
  <2>2. CASE stores[i].loc # ProducerLoc
    <3>1. Ahead(Producer)' = Ahead(Producer)
      BY <1>3, <1>9, <2>2 DEF Ahead
    <3>2. ASSUME NEW j \in PendingProducer'
          PROVE  Ahead(Producer) <= Ahead(stores[Passed(i, j)].val)
      <4>1. Passed(i, j) \in PendingProducer
        BY <1>10
      <4> QED
        BY <4>1, PendingFacts
    <3> QED
      BY <3>1, <3>2, AheadFacts
  <2> QED
    BY <2>1, <2>2
<1>12. /\ Ahead(cachedCons)' = Ahead(cachedCons) /\ Ahead(cachedProd)' = Ahead(cachedProd)
       /\ Ahead(prod)' = Ahead(prod)
  BY <1>2 DEF Ahead
<1>13. CounterOrder'
  BY <1>11, <1>12, AheadFacts DEF CounterOrder
<1>14. PendingOrder'
  <2>1. ASSUME NEW j \in PendingProducer'
        PROVE  Ahead(Producer)' <= Ahead(stores[j].val)' /\ Ahead(stores[j].val)' <= Ahead(prod)'
    <3>1. /\ Passed(i, j) \in PendingProducer
          /\ Ahead(stores[j].val)' = Ahead(stores[Passed(i, j)].val)
      BY <1>10
    <3>2. Ahead(stores[Passed(i, j)].val) <= Ahead(prod)
      BY <3>1, PendingFacts
    <3> QED
      BY <1>11, <1>12, <3>1, <3>2
  <2>2. ASSUME NEW j \in PendingProducer', NEW k \in PendingProducer', j <= k
        PROVE  Ahead(stores[j].val)' <= Ahead(stores[k].val)'
    <3>1. /\ Passed(i, j) \in PendingProducer /\ Passed(i, k) \in PendingProducer
          /\ Ahead(stores[j].val)' = Ahead(stores[Passed(i, j)].val)
          /\ Ahead(stores[k].val)' = Ahead(stores[Passed(i, k)].val)
          /\ j \in 1 .. Len(stores') /\ k \in 1 .. Len(stores')
      BY <1>10
    <3>2. Passed(i, j) <= Passed(i, k)
      BY <1>2, <1>5, <2>2, <3>1 DEF Passed
    <3>3. Ahead(stores[Passed(i, j)].val) <= Ahead(stores[Passed(i, k)].val)
      BY <3>1, <3>2 DEF IInv, PendingOrder
    <3> QED
      BY <3>1, <3>3
  <2> QED
    BY <2>1, <2>2, Zenon DEF PendingOrder
<1>15. CallFits'
  BY <1>2, <1>12, DrainSeen DEF IInv, CallFits
<1> QED
  BY <1>7, <1>8, <1>13, <1>14, <1>15 DEF IInv

(* Distances from a counter that comes first are differences. *)
LEMMA AheadShift ==
  ASSUME IInv, NEW c \in Counter, Ahead(cachedCons) <= Ahead(c)
  PROVE  Distance(c, cachedCons) = Ahead(c) - Ahead(cachedCons)
<1>1. cachedCons \in Counter /\ Consumer \in Counter
  BY TypeFacts DEF IInv
<1> QED
  BY <1>1, DistanceBetween DEF Ahead

(* Handing back slots shortens every distance by as much.                  *)
LEMMA KernelRefreshIInv ==
  ASSUME IInv, KernelRefresh
  PROVE  IInv'
<1>1. /\ cachedProd' = Producer /\ Consumer' = cachedCons
      /\ UNCHANGED <<Producer, Descs, stores, busy, todo, prod, cachedCons, taken>>
  BY DEF KernelRefresh, goVars
<1>2. /\ Producer \in Counter /\ prod \in Counter /\ cachedCons \in Counter
      /\ cachedProd \in Counter /\ todo \in Seq(Value)
  BY TypeFacts DEF IInv
<1>3. TypeOK'
  BY <1>1, <1>2 DEF IInv, TypeOK
<1>4. StoresKept'
  BY <1>1 DEF IInv, StoresKept
<1>5. /\ Ahead(cachedCons) \in Nat /\ Ahead(Producer) \in Nat /\ Ahead(prod) \in Nat
      /\ Ahead(cachedCons) <= Ahead(Producer)
      /\ Ahead(Producer) <= Ahead(prod) /\ Ahead(cachedCons) <= Ahead(prod)
  BY AheadFacts
<1>6. /\ Ahead(Producer)' = Ahead(Producer) - Ahead(cachedCons)
      /\ Ahead(prod)' = Ahead(prod) - Ahead(cachedCons)
      /\ Ahead(cachedProd)' = Ahead(Producer)'
      /\ Ahead(cachedCons)' = 0
  <2>1. Distance(Producer, cachedCons) = Ahead(Producer) - Ahead(cachedCons)
    BY <1>2, <1>5, AheadShift
  <2>2. Distance(prod, cachedCons) = Ahead(prod) - Ahead(cachedCons)
    BY <1>2, <1>5, AheadShift
  <2>3. Distance(cachedCons, cachedCons) = 0
    BY <1>2, DistanceType
  <2>4. /\ Ahead(Producer)' = Distance(Producer, cachedCons)
        /\ Ahead(prod)' = Distance(prod, cachedCons)
        /\ Ahead(cachedProd)' = Distance(Producer, cachedCons)
        /\ Ahead(cachedCons)' = Distance(cachedCons, cachedCons)
    BY <1>1 DEF Ahead
  <2> QED
    BY <2>1, <2>2, <2>3, <2>4
<1>7. CounterOrder'
  BY <1>5, <1>6 DEF CounterOrder
<1>8. PendingProducer' = PendingProducer
  BY <1>1 DEF PendingProducer, ProducerLoc
<1>9. ASSUME NEW i \in PendingProducer
      PROVE  /\ Ahead(stores[i].val)' = Ahead(stores[i].val) - Ahead(cachedCons)
             /\ Ahead(stores[i].val) \in Nat
             /\ Ahead(Producer) <= Ahead(stores[i].val)
             /\ Ahead(stores[i].val) <= Ahead(prod)
  <2>1. /\ stores[i].val \in Counter /\ Ahead(stores[i].val) \in Nat
        /\ Ahead(Producer) <= Ahead(stores[i].val)
        /\ Ahead(stores[i].val) <= Ahead(prod)
    BY PendingFacts
  <2>2. Ahead(cachedCons) <= Ahead(stores[i].val)
    BY <1>5, <2>1
  <2>3. Distance(stores[i].val, cachedCons) = Ahead(stores[i].val) - Ahead(cachedCons)
    BY <2>1, <2>2, AheadShift
  <2>4. Ahead(stores[i].val)' = Distance(stores[i].val, cachedCons)
    BY <1>1 DEF Ahead
  <2> QED
    BY <2>1, <2>3, <2>4
<1>10. PendingOrder'
  <2>1. ASSUME NEW i \in PendingProducer
        PROVE  Ahead(Producer)' <= Ahead(stores[i].val)' /\ Ahead(stores[i].val)' <= Ahead(prod)'
    BY <1>5, <1>6, <1>9
  <2>2. ASSUME NEW i \in PendingProducer, NEW j \in PendingProducer, i <= j
        PROVE  Ahead(stores[i].val)' <= Ahead(stores[j].val)'
    <3>1. Ahead(stores[i].val) <= Ahead(stores[j].val)
      BY <2>2 DEF IInv, PendingOrder
    <3> QED
      BY <1>5, <1>9, <3>1
  <2> QED
    BY <1>8, <2>1, <2>2, Zenon DEF PendingOrder
<1>11. CallFits'
  <2>1. ProducerSeen' = ProducerSeen
    BY <1>1, SeenIs DEF ProducerLoc
  <2>2. CallFits /\ Len(todo) \in Nat
    BY <1>2 DEF IInv
  <2>3. Ahead(prod)' + Len(todo) <= Size
    BY <1>5, <1>6, <2>2, SizeFacts DEF CallFits
  <2> QED
    BY <1>1, <2>1, <2>2, <2>3 DEF CallFits
<1> QED
  BY <1>3, <1>4, <1>7, <1>10, <1>11 DEF IInv

(* The kernel stops at the Producer it knows of. *)
LEMMA KernelConsumeIInv ==
  ASSUME IInv, KernelConsume
  PROVE  /\ IInv'
         /\ Ahead(cachedCons) < Ahead(cachedProd)
         /\ Ahead(cachedCons)' = Ahead(cachedCons) + 1
<1>1. /\ cachedCons # cachedProd /\ taken' = << Descs[Slot(cachedCons)] >>
      /\ cachedCons' = Succ(cachedCons)
      /\ UNCHANGED <<Producer, Consumer, Descs, stores, busy, todo, prod, cachedProd>>
  BY DEF KernelConsume, goVars
<1>2. /\ cachedCons \in Counter /\ cachedProd \in Counter /\ Consumer \in Counter
      /\ Descs \in [SlotIndex -> Value \cup {NoDesc}]
  BY TypeFacts DEF IInv
<1>3. /\ Ahead(cachedCons) \in Nat /\ Ahead(cachedProd) \in Nat
      /\ Ahead(cachedCons) <= Ahead(cachedProd) /\ Ahead(cachedProd) <= Size
  BY AheadFacts, SizeFacts
<1>4. Ahead(cachedCons) < Ahead(cachedProd)
  <2>1. Ahead(cachedCons) # Ahead(cachedProd)
    BY <1>1, <1>2, AheadInjective DEF Ahead
  <2> QED
    BY <1>3, <2>1
<1>5. Ahead(cachedCons)' = Ahead(cachedCons) + 1
  <2>1. Distance(cachedCons, Consumer) + 1 < Modulus
    <3>1. Ahead(cachedCons) + 1 < Modulus
      BY <1>3, <1>4, SizeFacts
    <3> QED
      BY <3>1 DEF Ahead
  <2>2. Distance(Succ(cachedCons), Consumer) = Distance(cachedCons, Consumer) + 1
    BY <1>2, <2>1, DistanceSucc
  <2> QED
    BY <1>1, <2>2 DEF Ahead
<1>6. TypeOK'
  <2>1. cachedCons' \in Counter
    BY <1>1, <1>2, SuccValue
  <2>2. taken' \in Seq(Value \cup {NoDesc})
    <3>1. Descs[Slot(cachedCons)] \in Value \cup {NoDesc}
      BY <1>2, SlotType
    <3> QED
      BY <1>1, <3>1
  <2> QED
    BY <1>1, <2>1, <2>2 DEF IInv, TypeOK
<1>7. /\ Ahead(cachedProd)' = Ahead(cachedProd) /\ Ahead(Producer)' = Ahead(Producer)
      /\ Ahead(prod)' = Ahead(prod)
  BY <1>1 DEF Ahead
<1>8. CounterOrder'
  BY <1>3, <1>4, <1>5, <1>7, AheadFacts DEF CounterOrder
<1>9. StoresKept' /\ PendingOrder'
  BY <1>1 DEF IInv, StoresKept, PendingOrder, PendingProducer, Ahead, ProducerLoc
<1>10. CallFits'
  <2>1. ProducerSeen' = ProducerSeen
    BY <1>1, SeenIs DEF ProducerLoc
  <2> QED
    BY <1>1, <1>7, <2>1 DEF IInv, CallFits
<1>11. IInv'
  BY <1>6, <1>8, <1>9, <1>10 DEF IInv
<1> QED
  BY <1>4, <1>5, <1>11

(* Every step of either side keeps the inductive invariant. *)
LEMMA NextIInv == IInv /\ [Next]_vars => IInv'
<1> SUFFICES ASSUME IInv, [Next]_vars PROVE IInv'
  OBVIOUS
<1>1. ASSUME NEW descs \in Batch, Submit(descs) PROVE IInv'
  BY <1>1, SubmitIInv
<1>2. CASE StoreDesc
  BY <1>2, StoreDescIInv
<1>3. CASE StoreProducer
  BY <1>3, StoreProducerIInv
<1>4. ASSUME NEW i \in 1 .. MaxStores, Drain(i) PROVE IInv'
  BY <1>4, DrainIInv
<1>5. CASE KernelRefresh
  BY <1>5, KernelRefreshIInv
<1>6. CASE KernelConsume
  BY <1>6, KernelConsumeIInv
<1>7. CASE UNCHANGED vars
  <2>1. UNCHANGED <<Producer, Consumer, Descs, stores, busy, todo, prod,
                    cachedProd, cachedCons, taken>>
    BY <1>7 DEF vars, goVars, kernelVars
  <2>2. ProducerSeen' = ProducerSeen
    BY <2>1, SeenIs DEF ProducerLoc
  <2> QED
    BY <2>1, <2>2 DEF IInv, TypeOK, StoresKept, CounterOrder, PendingOrder, CallFits,
                      PendingProducer, Ahead, ProducerLoc
<1> QED
  BY <1>1, <1>2, <1>3, <1>4, <1>5, <1>6, <1>7, Zenon DEF Next

(* The inductive invariant holds in every state, on processors that        *)
(* reorder stores too (xdp.go:401-419,449-464).                            *)
THEOREM Invariance == Spec => []IInv
BY InitIInv, NextIInv, PTL DEF Spec

(* Counters and slots keep their types (xdp.go:124-134). *)
THEOREM TypeCorrect == Spec => []TypeOK
<1>1. IInv => TypeOK
  BY DEF IInv
<1> QED
  BY <1>1, Invariance, PTL

(* The counters never drift apart by more than the ring, for any ring size *)
(* and width of the counters, and however stores are delayed or reordered: *)
(* NumFreeFillSlots and NumFreeTxSlots never count a slot the kernel has   *)
(* not handed back (xdp.go:657,673).                                       *)
THEOREM CountersOrderedAlways == Spec => []CountersOrdered
<1>1. IInv => CountersOrdered
  <2> SUFFICES ASSUME IInv PROVE CountersOrdered
    OBVIOUS
  <2>1. /\ Ahead(prod) <= Size /\ Ahead(cachedCons) <= Ahead(cachedProd)
        /\ Ahead(cachedProd) <= Ahead(Producer)
    BY AheadFacts
  <2>2. Ahead(Producer) <= Ahead(ProducerSeen) /\ Ahead(ProducerSeen) <= Ahead(prod)
    BY SeenOrder
  <2> QED
    BY <2>1, <2>2, Zenon DEF CountersOrdered, Ahead
<1> QED
  BY <1>1, Invariance, PTL
-----------------------------------------------------------------------------
(* What is read back at a slot, and where it comes from. *)
LEMMA SeenSlotsFacts ==
  ASSUME IInv
  PROVE  /\ SeenSlots \in [SlotIndex -> Value \cup {NoDesc}]
         /\ \A s \in SlotIndex : SeenSlots[s] = LastVal(stores, s, Descs[s])
         /\ \A s \in SlotIndex :
              (\A i \in 1 .. Len(stores) : stores[i].loc # s) => SeenSlots[s] = Descs[s]
<1>1. stores \in Seq(StoreRecord) /\ Descs \in [SlotIndex -> Value \cup {NoDesc}]
  BY TypeFacts DEF IInv
<1>2. ASSUME NEW s \in SlotIndex
      PROVE  /\ LastVal(stores, s, Descs[s]) \in Value \cup {NoDesc}
             /\ Mine(stores, s) = {} => LastVal(stores, s, Descs[s]) = Descs[s]
  <2>1. HasNewest(stores, s) /\ s # ProducerLoc
    BY SizeFacts DEF IInv, StoresKept, SlotIndex, ProducerLoc
  <2>2. CASE Mine(stores, s) = {}
    <3>1. LastVal(stores, s, Descs[s]) = Descs[s]
      BY <1>1, <2>2, LastValFacts
    <3> QED
      BY <1>1, <3>1
  <2>3. CASE \E i \in 1 .. Len(stores) : Newest(stores, s, i)
    <3>1. PICK i \in 1 .. Len(stores) : Newest(stores, s, i)
      BY <2>3
    <3>2. i \in Mine(stores, s) /\ stores[i].loc = s
      BY <3>1, Zenon DEF Newest, Mine
    <3>3. LastVal(stores, s, Descs[s]) = stores[i].val
      BY <1>1, <3>1, LastValFacts
    <3>4. stores[i].val \in Value
      BY <2>1, <3>2, StoreFacts
    <3> QED
      BY <3>2, <3>3, <3>4, Zenon
  <2> QED
    BY <2>1, <2>2, <2>3, Zenon DEF HasNewest
<1>3. SeenSlots = [s \in SlotIndex |-> LastVal(stores, s, Descs[s])]
  BY SeenIs
<1>4. \A s \in SlotIndex : SeenSlots[s] = LastVal(stores, s, Descs[s])
  BY <1>3, Zenon
<1>5. SeenSlots \in [SlotIndex -> Value \cup {NoDesc}]
  BY <1>2, <1>3
<1>6. ASSUME NEW s \in SlotIndex, \A i \in 1 .. Len(stores) : stores[i].loc # s
      PROVE  SeenSlots[s] = Descs[s]
  <2>1. Mine(stores, s) = {}
    BY <1>6, Zenon DEF Mine
  <2> QED
    BY <1>2, <1>4, <2>1, Zenon
<1> QED
  BY <1>4, <1>5, <1>6, Zenon

(* A turn of the loop is read back at its slot and nowhere else. *)
LEMMA StoreDescSeen ==
  ASSUME IInv, StoreDesc
  PROVE  /\ ProducerSeen' = ProducerSeen
         /\ SeenSlots'[Slot(prod)] \in Value
         /\ \A s \in SlotIndex : s # Slot(prod) => SeenSlots'[s] = SeenSlots[s]
<1>1. /\ todo # << >> /\ stores' = Append(stores, Store(Slot(prod), Head(todo)))
      /\ UNCHANGED <<Producer, Descs>>
  BY DEF StoreDesc
<1>2. /\ prod \in Counter /\ todo \in Seq(Value) /\ stores \in Seq(StoreRecord)
  BY TypeFacts DEF IInv
<1>3. Head(todo) \in Value /\ Slot(prod) \in SlotIndex
  BY <1>1, <1>2, SlotType
<1>4. ProducerLoc \in 0 .. Size /\ \A s \in SlotIndex : s \in 0 .. Size /\ s # ProducerLoc
  BY SizeFacts DEF ProducerLoc, SlotIndex
<1>5. \A loc \in 0 .. Size : HasNewest(stores, loc)
  BY DEF IInv, StoresKept
<1> DEFINE e == Store(Slot(prod), Head(todo))
<1>6. e \in StoreRecord /\ e.loc = Slot(prod) /\ e.val = Head(todo)
  BY <1>3, <1>4 DEF Store, StoreRecord
<1>7. stores' = Append(stores, e)
  BY <1>1
<1> HIDE DEF e
<1>8. ASSUME NEW loc \in 0 .. Size, loc # Slot(prod), NEW mem
      PROVE  LastVal(stores', loc, mem) = LastVal(stores, loc, mem)
  BY <1>2, <1>5, <1>6, <1>7, <1>8, AppendOther
<1>9. ASSUME NEW mem PROVE LastVal(stores', Slot(prod), mem) = Head(todo)
  BY <1>2, <1>6, <1>7, AppendSame
<1>10. SeenSlots' = [s \in SlotIndex |-> LastVal(stores', s, Descs[s])]
  BY <1>1, SeenIs
<1>11. ProducerSeen' = ProducerSeen
  BY <1>1, <1>3, <1>4, <1>8, SeenIs, Zenon
<1>12. SeenSlots'[Slot(prod)] = Head(todo)
  BY <1>3, <1>9, <1>10, Zenon
<1>13. ASSUME NEW s \in SlotIndex, s # Slot(prod)
       PROVE  SeenSlots'[s] = SeenSlots[s]
  <2>1. SeenSlots'[s] = LastVal(stores', s, Descs[s])
    BY <1>10, Zenon
  <2>2. SeenSlots[s] = LastVal(stores, s, Descs[s])
    BY SeenSlotsFacts
  <2> QED
    BY <1>4, <1>8, <1>13, <2>1, <2>2, Zenon
<1> QED
  BY <1>3, <1>11, <1>12, <1>13, Zenon

(* The store to Producer is read back at once, and no slot changes. *)
LEMMA StoreProducerSeen ==
  ASSUME IInv, StoreProducer
  PROVE  ProducerSeen' = prod /\ SeenSlots' = SeenSlots
<1>1. stores' = Append(stores, Store(ProducerLoc, prod)) /\ UNCHANGED <<Producer, Descs>>
  BY DEF StoreProducer
<1>2. prod \in Counter /\ stores \in Seq(StoreRecord)
  BY TypeFacts DEF IInv
<1> DEFINE e == Store(ProducerLoc, prod)
<1>3. e \in StoreRecord /\ e.loc = ProducerLoc /\ e.val = prod
  BY <1>2, SizeFacts DEF Store, StoreRecord, ProducerLoc
<1>4. stores' = Append(stores, e)
  BY <1>1
<1> HIDE DEF e
<1>5. ProducerSeen' = prod
  BY <1>2, <1>3, <1>4, AppendSame, SeenIs
<1>6. ASSUME NEW s \in SlotIndex
      PROVE  LastVal(stores', s, Descs'[s]) = LastVal(stores, s, Descs[s])
  <2>1. s \in 0 .. Size /\ s # ProducerLoc
    BY SizeFacts DEF ProducerLoc, SlotIndex
  <2>2. HasNewest(stores, s)
    BY <2>1 DEF IInv, StoresKept
  <2> QED
    BY <1>1, <1>2, <1>3, <1>4, <2>1, <2>2, AppendOther
<1>7. [s \in SlotIndex |-> LastVal(stores', s, Descs'[s])]
        = [s \in SlotIndex |-> LastVal(stores, s, Descs[s])]
  BY <1>6, Zenon
<1> QED
  BY <1>5, <1>7, SeenIs, Zenon

(* Written counts from the kernel's position, so its steps only shorten it.*)
LEMMA WrittenKept ==
  ASSUME IInv, Written, [Next]_vars
  PROVE  Written'
<1>1. ASSUME NEW descs \in Batch, Submit(descs) PROVE Written'
  <2>1. /\ prod' = prod /\ UNCHANGED <<Consumer, stores, Descs, cachedCons>>
    BY <1>1 DEF Submit, kernelVars, IInv, CallFits
  <2>2. SeenSlots' = SeenSlots
    BY <2>1, SeenIs
  <2> QED
    BY <2>1, <2>2 DEF Written, Ahead
<1>2. CASE StoreDesc
  <2>1. /\ prod \in Counter /\ Consumer \in Counter
        /\ prod' = Succ(prod) /\ UNCHANGED <<Consumer, cachedCons>> /\ todo # << >>
        /\ todo \in Seq(Value)
    BY <1>2, TypeFacts DEF StoreDesc, kernelVars, IInv
  <2>2. Ahead(prod)' = Ahead(prod) + 1 /\ Ahead(prod) \in Nat
    BY <1>2, StoreDescProd
  <2>3. ASSUME NEW c \in Counter, Ahead(cachedCons)' <= Ahead(c)', Ahead(c)' < Ahead(prod)'
        PROVE  SeenSlots'[Slot(c)] \in Value
    <3>1. Ahead(c)' = Ahead(c) /\ Ahead(c) \in Nat /\ Ahead(cachedCons)' = Ahead(cachedCons)
      BY <2>1, DistanceType DEF Ahead
    <3>2. Slot(c) \in SlotIndex
      BY SlotType
    <3>3. CASE Slot(c) = Slot(prod)
      BY <1>2, <3>3, StoreDescSeen
    <3>4. CASE Slot(c) # Slot(prod)
      <4>1. c # prod
        BY <3>4
      <4>2. Ahead(c) # Ahead(prod)
        BY <2>1, <4>1, AheadInjective DEF Ahead
      <4>3. Ahead(c) < Ahead(prod) /\ Ahead(cachedCons) <= Ahead(c)
        BY <2>2, <2>3, <3>1, <4>2
      <4>4. SeenSlots[Slot(c)] \in Value
        BY <4>3 DEF Written
      <4> QED
        BY <1>2, <3>2, <3>4, <4>4, StoreDescSeen
    <3> QED
      BY <3>3, <3>4
  <2> QED
    BY <2>3, Zenon DEF Written
<1>3. CASE StoreProducer
  <2>1. UNCHANGED <<Consumer, prod, cachedCons>>
    BY <1>3 DEF StoreProducer, kernelVars
  <2>2. SeenSlots' = SeenSlots
    BY <1>3, StoreProducerSeen
  <2> QED
    BY <2>1, <2>2 DEF Written, Ahead
<1>4. ASSUME NEW i \in 1 .. MaxStores, Drain(i) PROVE Written'
  <2>1. UNCHANGED <<Consumer, prod, cachedCons>>
    BY <1>4 DEF Drain, goVars, kernelVars
  <2>2. SeenSlots' = SeenSlots
    BY <1>4, DrainSeen
  <2> QED
    BY <2>1, <2>2 DEF Written, Ahead
<1>5. CASE KernelRefresh
  <2>1. Consumer' = cachedCons /\ UNCHANGED <<Descs, stores, prod, cachedCons>>
    BY <1>5 DEF KernelRefresh, goVars
  <2>2. SeenSlots' = SeenSlots
    BY <2>1, SeenIs
  <2>3. prod \in Counter /\ cachedCons \in Counter /\ Consumer \in Counter
    BY TypeFacts DEF IInv
  <2>4. /\ Ahead(cachedCons) \in Nat /\ Ahead(prod) \in Nat
        /\ Ahead(cachedCons) <= Ahead(prod) /\ Ahead(prod) <= Size
    BY AheadFacts, SizeFacts
  <2>5. Ahead(prod)' = Ahead(prod) - Ahead(cachedCons)
    <3>1. Distance(prod, cachedCons) = Ahead(prod) - Ahead(cachedCons)
      BY <2>3, <2>4, AheadShift
    <3> QED
      BY <2>1, <3>1 DEF Ahead
  <2>6. ASSUME NEW c \in Counter, Ahead(c)' < Ahead(prod)'
        PROVE  SeenSlots[Slot(c)] \in Value
    <3> DEFINE d == Distance(c, cachedCons)
    <3>1. d \in Nat /\ d < Ahead(prod) - Ahead(cachedCons)
      BY <2>1, <2>3, <2>5, <2>6, DistanceType DEF Ahead
    <3> HIDE DEF d
    <3>2. Ahead(cachedCons) + d < Modulus /\ Ahead(cachedCons) + d < Ahead(prod)
      BY <2>4, <3>1, SizeFacts
    <3>3. Distance(c, Consumer) = Distance(cachedCons, Consumer) + Distance(c, cachedCons)
      BY <2>3, <3>2, DistanceSum DEF Ahead, d
    <3>4. Ahead(c) = Ahead(cachedCons) + d
      BY <3>3 DEF Ahead, d
    <3>5. Ahead(cachedCons) <= Ahead(c) /\ Ahead(c) < Ahead(prod)
      BY <2>4, <3>1, <3>2, <3>4
    <3> QED
      BY <3>5 DEF Written
  <2> QED
    BY <2>2, <2>6, Zenon DEF Written
<1>6. CASE KernelConsume
  <2>1. UNCHANGED <<Consumer, prod, stores, Descs>>
    BY <1>6 DEF KernelConsume, goVars
  <2>2. SeenSlots' = SeenSlots
    BY <2>1, SeenIs
  <2>3. Ahead(cachedCons)' = Ahead(cachedCons) + 1 /\ Ahead(cachedCons) \in Nat
    BY <1>6, KernelConsumeIInv, AheadFacts
  <2>4. ASSUME NEW c \in Counter, Ahead(cachedCons)' <= Ahead(c)', Ahead(c)' < Ahead(prod)'
        PROVE  SeenSlots[Slot(c)] \in Value
    <3>1. Ahead(c)' = Ahead(c) /\ Ahead(c) \in Nat /\ Ahead(prod)' = Ahead(prod)
      BY <2>1, TypeFacts, DistanceType DEF Ahead, IInv
    <3>2. Ahead(cachedCons) <= Ahead(c) /\ Ahead(c) < Ahead(prod)
      BY <2>3, <2>4, <3>1
    <3> QED
      BY <3>2 DEF Written
  <2> QED
    BY <2>2, <2>4, Zenon DEF Written
<1>7. CASE UNCHANGED vars
  <2>1. UNCHANGED <<Consumer, prod, cachedCons, stores, Descs>>
    BY <1>7 DEF vars, goVars, kernelVars
  <2>2. SeenSlots' = SeenSlots
    BY <2>1, SeenIs
  <2> QED
    BY <2>1, <2>2 DEF Written, Ahead
<1> QED
  BY <1>1, <1>2, <1>3, <1>4, <1>5, <1>6, <1>7, Zenon DEF Next

(* A store issued after a turn of the loop or after all of them leaves the *)
(* older ones ahead of Producer.                                           *)
LEMMA AppendAhead ==
  ASSUME IInv, SlotsAhead, NEW e, stores' = Append(stores, e),
         UNCHANGED <<Producer, Consumer>>, Ahead(prod) <= Ahead(prod)', Ahead(prod)' \in Nat,
         \A k : k = Len(stores) + 1 /\ e.loc # ProducerLoc =>
                  \E c \in Counter : StoredFor(k, c)'
  PROVE  SlotsAhead'
<1>1. stores \in Seq(StoreRecord) /\ Consumer \in Counter
  BY TypeFacts DEF IInv
<1>2. /\ Len(stores') = Len(stores) + 1 /\ Len(stores) \in Nat
      /\ stores'[Len(stores) + 1] = e
      /\ \A i \in 1 .. Len(stores) : stores'[i] = stores[i]
  BY <1>1
<1>3. ASSUME NEW i \in 1 .. Len(stores), stores'[i].loc # ProducerLoc
      PROVE  \E c \in Counter : StoredFor(i, c)'
  <2>1. stores'[i] = stores[i]
    BY <1>2
  <2>2. PICK c \in Counter : StoredFor(i, c)
    BY <1>3, <2>1 DEF SlotsAhead
  <2>3. /\ stores[i].loc = Slot(c) /\ Ahead(Producer) <= Ahead(c) /\ Ahead(c) < Ahead(prod)
        /\ \A j \in PendingProducer : j < i => Ahead(stores[j].val) <= Ahead(c)
    BY <2>2 DEF StoredFor
  <2>4. /\ Ahead(c)' = Ahead(c) /\ Ahead(c) \in Nat /\ Ahead(prod) \in Nat
        /\ Ahead(Producer)' = Ahead(Producer)
    BY <1>1, AheadFacts, DistanceType DEF Ahead
  <2>5. Ahead(Producer)' <= Ahead(c)' /\ Ahead(c)' < Ahead(prod)'
    BY <2>3, <2>4
  <2>6. ASSUME NEW j \in PendingProducer', j < i
        PROVE  Ahead(stores[j].val)' <= Ahead(c)'
    <3>1. j \in 1 .. Len(stores') /\ stores'[j].loc = ProducerLoc
      BY DEF PendingProducer, Mine, ProducerLoc
    <3>2. j \in 1 .. Len(stores) /\ stores'[j] = stores[j]
      BY <1>2, <2>6, <3>1
    <3>3. j \in PendingProducer
      BY <3>1, <3>2 DEF PendingProducer, Mine
    <3>4. Ahead(stores[j].val) <= Ahead(c)
      BY <2>3, <2>6, <3>3
    <3>5. Ahead(stores[j].val)' = Ahead(stores[j].val)
      BY <3>2 DEF Ahead
    <3> QED
      BY <2>4, <3>4, <3>5
  <2>7. stores'[i].loc = Slot(c)
    BY <2>1, <2>3
  <2>8. StoredFor(i, c)'
    BY <2>5, <2>6, <2>7, Zenon DEF StoredFor
  <2> QED
    BY <2>8
<1>4. ASSUME NEW i \in 1 .. Len(stores'), stores'[i].loc # ProducerLoc
      PROVE  \E c \in Counter : StoredFor(i, c)'
  <2>1. CASE i \in 1 .. Len(stores)
    BY <1>3, <1>4, <2>1
  <2>2. CASE i = Len(stores) + 1
    BY <1>2, <1>4, <2>2
  <2> QED
    BY <1>2, <2>1, <2>2
<1> QED
  BY <1>4, Zenon DEF SlotsAhead, ProducerLoc

(* In order, what is made visible is the oldest store of all: when it is a *)
(* value of Producer, every slot store that is left is for a later turn.   *)
LEMMA DrainAhead ==
  ASSUME StoresInOrder, IInv, SlotsAhead, NEW i, Drain(i)
  PROVE  SlotsAhead'
<1>1. stores \in Seq(StoreRecord) /\ Consumer \in Counter
  BY TypeFacts DEF IInv
<1>2. /\ i \in 1 .. Len(stores) /\ stores' = Without(stores, i)
      /\ UNCHANGED <<Consumer, prod>>
      /\ (stores[i].loc = ProducerLoc /\ Producer' = stores[i].val) \/ UNCHANGED Producer
  <2>1. /\ i \in 1 .. Len(stores) /\ stores' = Without(stores, i)
        /\ UNCHANGED <<Consumer, prod>>
    BY DrainFacts
  <2>2. (stores[i].loc = ProducerLoc /\ Producer' = stores[i].val) \/ UNCHANGED Producer
    BY DrainFacts
  <2> QED
    BY <2>1, <2>2
<1>3. i = 1
  BY DEF Drain, Drainable
<1>4. /\ Len(stores') = Len(stores) - 1 /\ Len(stores) \in Nat
      /\ \A j \in 1 .. Len(stores') :
           Passed(i, j) \in 1 .. Len(stores) /\ stores'[j] = stores[Passed(i, j)]
  BY <1>1, <1>2, WithoutFacts
<1>5. \A j \in 1 .. Len(stores') : Passed(i, j) = j + 1
  BY <1>3, <1>4 DEF Passed
<1>6. ASSUME NEW k \in 1 .. Len(stores'), stores'[k].loc # ProducerLoc
      PROVE  \E c \in Counter : StoredFor(k, c)'
  <2>1. k + 1 \in 1 .. Len(stores) /\ stores'[k] = stores[k + 1]
    BY <1>4, <1>5
  <2>2. PICK c \in Counter : StoredFor(k + 1, c)
    BY <1>6, <2>1 DEF SlotsAhead
  <2>3. /\ stores[k + 1].loc = Slot(c) /\ Ahead(Producer) <= Ahead(c) /\ Ahead(c) < Ahead(prod)
        /\ \A j \in PendingProducer : j < k + 1 => Ahead(stores[j].val) <= Ahead(c)
    BY <2>2 DEF StoredFor
  <2>4. Ahead(c)' = Ahead(c) /\ Ahead(prod)' = Ahead(prod)
    BY <1>2 DEF Ahead
  <2>5. Ahead(Producer)' <= Ahead(c)
    <3>1. CASE stores[i].loc = ProducerLoc /\ Producer' = stores[i].val
      <4>1. i \in PendingProducer /\ i < k + 1
        BY <1>2, <1>3, <3>1 DEF PendingProducer, Mine
      <4>2. Ahead(stores[i].val) <= Ahead(c)
        BY <2>3, <4>1
      <4>3. Ahead(Producer)' = Ahead(stores[i].val)
        BY <1>2, <3>1 DEF Ahead
      <4> QED
        BY <4>2, <4>3
    <3>2. CASE UNCHANGED Producer
      BY <1>2, <2>3, <3>2 DEF Ahead
    <3> QED
      BY <1>2, <3>1, <3>2
  <2>6. ASSUME NEW j \in PendingProducer', j < k
        PROVE  Ahead(stores[j].val)' <= Ahead(c)
    <3>1. j \in 1 .. Len(stores') /\ stores'[j].loc = ProducerLoc
      BY DEF PendingProducer, Mine, ProducerLoc
    <3>2. j + 1 \in 1 .. Len(stores) /\ stores'[j] = stores[j + 1] /\ j + 1 < k + 1
      BY <1>4, <1>5, <2>6, <3>1
    <3>3. j + 1 \in PendingProducer
      BY <3>1, <3>2 DEF PendingProducer, Mine
    <3>4. Ahead(stores[j + 1].val) <= Ahead(c)
      BY <2>3, <3>2, <3>3
    <3>5. Ahead(stores[j].val)' = Ahead(stores[j + 1].val)
      BY <1>2, <3>2 DEF Ahead
    <3> QED
      BY <3>4, <3>5
  <2>7. stores'[k].loc = Slot(c)
    BY <2>1, <2>3
  <2>8. StoredFor(k, c)'
    BY <2>3, <2>4, <2>5, <2>6, <2>7, Zenon DEF StoredFor
  <2> QED
    BY <2>8
<1> QED
  BY <1>6, Zenon DEF SlotsAhead, ProducerLoc

(* Pending slot stores stay ahead of Producer, with stores in order. *)
LEMMA SlotsAheadKept ==
  ASSUME StoresInOrder, IInv, SlotsAhead, [Next]_vars
  PROVE  SlotsAhead'
<1>1. ASSUME UNCHANGED <<Producer, Consumer, stores, prod>>
      PROVE  SlotsAhead'
  BY <1>1 DEF SlotsAhead, StoredFor, PendingProducer, Ahead, ProducerLoc
<1>2. ASSUME NEW descs \in Batch, Submit(descs) PROVE SlotsAhead'
  <2>1. UNCHANGED <<Producer, Consumer, stores, prod>>
    BY <1>2 DEF Submit, IInv, CallFits
  <2> QED
    BY <1>1, <2>1
<1>3. CASE StoreDesc
  <2>1. /\ prod \in Counter /\ Consumer \in Counter /\ todo \in Seq(Value)
        /\ stores \in Seq(StoreRecord) /\ todo # << >>
        /\ prod' = Succ(prod) /\ UNCHANGED <<Producer, Consumer>>
        /\ stores' = Append(stores, Store(Slot(prod), Head(todo)))
    BY <1>3, TypeFacts DEF StoreDesc, IInv
  <2>2. Ahead(prod)' = Ahead(prod) + 1 /\ Ahead(prod) \in Nat
    BY <1>3, StoreDescProd
  <2>3. ASSUME NEW k, k = Len(stores) + 1
        PROVE  \E c \in Counter : StoredFor(k, c)'
    <3>1. /\ stores'[k].loc = Slot(prod) /\ Len(stores') = k /\ Len(stores) \in Nat
          /\ \A j \in 1 .. Len(stores) : stores'[j] = stores[j]
      BY <2>1, <2>3 DEF Store
    <3>2. PICK c \in Counter : c = prod
      BY <2>1
    <3>3. Ahead(c)' = Ahead(prod) /\ Ahead(Producer)' = Ahead(Producer)
      BY <2>1, <3>2 DEF Ahead
    <3>4. Ahead(Producer)' <= Ahead(c)' /\ Ahead(c)' < Ahead(prod)'
      BY <2>2, <3>3, AheadFacts
    <3>5. ASSUME NEW j \in PendingProducer', j < k
          PROVE  Ahead(stores[j].val)' <= Ahead(c)'
      <4>1. j \in 1 .. Len(stores') /\ stores'[j].loc = ProducerLoc
        BY DEF PendingProducer, Mine, ProducerLoc
      <4>2. j \in 1 .. Len(stores) /\ stores'[j] = stores[j]
        BY <2>3, <3>1, <3>5, <4>1
      <4>3. j \in PendingProducer
        BY <4>1, <4>2 DEF PendingProducer, Mine
      <4>4. Ahead(stores[j].val) <= Ahead(prod)
        BY <4>3, PendingFacts
      <4>5. Ahead(stores[j].val)' = Ahead(stores[j].val)
        BY <2>1, <4>2 DEF Ahead
      <4> QED
        BY <3>3, <4>4, <4>5
    <3>6. StoredFor(k, c)'
      BY <3>1, <3>2, <3>4, <3>5, Zenon DEF StoredFor
    <3> QED
      BY <3>6
  <2>4. Ahead(prod) <= Ahead(prod)' /\ Ahead(prod)' \in Nat
    BY <2>2
  <2> QED
    BY <2>1, <2>3, <2>4, AppendAhead
<1>4. CASE StoreProducer
  <2>1. /\ stores' = Append(stores, Store(ProducerLoc, prod))
        /\ UNCHANGED <<Producer, Consumer, prod>>
    BY <1>4 DEF StoreProducer
  <2>2. Store(ProducerLoc, prod).loc = ProducerLoc
    BY DEF Store
  <2>3. Ahead(prod) <= Ahead(prod)' /\ Ahead(prod)' \in Nat
    BY <2>1, AheadFacts DEF Ahead
  <2> QED
    BY <2>1, <2>2, <2>3, AppendAhead
<1>5. ASSUME NEW i \in 1 .. MaxStores, Drain(i) PROVE SlotsAhead'
  BY <1>5, DrainAhead
<1>6. CASE KernelRefresh
  <2>1. Consumer' = cachedCons /\ UNCHANGED <<Producer, stores, prod, cachedCons>>
    BY <1>6 DEF KernelRefresh, goVars
  <2>2. /\ Producer \in Counter /\ prod \in Counter /\ Consumer \in Counter
    BY TypeFacts DEF IInv
  <2>3. /\ Ahead(cachedCons) \in Nat /\ Ahead(Producer) \in Nat /\ Ahead(prod) \in Nat
        /\ Ahead(cachedCons) <= Ahead(Producer) /\ Ahead(cachedCons) <= Ahead(prod)
    BY AheadFacts
  <2>4. ASSUME NEW c \in Counter, Ahead(Producer) <= Ahead(c)
        PROVE  /\ Distance(c, cachedCons) = Ahead(c) - Ahead(cachedCons)
               /\ Ahead(c) \in Nat
    <3>1. Ahead(c) \in Nat
      BY <2>2, DistanceType DEF Ahead
    <3>2. Ahead(cachedCons) <= Ahead(c)
      BY <2>3, <2>4, <3>1
    <3> QED
      BY <3>1, <3>2, AheadShift
  <2>5. /\ Ahead(Producer)' = Ahead(Producer) - Ahead(cachedCons)
        /\ Ahead(prod)' = Ahead(prod) - Ahead(cachedCons)
    <3>1. Ahead(Producer) <= Ahead(prod) /\ Ahead(Producer) <= Ahead(Producer)
      BY AheadFacts
    <3>2. /\ Distance(Producer, cachedCons) = Ahead(Producer) - Ahead(cachedCons)
          /\ Distance(prod, cachedCons) = Ahead(prod) - Ahead(cachedCons)
      BY <2>2, <2>4, <3>1
    <3>3. /\ Ahead(Producer)' = Distance(Producer, cachedCons)
          /\ Ahead(prod)' = Distance(prod, cachedCons)
      BY <2>1 DEF Ahead
    <3> QED
      BY <3>2, <3>3
  <2>6. ASSUME NEW i \in 1 .. Len(stores), NEW c \in Counter, StoredFor(i, c)
        PROVE  StoredFor(i, c)'
    <3>1. /\ stores[i].loc = Slot(c) /\ Ahead(Producer) <= Ahead(c) /\ Ahead(c) < Ahead(prod)
          /\ \A j \in PendingProducer : j < i => Ahead(stores[j].val) <= Ahead(c)
      BY <2>6 DEF StoredFor
    <3>2. Ahead(c)' = Ahead(c) - Ahead(cachedCons) /\ Ahead(c) \in Nat
      <4>1. Ahead(c)' = Distance(c, cachedCons)
        BY <2>1 DEF Ahead
      <4> QED
        BY <2>4, <3>1, <4>1
    <3>3. Ahead(Producer)' <= Ahead(c)' /\ Ahead(c)' < Ahead(prod)'
      BY <2>3, <2>5, <3>1, <3>2
    <3>4. ASSUME NEW j \in PendingProducer, j < i
          PROVE  Ahead(stores[j].val)' <= Ahead(c)'
      <4>1. /\ stores[j].val \in Counter /\ Ahead(Producer) <= Ahead(stores[j].val)
        BY PendingFacts
      <4>2. /\ Distance(stores[j].val, cachedCons) = Ahead(stores[j].val) - Ahead(cachedCons)
            /\ Ahead(stores[j].val) \in Nat
        BY <2>4, <4>1
      <4>3. Ahead(stores[j].val)' = Distance(stores[j].val, cachedCons)
        BY <2>1 DEF Ahead
      <4>4. Ahead(stores[j].val) <= Ahead(c)
        BY <3>1, <3>4
      <4> QED
        BY <2>3, <3>2, <4>2, <4>3, <4>4
    <3>5. PendingProducer' = PendingProducer /\ stores'[i].loc = Slot(c)
      BY <2>1, <3>1 DEF PendingProducer, ProducerLoc
    <3> QED
      BY <3>3, <3>4, <3>5, Zenon DEF StoredFor
  <2> QED
    BY <2>1, <2>6, Zenon DEF SlotsAhead, ProducerLoc
<1>7. CASE KernelConsume
  <2>1. UNCHANGED <<Producer, Consumer, stores, prod>>
    BY <1>7 DEF KernelConsume, goVars
  <2> QED
    BY <1>1, <2>1
<1>8. CASE UNCHANGED vars
  <2>1. UNCHANGED <<Producer, Consumer, stores, prod>>
    BY <1>8 DEF vars, goVars
  <2> QED
    BY <1>1, <2>1
<1> QED
  BY <1>2, <1>3, <1>4, <1>5, <1>6, <1>7, <1>8, Zenon DEF Next

LEMMA InitFInv == Init => FInv
<1> SUFFICES ASSUME Init PROVE FInv
  OBVIOUS
<1>1. IInv
  BY InitIInv
<1>2. 1 .. Len(stores) = {}
  BY DEF Init
<1>3. SlotsAhead
  BY <1>2, Zenon DEF SlotsAhead
<1>4. Written
  <2>1. Ahead(prod) = 0
    BY <1>1, TypeFacts, DistanceType DEF Init, IInv, Ahead
  <2>2. \A c \in Counter : Ahead(c) \in Nat
    BY <1>1, TypeFacts, DistanceType DEF IInv, Ahead
  <2>3. \A c \in Counter : ~(Ahead(c) < Ahead(prod))
    BY <2>1, <2>2
  <2> QED
    BY <2>3, Zenon DEF Written
<1> QED
  BY <1>1, <1>3, <1>4 DEF FInv

LEMMA NextFInv ==
  ASSUME StoresInOrder
  PROVE  FInv /\ [Next]_vars => FInv'
<1> SUFFICES ASSUME FInv, [Next]_vars PROVE FInv'
  OBVIOUS
<1>1. IInv /\ Written /\ SlotsAhead
  BY DEF FInv
<1>2. IInv'
  BY <1>1, NextIInv
<1>3. Written'
  BY <1>1, WrittenKept
<1>4. SlotsAhead'
  BY <1>1, SlotsAheadKept
<1> QED
  BY <1>2, <1>3, <1>4 DEF FInv

(* What the refinement rests on, where the processor keeps the order of    *)
(* stores.                                                                 *)
THEOREM OrderedInvariance ==
  ASSUME StoresInOrder
  PROVE  Spec => []FInv
<1>1. FInv /\ [Next]_vars => FInv'
  BY NextFInv
<1> QED
  BY <1>1, InitFInv, PTL DEF Spec

(* No store to a slot the kernel may consume is pending: the kernel finds  *)
(* in memory what the program reads back.                                  *)
LEMMA ConsumedIsSeen ==
  ASSUME FInv, KernelConsume
  PROVE  /\ Descs[Slot(cachedCons)] = SeenSlots[Slot(cachedCons)]
         /\ Descs[Slot(cachedCons)] \in Value
<1>1. IInv /\ Written /\ SlotsAhead
  BY DEF FInv
<1>2. cachedCons \in Counter /\ Consumer \in Counter
  BY <1>1, TypeFacts DEF IInv
<1>3. /\ Ahead(cachedCons) \in Nat /\ Ahead(Producer) \in Nat /\ Ahead(prod) \in Nat
      /\ Ahead(cachedCons) < Ahead(Producer) /\ Ahead(Producer) <= Ahead(prod)
      /\ Ahead(prod) <= Size
  <2>1. Ahead(cachedCons) < Ahead(cachedProd)
    BY <1>1, KernelConsumeIInv
  <2> QED
    BY <1>1, <2>1, AheadFacts, SizeFacts
<1>4. ASSUME NEW i \in 1 .. Len(stores)
      PROVE  stores[i].loc # Slot(cachedCons)
  <2>1. CASE stores[i].loc = ProducerLoc
    BY <1>2, <2>1, SlotType, SizeFacts DEF ProducerLoc, SlotIndex
  <2>2. CASE stores[i].loc # ProducerLoc
    <3>1. PICK c \in Counter : StoredFor(i, c)
      BY <1>1, <2>2 DEF SlotsAhead
    <3>2. stores[i].loc = Slot(c) /\ Ahead(Producer) <= Ahead(c) /\ Ahead(c) < Ahead(prod)
      BY <3>1 DEF StoredFor
    <3>3. Ahead(c) \in Nat
      BY <1>2, DistanceType DEF Ahead
    <3>4. Ahead(cachedCons) <= Ahead(c)
      BY <1>3, <3>2, <3>3
    <3>5. Distance(c, cachedCons) = Ahead(c) - Ahead(cachedCons)
      BY <1>1, <3>4, AheadShift
    <3>6. Distance(c, cachedCons) > 0 /\ Distance(c, cachedCons) < Size
      BY <1>3, <3>2, <3>3, <3>5, SizeFacts
    <3>7. Slot(cachedCons) # Slot(c)
      BY <1>2, <3>6, SlotsDiffer
    <3> QED
      BY <3>2, <3>7
  <2> QED
    BY <2>1, <2>2
<1>5. Slot(cachedCons) \in SlotIndex
  BY <1>2, SlotType
<1>6. SeenSlots[Slot(cachedCons)] = Descs[Slot(cachedCons)]
  BY <1>1, <1>4, <1>5, SeenSlotsFacts
<1>7. SeenSlots[Slot(cachedCons)] \in Value
  <2>1. Ahead(cachedCons) <= Ahead(cachedCons) /\ Ahead(cachedCons) < Ahead(prod)
    BY <1>3
  <2> QED
    BY <1>1, <1>2, <2>1 DEF Written
<1> QED
  BY <1>6, <1>7

(* Where the processor keeps the order of stores, the kernel never takes a *)
(* slot before the descriptor submitted in it is there, fence or not       *)
(* (xdp.go:397,409-414).                                                   *)
THEOREM ConsumesSubmittedInOrder ==
  ASSUME StoresInOrder
  PROVE  Spec => []ConsumesSubmitted
<1>1. Init => ConsumesSubmitted
  BY DEF Init, ConsumesSubmitted
<1>2. ConsumesSubmitted /\ FInv /\ [Next]_vars => ConsumesSubmitted'
  <2> SUFFICES ASSUME ConsumesSubmitted, FInv, [Next]_vars PROVE ConsumesSubmitted'
    OBVIOUS
  <2>1. CASE KernelConsume
    <3>1. taken' = << Descs[Slot(cachedCons)] >>
      BY <2>1 DEF KernelConsume
    <3>2. Descs[Slot(cachedCons)] \in Value
      BY <2>1, ConsumedIsSeen
    <3> QED
      BY <3>1, <3>2 DEF ConsumesSubmitted
  <2>2. CASE ~KernelConsume
    <3>1. UNCHANGED taken
      BY <2>2 DEF Next, Submit, StoreDesc, StoreProducer, Drain, KernelRefresh, kernelVars, vars
    <3> QED
      BY <3>1 DEF ConsumesSubmitted
  <2> QED
    BY <2>1, <2>2
<1> QED
  BY <1>1, <1>2, OrderedInvariance, PTL DEF Spec
-----------------------------------------------------------------------------
(* The window over the slots of this ring. *)
LEMMA DescsWindow ==
  ASSUME NEW s \in [SlotIndex -> Value \cup {NoDesc}], NEW c \in Counter, NEW p \in Counter
  PROVE  /\ Window(s, c, p) \in Seq(Value \cup {NoDesc})
         /\ Len(Window(s, c, p)) = Distance(p, c)
         /\ \A i \in 1 .. Distance(p, c) : Window(s, c, p)[i] = s[Slot(At(c, i - 1))]
BY WindowFacts

(* The position of the kernel comes before all that was submitted. *)
LEMMA QueueLength ==
  ASSUME IInv
  PROVE  /\ ProducerSeen \in Counter /\ cachedCons \in Counter /\ prod \in Counter
         /\ Distance(ProducerSeen, cachedCons) = Ahead(ProducerSeen) - Ahead(cachedCons)
         /\ Distance(prod, cachedCons) = Ahead(prod) - Ahead(cachedCons)
         /\ Distance(ProducerSeen, cachedCons) \in Nat /\ Distance(prod, cachedCons) \in Nat
         /\ Distance(ProducerSeen, cachedCons) <= Distance(prod, cachedCons)
         /\ Distance(prod, cachedCons) <= Size
<1>1. /\ prod \in Counter /\ cachedCons \in Counter /\ Consumer \in Counter
      /\ ProducerSeen \in Counter
  BY TypeFacts, SeenOrder DEF IInv
<1>2. /\ Ahead(cachedCons) \in Nat /\ Ahead(ProducerSeen) \in Nat /\ Ahead(prod) \in Nat
      /\ Ahead(cachedCons) <= Ahead(ProducerSeen) /\ Ahead(ProducerSeen) <= Ahead(prod)
      /\ Ahead(prod) <= Size
  <2>1. Ahead(ProducerSeen) \in Nat
    BY <1>1, DistanceType DEF Ahead
  <2>2. Ahead(Producer) <= Ahead(ProducerSeen) /\ Ahead(ProducerSeen) <= Ahead(prod)
    BY SeenOrder
  <2> QED
    BY <2>1, <2>2, AheadFacts
<1>3. Ahead(cachedCons) <= Ahead(prod)
  BY <1>2
<1>4. /\ Distance(ProducerSeen, cachedCons) = Ahead(ProducerSeen) - Ahead(cachedCons)
      /\ Distance(prod, cachedCons) = Ahead(prod) - Ahead(cachedCons)
  BY <1>1, <1>2, <1>3, AheadShift
<1> DEFINE n == Distance(ProducerSeen, cachedCons)
           m == Distance(prod, cachedCons)
<1>5. n = Ahead(ProducerSeen) - Ahead(cachedCons) /\ m = Ahead(prod) - Ahead(cachedCons)
  BY <1>4
<1> HIDE DEF n, m
<1>6. n \in Nat /\ m \in Nat /\ n <= m /\ m <= Size
  BY <1>2, <1>3, <1>5, SizeFacts
<1> QED
  BY <1>1, <1>4, <1>6 DEF n, m

(* A turn of the loop writes a slot outside the queue. *)
LEMMA FifoStoreDesc ==
  ASSUME FInv, StoreDesc
  PROVE  Queue' = Queue /\ taken' = taken
<1>1. IInv
  BY DEF FInv
<1>2. /\ prod \in Counter /\ cachedCons \in Counter /\ Consumer \in Counter
      /\ todo \in Seq(Value) /\ todo # << >> /\ UNCHANGED <<cachedCons, taken>>
  BY <1>1, TypeFacts DEF IInv, StoreDesc, kernelVars
<1>3. /\ ProducerSeen' = ProducerSeen /\ ProducerSeen \in Counter
      /\ \A s \in SlotIndex : s # Slot(prod) => SeenSlots'[s] = SeenSlots[s]
  BY <1>1, StoreDescSeen, SeenOrder
<1> DEFINE n == Distance(ProducerSeen, cachedCons)
           m == Distance(prod, cachedCons)
<1>4. n \in Nat /\ m \in Nat /\ n <= m /\ m < Size
  <2>1. n \in Nat /\ m \in Nat /\ n <= m /\ m = Ahead(prod) - Ahead(cachedCons)
    BY <1>1, QueueLength
  <2>2. Ahead(prod) < Size /\ Ahead(prod) \in Nat /\ Ahead(cachedCons) \in Nat
    BY <1>1, StoreDescProd, AheadFacts
  <2> HIDE DEF n, m
  <2> QED
    BY <2>1, <2>2, SizeFacts
<1>5. ASSUME NEW i \in 1 .. Distance(ProducerSeen, cachedCons)
      PROVE  SeenSlots'[Slot(At(cachedCons, i - 1))] = SeenSlots[Slot(At(cachedCons, i - 1))]
  <2>0. i \in 1 .. n
    OBVIOUS
  <2>1. i - 1 \in Nat /\ i - 1 < m /\ i - 1 < Modulus
    <3> HIDE DEF n, m
    <3> QED
      BY <1>4, <2>0, SizeFacts
  <2> DEFINE c == At(cachedCons, i - 1)
  <2>2. c \in Counter /\ Distance(c, cachedCons) = i - 1
    BY <1>2, <2>1, AtValue, AtDistance
  <2> HIDE DEF c
  <2>3. Distance(prod, c) = m - (i - 1)
    <3>1. Distance(c, cachedCons) <= Distance(prod, cachedCons)
      <4>1. i - 1 <= m
        <5> HIDE DEF m
        <5> QED
          BY <1>4, <2>1
      <4> QED
        BY <2>2, <4>1
    <3>2. Distance(prod, c) = Distance(prod, cachedCons) - Distance(c, cachedCons)
      BY <1>2, <2>2, <3>1, DistanceBetween
    <3> QED
      BY <2>2, <3>2
  <2>4. Distance(prod, c) > 0 /\ Distance(prod, c) < Size
    <3> HIDE DEF m
    <3> QED
      BY <1>4, <2>1, <2>3, SizeFacts
  <2>5. Slot(c) # Slot(prod) /\ Slot(c) \in SlotIndex
    BY <1>2, <2>2, <2>4, SlotsDiffer, SlotType
  <2>6. SeenSlots'[Slot(c)] = SeenSlots[Slot(c)]
    BY <1>3, <2>5
  <2> QED
    BY <2>6 DEF c
<1>6. Window(SeenSlots', cachedCons, ProducerSeen) = Window(SeenSlots, cachedCons, ProducerSeen)
  BY <1>2, <1>3, <1>5, WindowSame
<1>7. Queue' = Window(SeenSlots', cachedCons, ProducerSeen)
  BY <1>2, <1>3 DEF Queue, Window
<1> QED
  BY <1>2, <1>6, <1>7 DEF Queue

(* What a counter of the queue or of the call in progress holds. *)
LEMMA QueueWritten ==
  ASSUME IInv, Written, NEW i \in 1 .. Distance(prod, cachedCons)
  PROVE  SeenSlots[Slot(At(cachedCons, i - 1))] \in Value
<1>1. /\ cachedCons \in Counter /\ Consumer \in Counter /\ prod \in Counter
      /\ Ahead(cachedCons) \in Nat /\ Ahead(prod) \in Nat /\ Ahead(prod) <= Size
      /\ Ahead(cachedCons) <= Ahead(prod)
  <2>1. Ahead(cachedCons) <= Ahead(prod)
    BY AheadFacts
  <2> QED
    BY <2>1, AheadFacts, TypeFacts DEF IInv
<1>2. Distance(prod, cachedCons) = Ahead(prod) - Ahead(cachedCons)
  BY QueueLength
<1>3. i - 1 \in Nat /\ Ahead(cachedCons) + (i - 1) < Ahead(prod) /\ i - 1 < Modulus
      /\ Ahead(cachedCons) + (i - 1) < Modulus
  BY <1>1, <1>2, SizeFacts
<1> DEFINE c == At(cachedCons, i - 1)
<1>4. c \in Counter /\ Distance(c, cachedCons) = i - 1
  BY <1>1, <1>3, AtValue, AtDistance
<1> HIDE DEF c
<1>5. Distance(c, Consumer) = Distance(cachedCons, Consumer) + Distance(c, cachedCons)
  BY <1>1, <1>3, <1>4, DistanceSum DEF Ahead
<1>6. Ahead(c) = Ahead(cachedCons) + (i - 1)
  BY <1>4, <1>5 DEF Ahead
<1>7. Ahead(cachedCons) <= Ahead(c) /\ Ahead(c) < Ahead(prod)
  BY <1>1, <1>3, <1>6
<1>8. SeenSlots[Slot(c)] \in Value
  BY <1>4, <1>7 DEF Written
<1> QED
  BY <1>8 DEF c

(* The end of a call puts what it wrote at the end of the queue, in the    *)
(* order of the batch (xdp.go:409-414).                                    *)
LEMMA FifoStoreProducer ==
  ASSUME FInv, StoreProducer
  PROVE  Fifo!Put \/ UNCHANGED Fifo!vars
<1>1. IInv /\ Written
  BY DEF FInv
<1>2. ProducerSeen' = prod /\ SeenSlots' = SeenSlots /\ UNCHANGED <<cachedCons, taken>>
  BY <1>1, StoreProducerSeen DEF StoreProducer, kernelVars
<1> DEFINE f == Window(SeenSlots, cachedCons, ProducerSeen)
           g == Window(SeenSlots, cachedCons, prod)
           w == Distance(ProducerSeen, cachedCons)
           x == Distance(prod, cachedCons)
<1>3. /\ w \in Nat /\ x \in Nat /\ w <= x /\ x <= Size
      /\ ProducerSeen \in Counter /\ prod \in Counter /\ cachedCons \in Counter
  BY <1>1, QueueLength
<1>4. Queue = f /\ Queue' = g
  BY <1>2 DEF Queue
<1>5. SeenSlots \in [SlotIndex -> Value \cup {NoDesc}]
  BY <1>1, SeenSlotsFacts
<1>6. /\ f \in Seq(Value \cup {NoDesc}) /\ Len(f) = w
      /\ \A i \in 1 .. w : f[i] = SeenSlots[Slot(At(cachedCons, i - 1))]
  BY <1>3, <1>5, DescsWindow
<1>7. /\ g \in Seq(Value \cup {NoDesc}) /\ Len(g) = x
      /\ \A i \in 1 .. x : g[i] = SeenSlots[Slot(At(cachedCons, i - 1))]
  BY <1>3, <1>5, DescsWindow
<1>8. \A i \in 1 .. x : SeenSlots[Slot(At(cachedCons, i - 1))] \in Value
  BY <1>1, QueueWritten
<1>9. w = x => ProducerSeen = prod
  BY <1>3, AheadInjective
<1>10. CASE w = x
  <2>1. f = g
    BY <1>9, <1>10, Zenon
  <2> QED
    BY <1>2, <1>4, <2>1, Zenon DEF Fifo!vars
<1>11. CASE w # x
  <2> HIDE DEF f, g, w, x
  <2>1. Len(g) > Len(f) /\ Len(g) <= Size
    BY <1>3, <1>6, <1>7, <1>11, SizeFacts
  <2>2. SubSeq(g, 1, Len(f)) = f
    <3> DEFINE h == SubSeq(g, 1, Len(f))
    <3>1. h \in Seq(Value \cup {NoDesc}) /\ Len(h) = w /\ \A i \in 1 .. w : h[i] = g[i]
      BY <1>3, <1>6, <1>7
    <3>2. \A i \in 1 .. w : g[i] = f[i]
      BY <1>3, <1>6, <1>7
    <3> HIDE DEF h
    <3>3. h = f
      BY <1>6, <3>1, <3>2
    <3> QED
      BY <3>3 DEF h
  <2>3. \A i \in 1 .. Len(g) : g[i] \in Value
    BY <1>7, <1>8
  <2> QED
    BY <1>2, <1>4, <2>1, <2>2, <2>3 DEF Fifo!Put
<1> QED
  BY <1>10, <1>11

(* The kernel takes the oldest entry of the queue. *)
LEMMA FifoKernelConsume ==
  ASSUME FInv, KernelConsume
  PROVE  Fifo!Take
<1>1. IInv
  BY DEF FInv
<1>2. /\ taken' = << Descs[Slot(cachedCons)] >> /\ cachedCons' = Succ(cachedCons)
      /\ UNCHANGED <<Producer, Descs, stores, Consumer>>
  BY DEF KernelConsume
<1> DEFINE x == Descs[Slot(cachedCons)]
           d == Succ(cachedCons)
           f == Window(SeenSlots, cachedCons, ProducerSeen)
           g == Window(SeenSlots, d, ProducerSeen)
           w == Distance(ProducerSeen, cachedCons)
<1>3. x = SeenSlots[Slot(cachedCons)] /\ x \in Value
  BY ConsumedIsSeen
<1>4. SeenSlots' = SeenSlots /\ ProducerSeen' = ProducerSeen
  BY <1>2, SeenIs DEF ProducerLoc
<1>5. /\ ProducerSeen \in Counter /\ cachedCons \in Counter /\ Consumer \in Counter
      /\ w \in Nat /\ w <= Size /\ d \in Counter
  <2>1. w \in Nat /\ w <= Size
    <3> DEFINE m == Distance(prod, cachedCons)
    <3>1. w \in Nat /\ m \in Nat /\ w <= m /\ m <= Size
      BY <1>1, QueueLength
    <3> HIDE DEF w, m
    <3> QED
      BY <3>1, SizeFacts
  <2> QED
    BY <1>1, <2>1, QueueLength, SuccValue, TypeFacts DEF IInv
<1>6. w > 0
  <2>1. Ahead(cachedCons) < Ahead(ProducerSeen)
    <3>1. Ahead(cachedCons) < Ahead(cachedProd)
      BY <1>1, KernelConsumeIInv
    <3>2. Ahead(Producer) <= Ahead(ProducerSeen) /\ Ahead(ProducerSeen) \in Nat
      BY <1>1, <1>5, SeenOrder, DistanceType DEF Ahead
    <3> QED
      BY <1>1, <3>1, <3>2, AheadFacts
  <2>2. w = Ahead(ProducerSeen) - Ahead(cachedCons)
    BY <1>1, QueueLength
  <2>3. Ahead(cachedCons) \in Nat /\ Ahead(ProducerSeen) \in Nat
    BY <1>5, DistanceType DEF Ahead
  <2> HIDE DEF w
  <2> QED
    BY <2>1, <2>2, <2>3
<1>7. Distance(d, cachedCons) = 1 /\ d = At(cachedCons, 1)
  <2>1. Distance(cachedCons, cachedCons) = 0 /\ 1 < Modulus
    BY <1>5, DistanceType, SizeFacts
  <2>2. Distance(d, cachedCons) = 1
    BY <1>5, <2>1, DistanceSucc
  <2>3. d = At(cachedCons, 1)
    BY Zenon DEF Succ, At
  <2> QED
    BY <2>2, <2>3
<1>8. Distance(ProducerSeen, d) = w - 1
  <2>1. Distance(d, cachedCons) <= w
    <3> HIDE DEF w
    <3> QED
      BY <1>5, <1>6, <1>7
  <2> QED
    BY <1>5, <1>7, <2>1, DistanceBetween
<1>9. SeenSlots \in [SlotIndex -> Value \cup {NoDesc}]
  BY <1>1, SeenSlotsFacts
<1>10. /\ f \in Seq(Value \cup {NoDesc}) /\ Len(f) = w
       /\ \A i \in 1 .. w : f[i] = SeenSlots[Slot(At(cachedCons, i - 1))]
  BY <1>5, <1>9, DescsWindow
<1>11. /\ g \in Seq(Value \cup {NoDesc}) /\ Len(g) = w - 1
       /\ \A i \in 1 .. w - 1 : g[i] = SeenSlots[Slot(At(d, i - 1))]
  <2> HIDE DEF d
  <2>1. /\ g \in Seq(Value \cup {NoDesc}) /\ Len(g) = Distance(ProducerSeen, d)
        /\ \A i \in 1 .. Distance(ProducerSeen, d) : g[i] = SeenSlots[Slot(At(d, i - 1))]
    BY <1>5, <1>9, DescsWindow
  <2> QED
    BY <1>8, <2>1, Zenon
<1>12. Queue = f /\ Queue' = g
  BY <1>2, <1>4 DEF Queue
<1>13. f[1] = x
  <2>1. At(cachedCons, 0) = cachedCons
    BY <1>5, AtValue, SizeFacts DEF Counter
  <2>2. 1 \in 1 .. w /\ 1 - 1 = 0
    <3> HIDE DEF w
    <3> QED
      BY <1>5, <1>6
  <2>3. f[1] = SeenSlots[Slot(At(cachedCons, 1 - 1))]
    <3> HIDE DEF w, f
    <3> QED
      BY <1>10, <2>2
  <2> QED
    BY <1>3, <2>1, <2>2, <2>3
<1> HIDE DEF f, g, w, d, x
<1>14. ASSUME NEW i \in 1 .. w - 1
       PROVE  g[i] = f[i + 1]
  <2>1. i + 1 \in 1 .. w /\ i - 1 \in Nat /\ (i + 1) - 1 = 1 + (i - 1) /\ 1 + (i - 1) < Modulus
    BY <1>5, SizeFacts
  <2>2. At(At(cachedCons, 1), i - 1) = At(cachedCons, 1 + (i - 1))
    BY <1>5, <2>1, AtAt
  <2>3. At(d, i - 1) = At(cachedCons, (i + 1) - 1)
    BY <1>7, <2>1, <2>2, Zenon
  <2>4. f[i + 1] = SeenSlots[Slot(At(cachedCons, (i + 1) - 1))]
    BY <1>10, <2>1
  <2> QED
    BY <1>11, <2>3, <2>4
<1>15. f = << x >> \o g
  <2> DEFINE h == << x >> \o g
  <2>1. << x >> \in Seq(Value \cup {NoDesc}) /\ Len(<< x >>) = 1 /\ << x >>[1] = x
    BY <1>3
  <2>2. /\ h \in Seq(Value \cup {NoDesc}) /\ Len(h) = Len(<< x >>) + Len(g)
        /\ \A i \in 1 .. Len(<< x >>) + Len(g) :
             h[i] = IF i <= Len(<< x >>) THEN << x >>[i] ELSE g[i - Len(<< x >>)]
    BY <1>11, <2>1, ConcatProperties, Zenon
  <2>3. Len(<< x >>) + Len(g) = w
    BY <1>5, <1>11, <2>1
  <2> HIDE DEF h
  <2>4. ASSUME NEW i \in 1 .. w
        PROVE  h[i] = f[i]
    <3>1. CASE i = 1
      BY <1>13, <2>1, <2>2, <2>3, <3>1
    <3>2. CASE i # 1
      <4>1. i - 1 \in 1 .. w - 1 /\ (i - 1) + 1 = i /\ ~(i <= 1)
        BY <1>5, <3>2
      <4>2. h[i] = g[i - 1]
        BY <2>1, <2>2, <2>3, <4>1
      <4>3. g[i - 1] = f[(i - 1) + 1]
        BY <1>14, <4>1
      <4> QED
        BY <4>1, <4>2, <4>3
    <3> QED
      BY <3>1, <3>2
  <2>5. h = f
    BY <1>10, <2>2, <2>3, <2>4
  <2> QED
    BY <2>5 DEF h
<1>16. taken' = << x >> /\ Len(<< x >>) <= Len(f)
  BY <1>2, <1>5, <1>6, <1>10 DEF x
<1> QED
  BY <1>12, <1>15, <1>16, Zenon DEF Fifo!Take

(* The ring starts as the empty queue. *)
LEMMA FifoInit == Init => Fifo!Init
<1> SUFFICES ASSUME Init PROVE Fifo!Init
  OBVIOUS
<1>1. IInv
  BY InitIInv
<1>2. /\ SeenSlots \in [SlotIndex -> Value \cup {NoDesc}]
      /\ ProducerSeen \in Counter /\ cachedCons \in Counter
  BY <1>1, SeenSlotsFacts, QueueLength
<1>3. ProducerSeen = cachedCons
  BY <1>1 DEF IInv, CallFits, Init
<1> DEFINE f == Window(SeenSlots, cachedCons, ProducerSeen)
<1>4. f \in Seq(Value \cup {NoDesc}) /\ Len(f) = 0
  BY <1>2, <1>3, DescsWindow, DistanceType
<1> HIDE DEF f
<1>5. f = << >>
  BY <1>4
<1> QED
  BY <1>5 DEF Init, Fifo!Init, Queue, f

(* Every step is one of the queue, or nothing to it. *)
LEMMA FifoNext ==
  ASSUME FInv, [Next]_vars
  PROVE  [Fifo!Put \/ Fifo!Take]_(Fifo!vars)
<1>0. IInv
  BY DEF FInv
<1>1. ASSUME UNCHANGED <<Producer, Descs, stores, cachedCons, taken>>
      PROVE  UNCHANGED Fifo!vars
  <2>1. ProducerSeen' = ProducerSeen /\ SeenSlots' = SeenSlots
    BY <1>1, SeenIs DEF ProducerLoc
  <2> QED
    BY <1>1, <2>1 DEF Fifo!vars, Queue
<1>2. ASSUME NEW descs \in Batch, Submit(descs)
      PROVE  UNCHANGED Fifo!vars
  BY <1>1, <1>2 DEF Submit, kernelVars
<1>3. CASE StoreDesc
  BY <1>3, FifoStoreDesc DEF Fifo!vars
<1>4. CASE StoreProducer
  BY <1>4, FifoStoreProducer
<1>5. ASSUME NEW i \in 1 .. MaxStores, Drain(i)
      PROVE  UNCHANGED Fifo!vars
  <2>1. ProducerSeen' = ProducerSeen /\ SeenSlots' = SeenSlots /\ UNCHANGED <<cachedCons, taken>>
    BY <1>0, <1>5, DrainSeen DEF Drain, kernelVars
  <2> QED
    BY <2>1 DEF Fifo!vars, Queue
<1>6. CASE KernelRefresh
  BY <1>1, <1>6 DEF KernelRefresh
<1>7. CASE KernelConsume
  BY <1>7, FifoKernelConsume
<1>8. CASE UNCHANGED vars
  BY <1>1, <1>8 DEF vars, kernelVars
<1> QED
  BY <1>2, <1>3, <1>4, <1>5, <1>6, <1>7, <1>8, Zenon DEF Next

(* Where the processor keeps the order of stores, the Fill and Tx rings    *)
(* are bounded queues between Fill, Transmit and the kernel, for rings of  *)
(* any size, counters of any width and a store buffer of any length        *)
(* (xdp.go:401-419,449-464): no descriptor is lost, taken twice, out of    *)
(* order, before it is there or after its slot was overwritten.            *)
THEOREM ImplementsFifoInOrder ==
  ASSUME StoresInOrder
  PROVE  Spec => ImplementsFifo
<1>1. Init => FInv /\ Fifo!Init
  BY InitFInv, FifoInit
<1>2. FInv /\ [Next]_vars => FInv'
  BY NextFInv
<1>3. FInv /\ [Next]_vars => [Fifo!Put \/ Fifo!Take]_(Fifo!vars)
  BY FifoNext
<1> QED
  BY <1>1, <1>2, <1>3, PTL DEF Spec, ImplementsFifo, Fifo!Spec
===========================================================================
