-------------------------- MODULE RingArithProofs --------------------------
(***************************************************************************)
(* Facts on the arithmetic of the rings, for rings of any size and         *)
(* counters of any width that holds two of them: what the unsigned         *)
(* operations of xdp.go compute, without the modulus.                      *)
(***************************************************************************)
EXTENDS RingArith, TLAPS

(* The ring is smaller than the circle. *)
LEMMA SizeFacts ==
  Size \in Nat /\ Size > 0 /\ Modulus \in Nat /\ Size + Size <= Modulus /\ Size < Modulus
<1>1. Size \in Nat /\ Size > 0 /\ Modulus \in Nat /\ 2 * Size <= Modulus
  BY SizeAssumption, ModulusAssumption
<1> QED
  BY <1>1

(* Distances around the circle, without the modulus (xdp.go:657-703). *)
LEMMA DistanceValue ==
  ASSUME NEW a \in Counter, NEW b \in Counter
  PROVE  Distance(a, b) = IF b <= a THEN a - b ELSE (a - b) + Modulus
<1>1. Modulus \in Nat /\ Modulus > 0
  BY SizeAssumption, ModulusAssumption
<1>2. a \in Nat /\ b \in Nat /\ a < Modulus /\ b < Modulus
  BY <1>1 DEF Counter
<1>3. \A x \in Nat, m \in Nat : x < m => x % m = x
  OBVIOUS
<1>4. \A x \in Int, m \in Nat : x < 0 /\ 0 <= x + m => x % m = x + m
  OBVIOUS
<1>5. CASE b <= a
  <2>1. a - b \in Nat /\ a - b < Modulus
    BY <1>1, <1>2, <1>5
  <2> QED
    BY <1>1, <1>3, <1>5, <2>1 DEF Distance
<1>6. CASE ~(b <= a)
  <2>1. a - b \in Int /\ a - b < 0 /\ 0 <= (a - b) + Modulus
    BY <1>1, <1>2, <1>6
  <2> QED
    BY <1>1, <1>4, <1>6, <2>1 DEF Distance
<1> QED
  BY <1>5, <1>6

(* A counter goes on to the next number, or to 0. *)
LEMMA SuccValue ==
  ASSUME NEW a \in Counter
  PROVE  Succ(a) \in Counter /\ Succ(a) = IF a + 1 < Modulus THEN a + 1 ELSE 0
<1>1. Modulus \in Nat /\ Modulus > 0
  BY SizeAssumption, ModulusAssumption
<1>2. a \in Nat /\ a < Modulus
  BY <1>1 DEF Counter
<1>3. \A x \in Nat, m \in Nat : x < m => x % m = x
  OBVIOUS
<1>4. \A m \in Nat \ {0} : m % m = 0
  OBVIOUS
<1>5. Succ(a) = IF a + 1 < Modulus THEN a + 1 ELSE 0
  <2>1. CASE a + 1 < Modulus
    BY <1>1, <1>2, <1>3, <2>1 DEF Succ
  <2>2. CASE ~(a + 1 < Modulus)
    <3>1. a + 1 = Modulus
      BY <1>1, <1>2, <2>2
    <3> QED
      BY <1>1, <1>4, <2>2, <3>1 DEF Succ
  <2> QED
    BY <2>1, <2>2
<1> QED
  BY <1>1, <1>2, <1>5 DEF Counter

(* A distance is a number of steps less than once around. *)
LEMMA DistanceType ==
  ASSUME NEW a \in Counter, NEW b \in Counter
  PROVE  Distance(a, b) \in Nat /\ Distance(a, b) < Modulus /\ Distance(a, a) = 0
<1>1. Modulus \in Nat /\ a \in Nat /\ b \in Nat /\ a < Modulus /\ b < Modulus
  BY ModulusAssumption DEF Counter
<1> QED
  BY <1>1, DistanceValue

(* Distances add up along the circle. *)
LEMMA DistanceBetween ==
  ASSUME NEW a \in Counter, NEW b \in Counter, NEW c \in Counter,
         Distance(b, a) <= Distance(c, a)
  PROVE  Distance(c, b) = Distance(c, a) - Distance(b, a)
<1>1. Modulus \in Nat /\ a \in Nat /\ b \in Nat /\ c \in Nat
      /\ a < Modulus /\ b < Modulus /\ c < Modulus
  BY ModulusAssumption DEF Counter
<1> QED
  BY <1>1, DistanceValue

(* ... as long as they stay within once around. *)
LEMMA DistanceSum ==
  ASSUME NEW a \in Counter, NEW b \in Counter, NEW c \in Counter,
         Distance(b, a) + Distance(c, b) < Modulus
  PROVE  Distance(c, a) = Distance(b, a) + Distance(c, b)
<1>1. Modulus \in Nat /\ a \in Nat /\ b \in Nat /\ c \in Nat
      /\ a < Modulus /\ b < Modulus /\ c < Modulus
  BY ModulusAssumption DEF Counter
<1> QED
  BY <1>1, DistanceValue

(* A step takes a counter one further. *)
LEMMA DistanceSucc ==
  ASSUME NEW a \in Counter, NEW b \in Counter, Distance(a, b) + 1 < Modulus
  PROVE  Distance(Succ(a), b) = Distance(a, b) + 1
<1>1. Modulus \in Nat /\ a \in Nat /\ b \in Nat /\ a < Modulus /\ b < Modulus
  BY ModulusAssumption DEF Counter
<1>2. Succ(a) \in Counter /\ Succ(a) = IF a + 1 < Modulus THEN a + 1 ELSE 0
  BY SuccValue
<1> QED
  BY <1>1, <1>2, DistanceValue

(* A slot selected by a counter exists. *)
LEMMA SlotType ==
  ASSUME NEW c \in Counter
  PROVE  Slot(c) \in SlotIndex
<1>1. c \in Nat /\ Size \in Nat \ {0}
  BY SizeFacts DEF Counter
<1>2. \A x \in Nat, m \in Nat \ {0} : x % m \in Nat /\ x % m < m
  OBVIOUS
<1>3. c % Size \in Nat /\ c % Size < Size
  BY <1>1, <1>2
<1> QED
  BY <1>1, <1>3 DEF Slot, SlotIndex
-----------------------------------------------------------------------------
(* The counter k steps on from c. *)
At(c, k) == (c + k) % Modulus

(* Counters and steps, without the modulus. *)
LEMMA AtValue ==
  ASSUME NEW c \in Counter, NEW k \in Nat, k < Modulus
  PROVE  /\ At(c, k) = IF c + k < Modulus THEN c + k ELSE (c + k) - Modulus
         /\ At(c, k) \in Counter
<1>1. Modulus \in Nat /\ Modulus > 0 /\ c \in Nat /\ c < Modulus
  BY SizeFacts DEF Counter
<1>2. \A x \in Nat, m \in Nat : x < m => x % m = x
  OBVIOUS
<1>3. \A x \in Nat, m \in Nat : m <= x /\ x < m + m => x % m = x - m
  OBVIOUS
<1>4. At(c, k) = IF c + k < Modulus THEN c + k ELSE (c + k) - Modulus
  <2>1. c + k \in Nat /\ c + k < Modulus + Modulus
    BY <1>1
  <2> QED
    BY <1>1, <1>2, <1>3, <2>1 DEF At
<1> QED
  BY <1>1, <1>4 DEF Counter

(* Taking k steps covers a distance of k. *)
LEMMA AtDistance ==
  ASSUME NEW c \in Counter, NEW k \in Nat, k < Modulus
  PROVE  Distance(At(c, k), c) = k
<1>1. Modulus \in Nat /\ c \in Nat /\ c < Modulus
  BY SizeFacts DEF Counter
<1> QED
  BY <1>1, AtValue, DistanceValue

(* ... and arrives where the distance was measured to. *)
LEMMA AtArrives ==
  ASSUME NEW c \in Counter, NEW d \in Counter
  PROVE  At(c, Distance(d, c)) = d
<1>1. Modulus \in Nat /\ c \in Nat /\ d \in Nat /\ c < Modulus /\ d < Modulus
  BY SizeFacts DEF Counter
<1> DEFINE k == Distance(d, c)
<1>2. k \in Nat /\ k < Modulus /\ k = IF c <= d THEN d - c ELSE (d - c) + Modulus
  BY DistanceValue, DistanceType
<1> HIDE DEF k
<1>3. At(c, k) = IF c + k < Modulus THEN c + k ELSE (c + k) - Modulus
  BY <1>2, AtValue
<1>4. At(c, k) = d
  BY <1>1, <1>2, <1>3
<1> QED
  BY <1>4 DEF k

(* Steps add up. *)
LEMMA AtAt ==
  ASSUME NEW c \in Counter, NEW j \in Nat, NEW k \in Nat, j + k < Modulus
  PROVE  At(At(c, j), k) = At(c, j + k)
<1>1. Modulus \in Nat /\ c \in Nat /\ c < Modulus
  BY SizeFacts DEF Counter
<1>2. At(c, j) \in Counter /\ At(c, j) = IF c + j < Modulus THEN c + j ELSE (c + j) - Modulus
  BY <1>1, AtValue
<1>3. At(c, j + k) = IF c + (j + k) < Modulus THEN c + (j + k) ELSE (c + (j + k)) - Modulus
  BY <1>1, AtValue
<1> DEFINE b == At(c, j)
<1>4. b \in Counter
  BY <1>2
<1>5. At(b, k) = IF b + k < Modulus THEN b + k ELSE (b + k) - Modulus
  <2> HIDE DEF b
  <2> QED
    BY <1>1, <1>4, AtValue
<1> QED
  BY <1>1, <1>2, <1>3, <1>5

(* Counters less than a ring apart select different slots: this is where   *)
(* the size has to divide the range of the counters, as powers of two do.  *)
LEMMA SlotsDiffer ==
  ASSUME NEW a \in Counter, NEW b \in Counter, Distance(b, a) > 0, Distance(b, a) < Size
  PROVE  Slot(a) # Slot(b)
<1>1. /\ Size \in Nat /\ Size > 0 /\ Modulus \in Nat /\ Modulus % Size = 0
      /\ a \in Nat /\ b \in Nat /\ a < Modulus /\ b < Modulus
  BY SizeFacts, ModulusAssumption DEF Counter
<1>2. \A x \in Nat, m \in Nat : m > 0 => x = m * (x \div m) + (x % m) /\ x \div m \in Int
  OBVIOUS
<1> DEFINE qa == a \div Size
           qb == b \div Size
           qm == Modulus \div Size
<1>3. /\ a = Size * qa + Slot(a) /\ b = Size * qb + Slot(b) /\ Modulus = Size * qm
      /\ qa \in Int /\ qb \in Int /\ qm \in Int
  <2>1. a = Size * qa + (a % Size) /\ qa \in Int
    BY <1>1, <1>2
  <2>2. b = Size * qb + (b % Size) /\ qb \in Int
    BY <1>1, <1>2
  <2>3. Modulus = Size * qm + (Modulus % Size) /\ qm \in Int
    BY <1>1, <1>2
  <2>4. Modulus = Size * qm
    BY <1>1, <2>3
  <2> QED
    BY <2>1, <2>2, <2>3, <2>4, Zenon DEF Slot
<1>4. Slot(a) \in Nat /\ Slot(b) \in Nat
  BY SlotType, SizeFacts DEF SlotIndex
<1>5. \A m \in Nat, k \in Int : ~(0 < m * k /\ m * k < m)
  OBVIOUS
<1>6. Distance(b, a) = b - a \/ Distance(b, a) = (b - a) + Modulus
  BY DistanceValue
<1> HIDE DEF qa, qb, qm
<1>7. ASSUME Slot(a) = Slot(b) PROVE FALSE
  <2>1. b - a = Size * (qb - qa) /\ qb - qa \in Int
    BY <1>1, <1>3, <1>4, <1>7
  <2>2. (b - a) + Modulus = Size * (qb - qa + qm) /\ qb - qa + qm \in Int
    BY <1>1, <1>3, <2>1
  <2> QED
    BY <1>1, <1>5, <1>6, <2>1, <2>2
<1> QED
  BY <1>7

(* What a window holds: the slots of the counters from c up to p. *)
LEMMA WindowFacts ==
  ASSUME NEW V, NEW s \in [SlotIndex -> V], NEW c \in Counter, NEW p \in Counter
  PROVE  /\ Window(s, c, p) \in Seq(V)
         /\ Len(Window(s, c, p)) = Distance(p, c)
         /\ \A i \in 1 .. Distance(p, c) : Window(s, c, p)[i] = s[Slot(At(c, i - 1))]
<1> DEFINE n == Distance(p, c)
<1>1. n \in Nat /\ n < Modulus
  BY DistanceType
<1>2. c \in Nat
  BY SizeFacts DEF Counter
<1> HIDE DEF n
<1>3. ASSUME NEW i \in 1 .. n
      PROVE  /\ s[Slot((c + i - 1) % Modulus)] = s[Slot(At(c, i - 1))]
             /\ s[Slot(At(c, i - 1))] \in V
  <2>1. c + i - 1 = c + (i - 1) /\ i - 1 \in Nat /\ i - 1 < Modulus
    BY <1>1, <1>2, SizeFacts
  <2>2. At(c, i - 1) \in Counter
    BY <2>1, AtValue
  <2>3. s[Slot(At(c, i - 1))] \in V
    BY <2>2, SlotType
  <2> QED
    BY <2>1, <2>3, Zenon DEF At
<1>4. Window(s, c, p) = [i \in 1 .. n |-> s[Slot((c + i - 1) % Modulus)]]
  BY Zenon DEF Window, n
<1>5. Window(s, c, p) \in [1 .. n -> V]
  BY <1>3, <1>4
<1>6. Window(s, c, p) \in Seq(V) /\ Len(Window(s, c, p)) = n
  BY <1>1, <1>5
<1>7. \A i \in 1 .. n : Window(s, c, p)[i] = s[Slot(At(c, i - 1))]
  BY <1>3, <1>4
<1> QED
  BY <1>6, <1>7 DEF n

(* The same descriptors in the same places make the same window. *)
LEMMA WindowSame ==
  ASSUME NEW s, NEW t, NEW c \in Counter, NEW p \in Counter,
         \A i \in 1 .. Distance(p, c) : s[Slot(At(c, i - 1))] = t[Slot(At(c, i - 1))]
  PROVE  Window(s, c, p) = Window(t, c, p)
<1> DEFINE n == Distance(p, c)
<1>1. \A i \in 1 .. n : s[Slot(At(c, i - 1))] = t[Slot(At(c, i - 1))]
  OBVIOUS
<1>2. n \in Nat /\ c \in Nat
  BY DistanceType, SizeFacts DEF Counter
<1> HIDE DEF n
<1>3. ASSUME NEW i \in 1 .. n
      PROVE  (c + i - 1) % Modulus = At(c, i - 1)
  <2>1. c + i - 1 = c + (i - 1)
    BY <1>2
  <2> QED
    BY <2>1, Zenon DEF At
<1>4. \A i \in 1 .. n : s[Slot((c + i - 1) % Modulus)] = t[Slot((c + i - 1) % Modulus)]
  BY <1>1, <1>3, Zenon
<1>5. [i \in 1 .. n |-> s[Slot((c + i - 1) % Modulus)]]
        = [i \in 1 .. n |-> t[Slot((c + i - 1) % Modulus)]]
  BY <1>4, Zenon
<1> QED
  BY <1>5, Zenon DEF Window, n
=============================================================================
