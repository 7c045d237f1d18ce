-------------------------- MODULE XdpSocketProofs --------------------------
(***************************************************************************)
(* Proofs about XdpSocket and about the two modules that build on it,      *)
(* SocketPanics and DumpFrames, for any number of frames, any frame size   *)
(* and rings of any size.  They follow in this order and share one         *)
(* inductive invariant.                                                    *)
(***************************************************************************)
EXTENDS SocketPanics, DumpFrames, SequenceTheorems, FunctionTheorems, FiniteSetTheorems, TLAPS

Distinct(s) ==
  \A i, j \in 1 .. Len(s) : FrameOf(s[i]) = FrameOf(s[j]) => i = j

Apart(s, t) == FramesIn(s) \cap FramesIn(t) = {}

(* The frames of each direction stay in their part of the UMEM. *)
SidesKept ==
  /\ FramesIn(fillRing) \subseteq Searched(TRUE)
  /\ FramesIn(kernelRx) \subseteq Searched(TRUE)
  /\ FramesIn(rxRing) \subseteq Searched(TRUE)
  /\ FramesIn(rxDescs) \subseteq Searched(TRUE)
  /\ FramesIn(txRing) \subseteq Searched(FALSE)
  /\ FramesIn(kernelTx) \subseteq Searched(FALSE)
  /\ FramesIn(completionRing) \subseteq Searched(FALSE)

(* No frame twice among the places of the receive direction. *)
RxApart ==
  /\ Distinct(fillRing) /\ Distinct(kernelRx) /\ Distinct(rxRing) /\ Distinct(rxDescs)
  /\ Apart(fillRing, kernelRx) /\ Apart(fillRing, rxRing) /\ Apart(fillRing, rxDescs)
  /\ Apart(kernelRx, rxRing) /\ Apart(kernelRx, rxDescs)
  /\ Apart(rxRing, rxDescs)

(* No frame twice among the places of the transmit direction. *)
TxApart ==
  /\ Distinct(txRing) /\ Distinct(kernelTx) /\ Distinct(completionRing)
  /\ Apart(txRing, kernelTx) /\ Apart(txRing, completionRing)
  /\ Apart(kernelTx, completionRing)

(* What a call in progress still relies on, although the kernel ran since. *)
CallConsistent ==
  /\ call = "Fill" =>
       /\ Apart(args, rxDescs)
       /\ FramesIn(args) \subseteq Searched(TRUE)
       /\ Distinct(args)
       /\ Apart(args, fillRing) /\ Apart(args, kernelRx) /\ Apart(args, rxRing)
  /\ call = "Transmit" =>
       /\ FramesIn(args) \subseteq Searched(FALSE)
       /\ Distinct(args)
       /\ Apart(args, txRing) /\ Apart(args, kernelTx) /\ Apart(args, completionRing)
  /\ call \notin {"Fill", "Transmit"} => args = << >>
  /\ call = "Receive" => num <= Len(rxRing) /\ rxDescs = << >>
  /\ call = "Complete" => num <= Len(completionRing)

(* The kernel keeps the start address of a receive buffer. *)
BuffersAligned ==
  \A i \in 1 .. Len(kernelRx) : kernelRx[i] = AddrOf(FrameOf(kernelRx[i]))

IInv ==
  /\ TypeOK
  /\ CountersExact
  /\ FreeListsExact
  /\ SidesKept
  /\ RxApart
  /\ TxApart
  /\ CallConsistent
  /\ RingsFit
  /\ BuffersAligned
-----------------------------------------------------------------------------
(* An address anywhere in a frame belongs to that frame.  GetDescs         *)
(* multiplies by the frame size (xdp.go:566) and the free lists divide by  *)
(* it (xdp.go:411,435,459,641).                                            *)
LEMMA FrameOfAddr ==
  ASSUME NEW f \in Frame
  PROVE  /\ AddrOf(f) \in Addr /\ FrameOf(AddrOf(f)) = f
         /\ AddrOf(f) + Headroom \in Addr /\ FrameOf(AddrOf(f) + Headroom) = f
<1>1. AddrOf(f) \in Addr /\ AddrOf(f) + Headroom \in Addr
  BY OptionsAssumption, HeadroomAssumption DEF Frame, Addr, AddrOf
<1>2. FrameOf(AddrOf(f)) = f
  BY OptionsAssumption DEF Frame, AddrOf, FrameOf
<1>3. FrameOf(AddrOf(f) + Headroom) = f
  BY OptionsAssumption, HeadroomAssumption DEF Frame, AddrOf, FrameOf
<1> QED BY <1>1, <1>2, <1>3

(* Every address of the UMEM belongs to a frame: no free list is indexed   *)
(* out of range by a descriptor (xdp.go:411,435,459,641).                  *)
LEMMA FrameOfType ==
  ASSUME NEW a \in Addr
  PROVE  FrameOf(a) \in Frame
BY OptionsAssumption DEF Frame, Addr, FrameOf

(* The frames of a list of addresses are frames of the UMEM (xdp.go:411).  *)
LEMMA FramesInType ==
  ASSUME NEW s \in Seq(Addr)
  PROVE  FramesIn(s) \subseteq Frame
BY FrameOfType DEF FramesIn

(* An empty ring holds no frame. *)
LEMMA EmptyFrames ==
  /\ << >> \in Seq(Addr) /\ Len(<< >>) = 0
  /\ FramesIn(<< >>) = {} /\ Distinct(<< >>)
BY DEF FramesIn, Distinct

(* What it takes to add one entry to a ring. *)
LEMMA AppendFrames ==
  ASSUME NEW s \in Seq(Addr), NEW a \in Addr
  PROVE  /\ Append(s, a) \in Seq(Addr)
         /\ Len(Append(s, a)) = Len(s) + 1
         /\ FramesIn(Append(s, a)) = FramesIn(s) \cup {FrameOf(a)}
         /\ Distinct(s) /\ FrameOf(a) \notin FramesIn(s) => Distinct(Append(s, a))
<1>1. Append(s, a) \in Seq(Addr) /\ Len(Append(s, a)) = Len(s) + 1
  OBVIOUS
<1>2. \A i \in 1 .. Len(s) + 1 : Append(s, a)[i] = IF i <= Len(s) THEN s[i] ELSE a
  OBVIOUS
<1>3. FramesIn(Append(s, a)) = FramesIn(s) \cup {FrameOf(a)}
  BY <1>1, <1>2 DEF FramesIn
<1>4. Distinct(s) /\ FrameOf(a) \notin FramesIn(s) => Distinct(Append(s, a))
  BY <1>1, <1>2 DEF FramesIn, Distinct
<1> QED BY <1>1, <1>3, <1>4

(* What is left when the oldest entry of a ring is consumed. *)
LEMMA TailFrames ==
  ASSUME NEW s \in Seq(Addr), s # << >>
  PROVE  /\ Head(s) \in Addr /\ Tail(s) \in Seq(Addr)
         /\ Len(Tail(s)) = Len(s) - 1
         /\ FramesIn(s) = FramesIn(Tail(s)) \cup {FrameOf(Head(s))}
         /\ Distinct(s) => Distinct(Tail(s)) /\ FrameOf(Head(s)) \notin FramesIn(Tail(s))
<1>1. /\ Head(s) \in Addr /\ Tail(s) \in Seq(Addr) /\ Len(Tail(s)) = Len(s) - 1
      /\ Len(s) \in Nat \ {0} /\ Head(s) = s[1]
      /\ \A i \in 1 .. Len(s) - 1 : Tail(s)[i] = s[i + 1]
  OBVIOUS
<1>2. FramesIn(s) = FramesIn(Tail(s)) \cup {FrameOf(Head(s))}
  <2>1. ASSUME NEW i \in 1 .. Len(s)
        PROVE  FrameOf(s[i]) \in FramesIn(Tail(s)) \cup {FrameOf(Head(s))}
    <3>1. CASE i = 1  BY <1>1, <3>1
    <3>2. CASE i # 1
      <4>1. i - 1 \in 1 .. Len(s) - 1 /\ Tail(s)[i - 1] = s[i]  BY <1>1, <3>2
      <4> QED BY <1>1, <4>1 DEF FramesIn
    <3> QED BY <3>1, <3>2
  <2>2. ASSUME NEW i \in 1 .. Len(s) - 1
        PROVE  FrameOf(Tail(s)[i]) \in FramesIn(s)
    BY <1>1 DEF FramesIn
  <2>3. FrameOf(Head(s)) \in FramesIn(s)
    BY <1>1 DEF FramesIn
  <2> QED BY <1>1, <2>1, <2>2, <2>3 DEF FramesIn
<1>3. Distinct(s) => Distinct(Tail(s)) /\ FrameOf(Head(s)) \notin FramesIn(Tail(s))
  BY <1>1 DEF FramesIn, Distinct
<1> QED BY <1>1, <1>2, <1>3

(* What it takes to add a batch to a ring. *)
LEMMA ConcatFrames ==
  ASSUME NEW s \in Seq(Addr), NEW t \in Seq(Addr)
  PROVE  /\ s \o t \in Seq(Addr)
         /\ Len(s \o t) = Len(s) + Len(t)
         /\ FramesIn(s \o t) = FramesIn(s) \cup FramesIn(t)
         /\ Distinct(s) /\ Distinct(t) /\ Apart(s, t) => Distinct(s \o t)
<1>1. s \o t \in Seq(Addr) /\ Len(s \o t) = Len(s) + Len(t)
  OBVIOUS
<1>2. \A i \in 1 .. Len(s) + Len(t) :
        (s \o t)[i] = IF i <= Len(s) THEN s[i] ELSE t[i - Len(s)]
  OBVIOUS
<1>3. FramesIn(s \o t) = FramesIn(s) \cup FramesIn(t)
  <2>1. ASSUME NEW i \in 1 .. Len(s) + Len(t)
        PROVE  FrameOf((s \o t)[i]) \in FramesIn(s) \cup FramesIn(t)
    BY <1>2 DEF FramesIn
  <2>2. ASSUME NEW i \in 1 .. Len(s)
        PROVE  FrameOf(s[i]) \in FramesIn(s \o t)
    <3>1. i \in 1 .. Len(s) + Len(t) /\ (s \o t)[i] = s[i]  BY <1>2
    <3> QED BY <1>1, <3>1 DEF FramesIn
  <2>3. ASSUME NEW i \in 1 .. Len(t)
        PROVE  FrameOf(t[i]) \in FramesIn(s \o t)
    <3>1. Len(s) + i \in 1 .. Len(s) + Len(t) /\ (s \o t)[Len(s) + i] = t[i]  BY <1>2
    <3> QED BY <1>1, <3>1 DEF FramesIn
  <2> QED BY <1>1, <2>1, <2>2, <2>3 DEF FramesIn
<1>4. Distinct(s) /\ Distinct(t) /\ Apart(s, t) => Distinct(s \o t)
  <2> SUFFICES ASSUME Distinct(s), Distinct(t), Apart(s, t),
                      NEW i \in 1 .. Len(s) + Len(t), NEW j \in 1 .. Len(s) + Len(t),
                      FrameOf((s \o t)[i]) = FrameOf((s \o t)[j])
               PROVE  i = j
    BY <1>1 DEF Distinct
  <2>1. ASSUME NEW k \in 1 .. Len(s), NEW l \in 1 .. Len(t)
        PROVE  FrameOf(s[k]) # FrameOf(t[l])
    BY DEF Apart, FramesIn
  <2>2. CASE i <= Len(s) /\ j <= Len(s)  BY <1>2, <2>2 DEF Distinct
  <2>3. CASE i > Len(s) /\ j > Len(s)
    <3>1. i - Len(s) \in 1 .. Len(t) /\ j - Len(s) \in 1 .. Len(t)  BY <2>3
    <3>2. FrameOf(t[i - Len(s)]) = FrameOf(t[j - Len(s)])  BY <1>2, <2>3
    <3>3. i - Len(s) = j - Len(s)  BY <3>1, <3>2 DEF Distinct
    <3> QED BY <3>3
  <2>4. CASE i <= Len(s) /\ j > Len(s)
    <3>1. i \in 1 .. Len(s) /\ j - Len(s) \in 1 .. Len(t)  BY <2>4
    <3> QED BY <1>2, <2>1, <2>4, <3>1
  <2>5. CASE i > Len(s) /\ j <= Len(s)
    <3>1. j \in 1 .. Len(s) /\ i - Len(s) \in 1 .. Len(t)  BY <2>5
    <3> QED BY <1>2, <2>1, <2>5, <3>1
  <2> QED BY <2>2, <2>3, <2>4, <2>5
<1> QED BY <1>1, <1>3, <1>4

(* The kernel gives back one of the buffers it holds, in any order. *)
LEMMA WithoutFrames ==
  ASSUME NEW s \in Seq(Addr), NEW i \in 1 .. Len(s)
  PROVE  /\ s[i] \in Addr /\ Without(s, i) \in Seq(Addr)
         /\ Len(Without(s, i)) = Len(s) - 1
         /\ FramesIn(s) = FramesIn(Without(s, i)) \cup {FrameOf(s[i])}
         /\ Distinct(s) => Distinct(Without(s, i)) /\ FrameOf(s[i]) \notin FramesIn(Without(s, i))
<1> DEFINE w == Without(s, i)
<1>1. Len(s) \in Nat \ {0} /\ \A j \in 1 .. Len(s) : s[j] \in Addr
  OBVIOUS
<1>2. w \in [1 .. Len(s) - 1 -> Addr]
  BY <1>1 DEF Without
<1>3. w \in Seq(Addr) /\ Len(w) = Len(s) - 1
  BY <1>1, <1>2
<1>4. \A j \in 1 .. Len(s) - 1 : w[j] = IF j < i THEN s[j] ELSE s[j + 1]
  BY DEF Without
<1> HIDE DEF w
<1>5. \A j \in 1 .. Len(s) - 1 : \E k \in 1 .. Len(s) : k # i /\ w[j] = s[k]
  <2> TAKE j \in 1 .. Len(s) - 1
  <2>1. CASE j < i  BY <1>1, <1>4, <2>1
  <2>2. CASE j >= i
    <3>1. j + 1 \in 1 .. Len(s) /\ j + 1 # i /\ w[j] = s[j + 1]  BY <1>1, <1>4, <2>2
    <3> QED BY <3>1
  <2> QED BY <2>1, <2>2
<1>6. FramesIn(s) = FramesIn(w) \cup {FrameOf(s[i])}
  <2>1. ASSUME NEW k \in 1 .. Len(s), k # i
        PROVE  FrameOf(s[k]) \in FramesIn(w)
    <3>1. CASE k < i
      <4>1. k \in 1 .. Len(s) - 1 /\ w[k] = s[k]  BY <1>1, <1>4, <3>1
      <4> QED BY <1>3, <4>1 DEF FramesIn
    <3>2. CASE k > i
      <4>1. k - 1 \in 1 .. Len(s) - 1 /\ w[k - 1] = s[k]  BY <1>1, <1>4, <3>2
      <4> QED BY <1>3, <4>1 DEF FramesIn
    <3> QED BY <2>1, <3>1, <3>2
  <2>2. FramesIn(s) \subseteq FramesIn(w) \cup {FrameOf(s[i])}
    BY <2>1 DEF FramesIn
  <2>3. FramesIn(w) \subseteq FramesIn(s)
    BY <1>3, <1>5 DEF FramesIn
  <2>4. FrameOf(s[i]) \in FramesIn(s)
    BY DEF FramesIn
  <2> QED BY <2>2, <2>3, <2>4
<1>7. ASSUME Distinct(s)
      PROVE  Distinct(w) /\ FrameOf(s[i]) \notin FramesIn(w)
  <2>1. Distinct(w)
    <3> SUFFICES ASSUME NEW j \in 1 .. Len(s) - 1, NEW k \in 1 .. Len(s) - 1,
                        FrameOf(w[j]) = FrameOf(w[k])
                 PROVE  j = k
      BY <1>3 DEF Distinct
    <3>1. /\ (IF j < i THEN j ELSE j + 1) \in 1 .. Len(s)
          /\ (IF k < i THEN k ELSE k + 1) \in 1 .. Len(s)
      BY <1>1
    <3>2. (IF j < i THEN j ELSE j + 1) = (IF k < i THEN k ELSE k + 1)
      BY <1>4, <1>7, <3>1 DEF Distinct
    <3> QED BY <3>2
  <2>2. FrameOf(s[i]) \notin FramesIn(w)
    BY <1>3, <1>5, <1>7 DEF Distinct, FramesIn
  <2> QED BY <2>1, <2>2
<1> QED BY <1>1, <1>3, <1>6, <1>7 DEF w

(* Receive and Complete split a ring into what they take and the rest. *)
LEMMA SplitFrames ==
  ASSUME NEW s \in Seq(Addr), NEW n \in 0 .. Len(s)
  PROVE  /\ Prefix(s, n) \in Seq(Addr) /\ After(s, n) \in Seq(Addr)
         /\ Len(Prefix(s, n)) = n /\ Len(After(s, n)) = Len(s) - n
         /\ FramesIn(s) = FramesIn(Prefix(s, n)) \cup FramesIn(After(s, n))
         /\ Distinct(s) => /\ Distinct(Prefix(s, n)) /\ Distinct(After(s, n))
                           /\ Apart(Prefix(s, n), After(s, n))
<1> DEFINE p == Prefix(s, n)
           a == After(s, n)
<1>1. p = SubSeq(s, 1, n)
  BY DEF Prefix, AtMost
<1>2. a = SubSeq(s, n + 1, Len(s))
  BY DEF After
<1>3. /\ p \in Seq(Addr) /\ Len(p) = n
      /\ \A i \in 1 .. n : p[i] = s[i]
  BY <1>1, SubSeqProperties
<1>4. /\ a \in Seq(Addr) /\ Len(a) = Len(s) - n
      /\ \A i \in 1 .. Len(s) - n : a[i] = s[n + i]
  BY <1>2, SubSeqProperties
<1> HIDE DEF p, a
<1>5. FramesIn(s) = FramesIn(p) \cup FramesIn(a)
  <2>1. ASSUME NEW i \in 1 .. Len(s)
        PROVE  FrameOf(s[i]) \in FramesIn(p) \cup FramesIn(a)
    <3>1. CASE i <= n  BY <1>3, <3>1 DEF FramesIn
    <3>2. CASE i > n
      <4>1. i - n \in 1 .. Len(s) - n /\ a[i - n] = s[i]  BY <1>4, <3>2
      <4> QED BY <1>4, <4>1 DEF FramesIn
    <3> QED BY <3>1, <3>2
  <2>2. FramesIn(p) \subseteq FramesIn(s)
    BY <1>3 DEF FramesIn
  <2>3. FramesIn(a) \subseteq FramesIn(s)
    <3>1. \A i \in 1 .. Len(s) - n : n + i \in 1 .. Len(s)  OBVIOUS
    <3> QED BY <1>4, <3>1 DEF FramesIn
  <2> QED BY <2>1, <2>2, <2>3 DEF FramesIn
<1>6. Distinct(s) => Distinct(p) /\ Distinct(a) /\ Apart(p, a)
  <2>1. Distinct(s) => Distinct(p)  BY <1>3 DEF Distinct
  <2>2. Distinct(s) => Distinct(a)  BY <1>4 DEF Distinct
  <2>3. ASSUME Distinct(s), NEW i \in 1 .. n, NEW j \in 1 .. Len(s) - n
        PROVE  FrameOf(p[i]) # FrameOf(a[j])
    <3>1. i \in 1 .. Len(s) /\ n + j \in 1 .. Len(s) /\ i # n + j  OBVIOUS
    <3> QED BY <1>3, <1>4, <2>3, <3>1 DEF Distinct
  <2>4. Distinct(s) => Apart(p, a)  BY <1>3, <1>4, <2>3 DEF Apart, FramesIn
  <2> QED BY <2>1, <2>2, <2>4
<1> QED BY <1>3, <1>4, <1>5, <1>6 DEF p, a

(* Fill and Transmit cut their argument to the free slots. *)
LEMMA PrefixFrames ==
  ASSUME NEW s \in Seq(Addr), NEW n \in Nat
  PROVE  /\ Prefix(s, n) \in Seq(Addr)
         /\ Len(Prefix(s, n)) <= n /\ (Len(s) <= n => Len(Prefix(s, n)) = Len(s))
         /\ FramesIn(Prefix(s, n)) \subseteq FramesIn(s)
         /\ Distinct(s) => Distinct(Prefix(s, n))
<1>1. CASE n <= Len(s)
  <2>1. n \in 0 .. Len(s) /\ Len(s) \in Nat
    BY <1>1
  <2>2. Len(Prefix(s, n)) = n
    BY <2>1, SplitFrames
  <2>3. /\ Prefix(s, n) \in Seq(Addr) /\ FramesIn(Prefix(s, n)) \subseteq FramesIn(s)
        /\ Distinct(s) => Distinct(Prefix(s, n))
    BY <2>1, SplitFrames
  <2>4. Len(s) <= n => n = Len(s)
    BY <1>1
  <2> QED BY <2>2, <2>3, <2>4
<1>2. CASE n > Len(s)
  <2>1. Prefix(s, n) = Prefix(s, Len(s))  BY <1>2 DEF Prefix, AtMost
  <2>2. PICK m \in 0 .. Len(s) : m = Len(s)  OBVIOUS
  <2>3. /\ Prefix(s, Len(s)) \in Seq(Addr) /\ Len(Prefix(s, Len(s))) = Len(s)
        /\ FramesIn(Prefix(s, Len(s))) \subseteq FramesIn(s)
        /\ Distinct(s) => Distinct(Prefix(s, Len(s)))
    <3>1. /\ Prefix(s, m) \in Seq(Addr) /\ Len(Prefix(s, m)) = m
          /\ FramesIn(Prefix(s, m)) \subseteq FramesIn(s)
          /\ Distinct(s) => Distinct(Prefix(s, m))
      BY SplitFrames
    <3> QED BY <2>2, <3>1
  <2> QED BY <1>2, <2>1, <2>3
<1> QED BY <1>1, <1>2

(* GetDescs returns addresses of different frames, all marked free, as     *)
(* many as were asked for unless it runs out (xdp.go:550-571).             *)
LEMMA GetDescsFrames ==
  ASSUME NEW n \in Nat, NEW rx \in BOOLEAN, NEW descs \in GetDescs(n, rx)
  PROVE  /\ descs \in Seq(Addr)
         /\ FramesIn(descs) \subseteq FreeFrames(rx)
         /\ Distinct(descs)
         /\ Cardinality(FreeFrames(rx)) \in Nat
         /\ Len(descs) = AtMost(Capped(n, rx), Cardinality(FreeFrames(rx)))
<1> DEFINE free == FreeFrames(rx)
           len == AtMost(Capped(n, rx), Cardinality(free))
<1>1. free \subseteq Frame
  BY DEF FreeFrames
<1>2. IsFiniteSet(Frame)
  BY OptionsAssumption, FS_Interval DEF Frame
<1>3. Cardinality(free) \in Nat
  BY <1>1, <1>2, FS_Subset, FS_CardinalityType
<1>4. Capped(n, rx) \in Nat
  BY OptionsAssumption DEF Capped, AtMost
<1>5. len \in Nat
  BY <1>3, <1>4 DEF AtMost
<1> HIDE DEF free, len
<1>6. PICK d \in [1 .. len -> free] :
        /\ \A i \in 1 .. len : Cardinality({f \in free : f < d[i]}) = i - 1
        /\ descs = [i \in 1 .. len |-> AddrOf(d[i])]
  BY DEF GetDescs, free, len
<1>7. \A i \in 1 .. len : d[i] \in free /\ d[i] \in Frame
  BY <1>1, <1>6
<1>8. /\ descs \in [1 .. len -> Addr]
      /\ \A i \in 1 .. len : FrameOf(descs[i]) = d[i]
  BY <1>6, <1>7, FrameOfAddr
<1>9. descs \in Seq(Addr) /\ Len(descs) = len
  BY <1>5, <1>8
<1>10. FramesIn(descs) \subseteq free
  BY <1>7, <1>8, <1>9 DEF FramesIn
<1>11. Distinct(descs)
  <2> SUFFICES ASSUME NEW i \in 1 .. len, NEW j \in 1 .. len, d[i] = d[j]
               PROVE  i = j
    BY <1>8, <1>9 DEF Distinct
  <2>1. i - 1 = j - 1
    BY <1>6
  <2> QED BY <1>5, <2>1
<1> QED BY <1>3, <1>9, <1>10, <1>11 DEF free, len
-----------------------------------------------------------------------------
(* NewSocket establishes the invariant (xdp.go:383-392). *)
LEMMA InitIInv == Init => IInv
<1> SUFFICES ASSUME Init PROVE IInv
  OBVIOUS
<1>1. TypeOK
  BY EmptyFrames DEF Init, TypeOK, CallState
<1>2. CountersExact
  BY DEF Init, CountersExact
<1>3. FreeListsExact
  BY EmptyFrames DEF Init, FreeListsExact
<1>4. SidesKept /\ RxApart /\ TxApart /\ CallConsistent
  BY EmptyFrames DEF Init, SidesKept, RxApart, TxApart, CallConsistent, Apart
<1>5. RingsFit /\ BuffersAligned
  BY OptionsAssumption DEF Init, RingsFit, BuffersAligned
<1> QED BY <1>1, <1>2, <1>3, <1>4, <1>5 DEF IInv

(* Fill counts the free slots and cuts descs to them (xdp.go:402-405).     *)
(* The frames of descs must be out of the receive direction, and not among *)
(* those the program keeps.                                                *)
LEMMA FillCallIInv ==
  ASSUME IInv, NEW descs \in Seq(Addr), FillCall(descs),
         FramesIn(descs) \subseteq Searched(TRUE), Distinct(descs),
         Apart(descs, fillRing), Apart(descs, kernelRx), Apart(descs, rxRing),
         rxDescs' \in Seq(Addr), FramesIn(rxDescs') \subseteq FramesIn(rxDescs),
         Distinct(rxDescs'), Apart(args', rxDescs')
  PROVE  IInv'
<1>1. FillRingNumDescs - Len(fillRing) \in Nat
  BY OptionsAssumption DEF IInv, TypeOK, RingsFit
<1>2. /\ args' \in Seq(Addr)
      /\ Len(args') <= FillRingNumDescs - Len(fillRing)
      /\ FramesIn(args') \subseteq FramesIn(descs)
      /\ Distinct(args')
  BY <1>1, PrefixFrames DEF FillCall
<1>3. /\ UNCHANGED <<rings, kernel, books, numReceived, num>>
      /\ call = "none" /\ call' = "Fill"
  BY DEF FillCall
<1>4. TypeOK'
  BY <1>2, <1>3 DEF IInv, TypeOK, CallState, rings, kernel, books
<1>5. CountersExact' /\ FreeListsExact'
  BY <1>3 DEF IInv, CountersExact, FreeListsExact, rings, kernel, books
<1>6. SidesKept' /\ RxApart' /\ TxApart'
  BY <1>3 DEF IInv, SidesKept, RxApart, TxApart, Apart, rings, kernel
<1>7. CallConsistent'
  BY <1>2, <1>3 DEF CallConsistent, Apart, rings, kernel
<1>8. RingsFit'
  <2>1. Len(fillRing) + Len(args') <= FillRingNumDescs
    BY <1>1, <1>2, OptionsAssumption DEF IInv, TypeOK
  <2> QED BY <1>3, <2>1 DEF IInv, RingsFit, rings, kernel
<1>9. BuffersAligned'
  BY <1>3 DEF IInv, BuffersAligned, kernel
<1> QED BY <1>4, <1>5, <1>6, <1>7, <1>8, <1>9 DEF IInv

(* Fill publishes and keeps its books (xdp.go:407-418). *)
LEMMA FillReturnIInv ==
  ASSUME IInv, FillReturn
  PROVE  IInv'
<1>1. /\ fillRing \in Seq(Addr) /\ args \in Seq(Addr)
      /\ FramesIn(args) \subseteq Searched(TRUE) /\ Distinct(args)
      /\ Apart(args, fillRing) /\ Apart(args, kernelRx) /\ Apart(args, rxRing)
      /\ Apart(args, rxDescs) /\ Len(fillRing) + Len(args) <= FillRingNumDescs
  BY DEF IInv, TypeOK, CallConsistent, RingsFit, FillReturn
<1>2. /\ fillRing' \in Seq(Addr)
      /\ Len(fillRing') = Len(fillRing) + Len(args)
      /\ FramesIn(fillRing') = FramesIn(fillRing) \cup FramesIn(args)
      /\ Distinct(fillRing')
  BY <1>1, ConcatFrames DEF IInv, RxApart, Apart, FillReturn
<1>3. /\ UNCHANGED <<rxRing, txRing, completionRing, kernelRx, kernelTx, freeTXDescs,
                     numTransmitted, rxDescs, numReceived, num>>
      /\ call = "Fill" /\ call' = "none" /\ args' = << >>
      /\ freeRXDescs' = Mark(freeRXDescs, args, FALSE)
      /\ numFilled' = numFilled + Len(args)
  BY DEF FillReturn, kernel
<1>4. TypeOK'
  <2>1. freeRXDescs' \in [Frame -> BOOLEAN]
    BY <1>3 DEF IInv, TypeOK, Mark
  <2>2. numFilled' \in Int
    BY <1>1, <1>3 DEF IInv, TypeOK
  <2> QED BY <1>2, <1>3, <2>1, <2>2, EmptyFrames DEF IInv, TypeOK, CallState
<1>5. CountersExact'
  BY <1>1, <1>2, <1>3 DEF IInv, TypeOK, CountersExact
<1>6. FreeListsExact'
  BY <1>2, <1>3 DEF IInv, FreeListsExact, Mark
<1>7. SidesKept' /\ RxApart' /\ TxApart'
  BY <1>1, <1>2, <1>3, EmptyFrames DEF IInv, SidesKept, RxApart, TxApart, Apart
<1>8. CallConsistent'
  BY <1>3 DEF CallConsistent
<1>9. RingsFit' /\ BuffersAligned'
  BY <1>1, <1>2, <1>3 DEF IInv, TypeOK, RingsFit, BuffersAligned
<1> QED BY <1>4, <1>5, <1>6, <1>7, <1>8, <1>9 DEF IInv

(* Receive counts what is there and cuts num to it (xdp.go:424-427). *)
LEMMA ReceiveCallIInv ==
  ASSUME IInv, NEW n \in Nat, ReceiveCall(n)
  PROVE  IInv'
<1>1. /\ UNCHANGED <<rings, kernel, books, numReceived, args>>
      /\ call = "none" /\ call' = "Receive" /\ rxDescs' = << >>
  BY DEF ReceiveCall
<1>2. num' \in Nat /\ num' <= Len(rxRing)
  BY DEF IInv, TypeOK, ReceiveCall, AtMost
<1>3. TypeOK'
  BY <1>1, <1>2, EmptyFrames DEF IInv, TypeOK, CallState, rings, kernel, books
<1>4. CountersExact' /\ FreeListsExact'
  BY <1>1 DEF IInv, CountersExact, FreeListsExact, rings, kernel, books
<1>5. SidesKept' /\ RxApart' /\ TxApart'
  BY <1>1, EmptyFrames DEF IInv, SidesKept, RxApart, TxApart, Apart, rings, kernel
<1>6. CallConsistent'
  BY <1>1, <1>2 DEF IInv, CallConsistent, rings
<1>7. RingsFit' /\ BuffersAligned'
  BY <1>1 DEF IInv, RingsFit, BuffersAligned, rings, kernel
<1> QED BY <1>3, <1>4, <1>5, <1>6, <1>7 DEF IInv

(* Receive copies, marks the frames free and publishes (xdp.go:429-442).   *)
(* The kernel may have produced more since the count, never less.          *)
LEMMA ReceiveReturnIInv ==
  ASSUME IInv, ReceiveReturn
  PROVE  IInv'
<1>1. rxRing \in Seq(Addr) /\ num \in 0 .. Len(rxRing) /\ Distinct(rxRing)
  BY DEF IInv, TypeOK, RxApart, CallConsistent, ReceiveReturn
<1>2. /\ rxDescs' \in Seq(Addr) /\ rxRing' \in Seq(Addr)
      /\ Len(rxRing') = Len(rxRing) - num
      /\ FramesIn(rxRing) = FramesIn(rxDescs') \cup FramesIn(rxRing')
      /\ Distinct(rxDescs') /\ Distinct(rxRing') /\ Apart(rxDescs', rxRing')
  BY <1>1, SplitFrames DEF ReceiveReturn
<1>3. /\ UNCHANGED <<fillRing, txRing, completionRing, kernelRx, kernelTx, freeTXDescs,
                     numTransmitted, numReceived, args>>
      /\ call = "Receive" /\ call' = "none" /\ num' = 0
      /\ freeRXDescs' = Mark(freeRXDescs, rxDescs', TRUE)
      /\ numFilled' = numFilled - num
  BY DEF ReceiveReturn, kernel
<1>4. TypeOK'
  <2>1. freeRXDescs' \in [Frame -> BOOLEAN]
    BY <1>3 DEF IInv, TypeOK, Mark
  <2>2. numFilled' \in Int
    BY <1>3 DEF IInv, TypeOK
  <2> QED BY <1>2, <1>3, <2>1, <2>2 DEF IInv, TypeOK, CallState
<1>5. CountersExact'
  BY <1>1, <1>2, <1>3 DEF IInv, TypeOK, CountersExact
<1>6. FreeListsExact'
  BY <1>2, <1>3 DEF IInv, FreeListsExact, Mark, RxApart, Apart
<1>7. SidesKept' /\ RxApart' /\ TxApart'
  BY <1>2, <1>3 DEF IInv, SidesKept, RxApart, TxApart, Apart
<1>8. CallConsistent'
  BY <1>3 DEF IInv, CallConsistent
<1>9. RingsFit' /\ BuffersAligned'
  BY <1>1, <1>2, <1>3, OptionsAssumption DEF IInv, TypeOK, RingsFit, BuffersAligned
<1> QED BY <1>4, <1>5, <1>6, <1>7, <1>8, <1>9 DEF IInv

(* Transmit counts the free slots and cuts descs to them (xdp.go:450-453). *)
LEMMA TransmitCallIInv ==
  ASSUME IInv, NEW descs \in Seq(Addr), TransmitCall(descs),
         FramesIn(descs) \subseteq Searched(FALSE), Distinct(descs),
         Apart(descs, txRing), Apart(descs, kernelTx), Apart(descs, completionRing)
  PROVE  IInv'
<1>1. TxRingNumDescs - Len(txRing) \in Nat
  BY OptionsAssumption DEF IInv, TypeOK, RingsFit
<1>2. /\ args' \in Seq(Addr)
      /\ Len(args') <= TxRingNumDescs - Len(txRing)
      /\ FramesIn(args') \subseteq FramesIn(descs)
      /\ Distinct(args')
  BY <1>1, PrefixFrames DEF TransmitCall
<1>3. /\ UNCHANGED <<rings, kernel, books, rxDescs, numReceived, num>>
      /\ call = "none" /\ call' = "Transmit"
  BY DEF TransmitCall
<1>4. TypeOK'
  BY <1>2, <1>3 DEF IInv, TypeOK, CallState, rings, kernel, books
<1>5. CountersExact' /\ FreeListsExact'
  BY <1>3 DEF IInv, CountersExact, FreeListsExact, rings, kernel, books
<1>6. SidesKept' /\ RxApart' /\ TxApart'
  BY <1>3 DEF IInv, SidesKept, RxApart, TxApart, rings, kernel
<1>7. CallConsistent'
  BY <1>2, <1>3 DEF CallConsistent, Apart, rings, kernel
<1>8. RingsFit'
  <2>1. Len(txRing) + Len(args') <= TxRingNumDescs
    BY <1>1, <1>2, OptionsAssumption DEF IInv, TypeOK
  <2> QED BY <1>3, <2>1 DEF IInv, RingsFit, rings, kernel
<1>9. BuffersAligned'
  BY <1>3 DEF IInv, BuffersAligned, kernel
<1> QED BY <1>4, <1>5, <1>6, <1>7, <1>8, <1>9 DEF IInv

(* Transmit publishes and keeps its books (xdp.go:455-466). *)
LEMMA TransmitPublishIInv ==
  ASSUME IInv, TransmitPublish
  PROVE  IInv'
<1>1. /\ txRing \in Seq(Addr) /\ args \in Seq(Addr)
      /\ FramesIn(args) \subseteq Searched(FALSE) /\ Distinct(args)
      /\ Apart(args, txRing) /\ Apart(args, kernelTx) /\ Apart(args, completionRing)
      /\ Len(txRing) + Len(args) <= TxRingNumDescs
  BY DEF IInv, TypeOK, CallConsistent, RingsFit, TransmitPublish
<1>2. /\ txRing' \in Seq(Addr)
      /\ Len(txRing') = Len(txRing) + Len(args)
      /\ FramesIn(txRing') = FramesIn(txRing) \cup FramesIn(args)
      /\ Distinct(txRing')
  BY <1>1, ConcatFrames DEF IInv, TxApart, Apart, TransmitPublish
<1>3. /\ UNCHANGED <<fillRing, rxRing, completionRing, kernelRx, kernelTx, freeRXDescs,
                     numFilled, rxDescs, numReceived, num>>
      /\ call = "Transmit" /\ call' = "sendto" /\ args' = << >>
      /\ freeTXDescs' = Mark(freeTXDescs, args, FALSE)
      /\ numTransmitted' = numTransmitted + Len(args)
  BY DEF TransmitPublish, kernel
<1>4. TypeOK'
  <2>1. freeTXDescs' \in [Frame -> BOOLEAN]
    BY <1>3 DEF IInv, TypeOK, Mark
  <2>2. numTransmitted' \in Int
    BY <1>1, <1>3 DEF IInv, TypeOK
  <2> QED BY <1>2, <1>3, <2>1, <2>2, EmptyFrames DEF IInv, TypeOK, CallState
<1>5. CountersExact'
  BY <1>1, <1>2, <1>3 DEF IInv, TypeOK, CountersExact
<1>6. FreeListsExact'
  BY <1>2, <1>3 DEF IInv, FreeListsExact, Mark
<1>7. SidesKept' /\ RxApart' /\ TxApart'
  BY <1>1, <1>2, <1>3 DEF IInv, SidesKept, RxApart, TxApart, Apart
<1>8. CallConsistent'
  BY <1>3 DEF CallConsistent
<1>9. RingsFit' /\ BuffersAligned'
  BY <1>1, <1>2, <1>3 DEF IInv, TypeOK, RingsFit, BuffersAligned
<1> QED BY <1>4, <1>5, <1>6, <1>7, <1>8, <1>9 DEF IInv

(* Complete marks the frames free and publishes (xdp.go:636-646). *)
LEMMA CompleteReturnIInv ==
  ASSUME IInv, CompleteReturn
  PROVE  IInv'
<1> DEFINE completed == Prefix(completionRing, num)
<1>1. /\ completionRing \in Seq(Addr) /\ num \in 0 .. Len(completionRing)
      /\ Distinct(completionRing)
  BY DEF IInv, TypeOK, TxApart, CallConsistent, CompleteReturn
<1>2. /\ completionRing' \in Seq(Addr)
      /\ Len(completionRing') = Len(completionRing) - num
      /\ FramesIn(completionRing) = FramesIn(completed) \cup FramesIn(completionRing')
      /\ Distinct(completionRing') /\ Apart(completed, completionRing')
  BY <1>1, SplitFrames DEF CompleteReturn
<1>3. /\ UNCHANGED <<fillRing, rxRing, txRing, kernelRx, kernelTx, freeRXDescs, numFilled,
                     rxDescs, numReceived, args>>
      /\ call = "Complete" /\ call' = "none" /\ num' = 0
      /\ freeTXDescs' = Mark(freeTXDescs, completed, TRUE)
      /\ numTransmitted' = numTransmitted - num
  BY DEF CompleteReturn, kernel
<1> HIDE DEF completed
<1>4. TypeOK'
  <2>1. freeTXDescs' \in [Frame -> BOOLEAN]
    BY <1>3 DEF IInv, TypeOK, Mark
  <2>2. numTransmitted' \in Int
    BY <1>3 DEF IInv, TypeOK
  <2> QED BY <1>2, <1>3, <2>1, <2>2 DEF IInv, TypeOK, CallState
<1>5. CountersExact'
  BY <1>1, <1>2, <1>3 DEF IInv, TypeOK, CountersExact
<1>6. FreeListsExact'
  BY <1>2, <1>3 DEF IInv, FreeListsExact, Mark, TxApart, Apart
<1>7. SidesKept' /\ RxApart' /\ TxApart'
  BY <1>2, <1>3 DEF IInv, SidesKept, RxApart, TxApart, Apart
<1>8. CallConsistent'
  BY <1>3 DEF IInv, CallConsistent
<1>9. RingsFit' /\ BuffersAligned'
  BY <1>1, <1>2, <1>3, OptionsAssumption DEF IInv, TypeOK, RingsFit, BuffersAligned
<1> QED BY <1>4, <1>5, <1>6, <1>7, <1>8, <1>9 DEF IInv

(* The steps of Transmit, Poll and Complete that leave the rings and the   *)
(* books alone (xdp.go:470-490,506-530).                                   *)
LEMMA CallStepIInv ==
  ASSUME IInv,
         UNCHANGED <<rings, kernel, books, rxDescs, args>>,
         numReceived' \in Nat, num' \in Nat,
         call \notin {"Fill", "Transmit"},
         call' \in CallState \ {"Fill", "Transmit", "Receive"},
         call' = "Complete" => num' <= Len(completionRing)
  PROVE  IInv'
<1>1. TypeOK'
  BY DEF IInv, TypeOK, rings, kernel, books
<1>2. CountersExact' /\ FreeListsExact'
  BY DEF IInv, CountersExact, FreeListsExact, rings, kernel, books
<1>3. SidesKept' /\ RxApart' /\ TxApart'
  BY DEF IInv, SidesKept, RxApart, TxApart, rings, kernel
<1>4. CallConsistent'
  BY DEF IInv, CallConsistent, rings
<1>5. RingsFit' /\ BuffersAligned'
  BY DEF IInv, RingsFit, BuffersAligned, rings, kernel
<1> QED BY <1>1, <1>2, <1>3, <1>4, <1>5 DEF IInv

(* The kernel consumes from the Fill ring. *)
LEMMA KernelTakesBufferIInv ==
  ASSUME IInv, KernelTakesBuffer
  PROVE  IInv'
<1> DEFINE f == FrameOf(Head(fillRing))
<1>1. /\ fillRing \in Seq(Addr) /\ fillRing # << >> /\ kernelRx \in Seq(Addr)
      /\ Distinct(fillRing) /\ Distinct(kernelRx) /\ Apart(fillRing, kernelRx)
  BY DEF IInv, TypeOK, RxApart, KernelTakesBuffer
<1>2. /\ Head(fillRing) \in Addr /\ fillRing' \in Seq(Addr)
      /\ Len(fillRing') = Len(fillRing) - 1
      /\ FramesIn(fillRing) = FramesIn(fillRing') \cup {f}
      /\ Distinct(fillRing') /\ f \notin FramesIn(fillRing')
  BY <1>1, TailFrames DEF KernelTakesBuffer
<1>3. /\ f \in Frame /\ AddrOf(f) \in Addr /\ FrameOf(AddrOf(f)) = f
  BY <1>2, FrameOfType, FrameOfAddr
<1>4. kernelRx' = Append(kernelRx, AddrOf(f))
  BY DEF KernelTakesBuffer
<1> HIDE DEF f
<1>5. f \notin FramesIn(kernelRx)
  BY <1>1, <1>2 DEF Apart
<1>6. /\ kernelRx' \in Seq(Addr) /\ Len(kernelRx') = Len(kernelRx) + 1
      /\ FramesIn(kernelRx') = FramesIn(kernelRx) \cup {f}
      /\ Distinct(kernelRx')
  BY <1>1, <1>3, <1>4, <1>5, AppendFrames
<1>7. UNCHANGED <<rxRing, txRing, completionRing, kernelTx, books, program>>
  BY DEF KernelTakesBuffer
<1>8. TypeOK'
  BY <1>2, <1>6, <1>7 DEF IInv, TypeOK, books, program
<1>9. CountersExact'
  BY <1>1, <1>2, <1>6, <1>7 DEF IInv, TypeOK, CountersExact, books
<1>10. FreeListsExact'
  BY <1>2, <1>6, <1>7 DEF IInv, FreeListsExact, books
<1>11. SidesKept' /\ RxApart' /\ TxApart'
  BY <1>2, <1>6, <1>7 DEF IInv, SidesKept, RxApart, TxApart, Apart, program
<1>12. CallConsistent'
  BY <1>2, <1>6, <1>7 DEF IInv, CallConsistent, Apart, program
<1>13. RingsFit'
  BY <1>1, <1>2, <1>7, OptionsAssumption DEF IInv, TypeOK, RingsFit, program
<1>14. BuffersAligned'
  <2>1. \A i \in 1 .. Len(kernelRx) + 1 :
          kernelRx'[i] = IF i <= Len(kernelRx) THEN kernelRx[i] ELSE AddrOf(f)
    BY <1>1, <1>3, <1>4
  <2> QED BY <1>3, <1>6, <2>1 DEF IInv, BuffersAligned
<1> QED BY <1>8, <1>9, <1>10, <1>11, <1>12, <1>13, <1>14 DEF IInv

(* The kernel receives a packet into one of its buffers. *)
LEMMA KernelReceivesIInv ==
  ASSUME IInv, NEW i \in 1 .. Len(kernelRx), KernelReceives(i)
  PROVE  IInv'
<1> DEFINE f == FrameOf(kernelRx[i])
<1>1. /\ kernelRx \in Seq(Addr) /\ rxRing \in Seq(Addr)
      /\ Distinct(kernelRx) /\ Distinct(rxRing) /\ Apart(kernelRx, rxRing)
  BY DEF IInv, TypeOK, RxApart
<1>2. /\ kernelRx[i] \in Addr /\ kernelRx' \in Seq(Addr)
      /\ Len(kernelRx') = Len(kernelRx) - 1
      /\ FramesIn(kernelRx) = FramesIn(kernelRx') \cup {f}
      /\ Distinct(kernelRx') /\ f \notin FramesIn(kernelRx')
  BY <1>1, WithoutFrames DEF KernelReceives
<1>3. kernelRx[i] = AddrOf(f)
  BY DEF IInv, BuffersAligned
<1>4. rxRing' = Append(rxRing, AddrOf(f) + Headroom)
  BY <1>3 DEF KernelReceives
<1>5. f \in Frame
  BY <1>2, FrameOfType
<1> HIDE DEF f
<1>6. AddrOf(f) + Headroom \in Addr /\ FrameOf(AddrOf(f) + Headroom) = f
  BY <1>5, FrameOfAddr
<1>7. f \notin FramesIn(rxRing)
  BY <1>1, <1>2 DEF Apart
<1>8. /\ rxRing' \in Seq(Addr) /\ Len(rxRing') = Len(rxRing) + 1
      /\ FramesIn(rxRing') = FramesIn(rxRing) \cup {f}
      /\ Distinct(rxRing')
  BY <1>1, <1>4, <1>6, <1>7, AppendFrames
<1>9. /\ UNCHANGED <<fillRing, txRing, completionRing, kernelTx, books, program>>
      /\ Len(rxRing) < RxRingNumDescs
  BY DEF KernelReceives
<1>10. TypeOK'
  BY <1>2, <1>8, <1>9 DEF IInv, TypeOK, books, program
<1>11. CountersExact'
  BY <1>1, <1>2, <1>8, <1>9 DEF IInv, TypeOK, CountersExact, books
<1>12. FreeListsExact'
  BY <1>2, <1>8, <1>9 DEF IInv, FreeListsExact, books
<1>13. SidesKept' /\ RxApart' /\ TxApart'
  BY <1>2, <1>8, <1>9 DEF IInv, SidesKept, RxApart, TxApart, Apart, program
<1>14. CallConsistent'
  <2>1. num <= Len(rxRing) => num <= Len(rxRing')
    BY <1>1, <1>8 DEF IInv, TypeOK
  <2> QED BY <1>2, <1>8, <1>9, <2>1 DEF IInv, CallConsistent, Apart, program
<1>15. RingsFit'
  BY <1>1, <1>8, <1>9, OptionsAssumption DEF IInv, TypeOK, RingsFit, program
<1>16. BuffersAligned'
  <2> SUFFICES ASSUME NEW j \in 1 .. Len(kernelRx')
               PROVE  kernelRx'[j] = AddrOf(FrameOf(kernelRx'[j]))
    BY DEF BuffersAligned
  <2>1. j \in 1 .. Len(kernelRx) - 1 /\ kernelRx' = Without(kernelRx, i)
    BY <1>2 DEF KernelReceives
  <2>2. PICK k \in 1 .. Len(kernelRx) : kernelRx'[j] = kernelRx[k]
    <3>1. CASE j < i
      <4>1. j \in 1 .. Len(kernelRx) /\ kernelRx'[j] = kernelRx[j]
        BY <1>1, <2>1, <3>1 DEF Without
      <4> QED BY <4>1
    <3>2. CASE j >= i
      <4>1. j + 1 \in 1 .. Len(kernelRx) /\ kernelRx'[j] = kernelRx[j + 1]
        BY <1>1, <2>1, <3>2 DEF Without
      <4> QED BY <4>1
    <3> QED BY <3>1, <3>2
  <2> QED BY <2>2 DEF IInv, BuffersAligned
<1> QED BY <1>10, <1>11, <1>12, <1>13, <1>14, <1>15, <1>16 DEF IInv

(* The kernel consumes from the Tx ring. *)
LEMMA KernelTakesTxIInv ==
  ASSUME IInv, KernelTakesTx
  PROVE  IInv'
<1> DEFINE f == FrameOf(Head(txRing))
<1>1. /\ txRing \in Seq(Addr) /\ txRing # << >> /\ kernelTx \in Seq(Addr)
      /\ Distinct(txRing) /\ Distinct(kernelTx) /\ Apart(txRing, kernelTx)
  BY DEF IInv, TypeOK, TxApart, KernelTakesTx
<1>2. /\ Head(txRing) \in Addr /\ txRing' \in Seq(Addr)
      /\ Len(txRing') = Len(txRing) - 1
      /\ FramesIn(txRing) = FramesIn(txRing') \cup {f}
      /\ Distinct(txRing') /\ f \notin FramesIn(txRing')
  BY <1>1, TailFrames DEF KernelTakesTx
<1>3. f \notin FramesIn(kernelTx)
  BY <1>1, <1>2 DEF Apart
<1>4. /\ kernelTx' \in Seq(Addr) /\ Len(kernelTx') = Len(kernelTx) + 1
      /\ FramesIn(kernelTx') = FramesIn(kernelTx) \cup {f}
      /\ Distinct(kernelTx')
  BY <1>1, <1>2, <1>3, AppendFrames DEF KernelTakesTx
<1>5. /\ UNCHANGED <<fillRing, rxRing, completionRing, kernelRx, books, program>>
      /\ Len(kernelTx) + Len(completionRing) < CompletionRingNumDescs
  BY DEF KernelTakesTx
<1> HIDE DEF f
<1>6. TypeOK'
  BY <1>2, <1>4, <1>5 DEF IInv, TypeOK, books, program
<1>7. CountersExact'
  BY <1>1, <1>2, <1>4, <1>5 DEF IInv, TypeOK, CountersExact, books
<1>8. FreeListsExact'
  BY <1>2, <1>4, <1>5 DEF IInv, FreeListsExact, books
<1>9. SidesKept' /\ RxApart' /\ TxApart'
  BY <1>2, <1>4, <1>5 DEF IInv, SidesKept, RxApart, TxApart, Apart, program
<1>10. CallConsistent'
  BY <1>2, <1>4, <1>5 DEF IInv, CallConsistent, Apart, program
<1>11. RingsFit'
  BY <1>1, <1>2, <1>4, <1>5, OptionsAssumption DEF IInv, TypeOK, RingsFit, program
<1>12. BuffersAligned'
  BY <1>5 DEF IInv, BuffersAligned
<1> QED BY <1>6, <1>7, <1>8, <1>9, <1>10, <1>11, <1>12 DEF IInv

(* The kernel has sent a frame and reports it on the Completion ring. *)
LEMMA KernelCompletesIInv ==
  ASSUME IInv, NEW i \in 1 .. Len(kernelTx), KernelCompletes(i)
  PROVE  IInv'
<1> DEFINE f == FrameOf(kernelTx[i])
<1>1. /\ kernelTx \in Seq(Addr) /\ completionRing \in Seq(Addr)
      /\ Distinct(kernelTx) /\ Distinct(completionRing) /\ Apart(kernelTx, completionRing)
  BY DEF IInv, TypeOK, TxApart
<1>2. /\ kernelTx[i] \in Addr /\ kernelTx' \in Seq(Addr)
      /\ Len(kernelTx') = Len(kernelTx) - 1
      /\ FramesIn(kernelTx) = FramesIn(kernelTx') \cup {f}
      /\ Distinct(kernelTx') /\ f \notin FramesIn(kernelTx')
  BY <1>1, WithoutFrames DEF KernelCompletes
<1>3. f \notin FramesIn(completionRing)
  BY <1>1, <1>2 DEF Apart
<1>4. /\ completionRing' \in Seq(Addr) /\ Len(completionRing') = Len(completionRing) + 1
      /\ FramesIn(completionRing') = FramesIn(completionRing) \cup {f}
      /\ Distinct(completionRing')
  BY <1>1, <1>2, <1>3, AppendFrames DEF KernelCompletes
<1>5. UNCHANGED <<fillRing, rxRing, txRing, kernelRx, books, program>>
  BY DEF KernelCompletes
<1> HIDE DEF f
<1>6. TypeOK'
  BY <1>2, <1>4, <1>5 DEF IInv, TypeOK, books, program
<1>7. CountersExact'
  BY <1>1, <1>2, <1>4, <1>5 DEF IInv, TypeOK, CountersExact, books
<1>8. FreeListsExact'
  BY <1>2, <1>4, <1>5 DEF IInv, FreeListsExact, books
<1>9. SidesKept' /\ RxApart' /\ TxApart'
  BY <1>2, <1>4, <1>5 DEF IInv, SidesKept, RxApart, TxApart, Apart, program
<1>10. CallConsistent'
  <2>1. num <= Len(completionRing) => num <= Len(completionRing')
    BY <1>1, <1>4 DEF IInv, TypeOK
  <2> QED BY <1>2, <1>4, <1>5, <2>1 DEF IInv, CallConsistent, Apart, program
<1>11. RingsFit'
  BY <1>1, <1>2, <1>4, <1>5, OptionsAssumption DEF IInv, TypeOK, RingsFit, program
<1>12. BuffersAligned'
  BY <1>5 DEF IInv, BuffersAligned
<1> QED BY <1>6, <1>7, <1>8, <1>9, <1>10, <1>11, <1>12 DEF IInv
-----------------------------------------------------------------------------
(* A free frame is nowhere in the direction GetDescs was asked for. *)
LEMMA FreeFramesAway ==
  ASSUME IInv
  PROVE  /\ FreeFrames(TRUE) \subseteq Searched(TRUE)
         /\ FreeFrames(FALSE) \subseteq Searched(FALSE)
         /\ FreeFrames(TRUE) \cap (FramesIn(fillRing) \cup FramesIn(kernelRx) \cup FramesIn(rxRing)) = {}
         /\ FreeFrames(FALSE) \cap (FramesIn(txRing) \cup FramesIn(kernelTx) \cup FramesIn(completionRing)) = {}
BY DEF IInv, FreeListsExact, FreeFrames

(* The program drops the frames it received (dumpframes.go:119). *)
LEMMA DropReceivedIInv ==
  ASSUME IInv, DropReceived
  PROVE  IInv'
<1>1. /\ UNCHANGED <<rings, kernel, books, numReceived, call, args, num>>
      /\ call = "none" /\ rxDescs' = << >>
  BY DEF DropReceived
<1>2. TypeOK'
  BY <1>1, EmptyFrames DEF IInv, TypeOK, rings, kernel, books
<1>3. CountersExact' /\ FreeListsExact'
  BY <1>1 DEF IInv, CountersExact, FreeListsExact, rings, kernel, books
<1>4. SidesKept' /\ RxApart' /\ TxApart'
  BY <1>1, EmptyFrames DEF IInv, SidesKept, RxApart, TxApart, Apart, rings, kernel
<1>5. CallConsistent'
  BY <1>1 DEF IInv, CallConsistent
<1>6. RingsFit' /\ BuffersAligned'
  BY <1>1 DEF IInv, RingsFit, BuffersAligned, rings, kernel
<1> QED BY <1>2, <1>3, <1>4, <1>5, <1>6 DEF IInv

(* Every call of the program keeps the invariant. *)
LEMMA ProgramIInv ==
  ASSUME IInv, ProgramNext
  PROVE  IInv'
<1> Request \subseteq Nat
  BY OptionsAssumption DEF Request
<1>1. ASSUME NEW n \in Request, FillFree(n)
      PROVE  IInv'
  <2>1. PICK descs \in GetDescs(n, TRUE) :
          FramesIn(descs) \cap FramesIn(rxDescs) = {} /\ FillCall(descs)
    BY <1>1 DEF FillFree
  <2>2. descs \in Seq(Addr) /\ FramesIn(descs) \subseteq FreeFrames(TRUE) /\ Distinct(descs)
    BY GetDescsFrames
  <2>3. /\ FramesIn(descs) \subseteq Searched(TRUE)
        /\ Apart(descs, fillRing) /\ Apart(descs, kernelRx) /\ Apart(descs, rxRing)
    BY <2>2, FreeFramesAway DEF Apart
  <2>4. rxDescs' = rxDescs /\ rxDescs \in Seq(Addr) /\ Distinct(rxDescs)
    BY <1>1 DEF FillFree, IInv, TypeOK, RxApart
  <2>5. Apart(args', rxDescs')
    <3>1. FillRingNumDescs - Len(fillRing) \in Nat
      BY OptionsAssumption DEF IInv, TypeOK, RingsFit
    <3>2. FramesIn(args') \subseteq FramesIn(descs)
      BY <2>1, <2>2, <3>1, PrefixFrames DEF FillCall
    <3> QED BY <2>1, <2>4, <3>2 DEF Apart
  <2> QED BY <2>1, <2>2, <2>3, <2>4, <2>5, FillCallIInv
<1>2. ASSUME NEW n \in Request, ReceiveCall(n)
      PROVE  IInv'
  BY <1>2, ReceiveCallIInv
<1>3. ASSUME NEW n \in Request, TransmitFree(n)
      PROVE  IInv'
  <2>1. PICK descs \in GetDescs(n, FALSE) : TransmitCall(descs)
    BY <1>3 DEF TransmitFree
  <2>2. descs \in Seq(Addr) /\ FramesIn(descs) \subseteq FreeFrames(FALSE) /\ Distinct(descs)
    BY GetDescsFrames
  <2>3. /\ FramesIn(descs) \subseteq Searched(FALSE)
        /\ Apart(descs, txRing) /\ Apart(descs, kernelTx) /\ Apart(descs, completionRing)
    BY <2>2, FreeFramesAway DEF Apart
  <2> QED BY <2>1, <2>2, <2>3, TransmitCallIInv
<1>4. ASSUME NEW n \in 1 .. Len(rxDescs), FillReceived(n)
      PROVE  IInv'
  <2> DEFINE descs == Prefix(rxDescs, n)
  <2>1. /\ rxDescs \in Seq(Addr) /\ FillCall(descs) /\ rxDescs' = After(rxDescs, Len(args'))
        /\ FramesIn(rxDescs) \subseteq Searched(TRUE) /\ Distinct(rxDescs)
        /\ Apart(rxDescs, fillRing) /\ Apart(rxDescs, kernelRx) /\ Apart(rxDescs, rxRing)
    BY <1>4 DEF FillReceived, IInv, TypeOK, SidesKept, RxApart, Apart
  <2>2. /\ descs \in Seq(Addr) /\ FramesIn(descs) \subseteq FramesIn(rxDescs)
        /\ Distinct(descs)
    BY <2>1, PrefixFrames
  <2>3. Len(args') \in 0 .. Len(rxDescs) /\ args' = Prefix(rxDescs, Len(args'))
    <3>1. FillRingNumDescs - Len(fillRing) \in Nat
      BY OptionsAssumption DEF IInv, TypeOK, RingsFit
    <3>2. args' = Prefix(descs, FillRingNumDescs - Len(fillRing))
      BY <2>1 DEF FillCall
    <3> QED BY <2>1, <3>1, <3>2 DEF Prefix, AtMost
  <2> HIDE DEF descs
  <2>4. /\ rxDescs' \in Seq(Addr) /\ FramesIn(rxDescs') \subseteq FramesIn(rxDescs)
        /\ Distinct(rxDescs') /\ Apart(args', rxDescs')
    BY <2>1, <2>3, SplitFrames
  <2> QED BY <2>1, <2>2, <2>4, FillCallIInv DEF Apart
<1>7. ASSUME DropReceived
      PROVE  IInv'
  BY <1>7, DropReceivedIInv
<1>5. ASSUME PollCall
      PROVE  IInv'
  <2>1. /\ call = "none" /\ call' \in {"none", "poll"} /\ numReceived' \in Nat
        /\ UNCHANGED <<rings, kernel, books, rxDescs, args, num>>
    BY <1>5 DEF PollCall, IInv, TypeOK
  <2>2. num' \in Nat
    BY <2>1 DEF IInv, TypeOK
  <2> QED BY <2>1, <2>2, CallStepIInv DEF CallState
<1>6. ASSUME CompleteCall
      PROVE  IInv'
  BY <1>6, CallStepIInv DEF CompleteCall, CallState, IInv, TypeOK
<1> QED BY <1>1, <1>2, <1>3, <1>4, <1>5, <1>6, <1>7 DEF ProgramNext

(* Every later step of a method keeps the invariant. *)
LEMMA MethodIInv ==
  ASSUME IInv, MethodNext
  PROVE  IInv'
<1>1. ASSUME SendToReturns PROVE IInv'
  BY <1>1, CallStepIInv DEF SendToReturns, CallState, IInv, TypeOK
<1>2. ASSUME SendToPanics PROVE IInv'
  BY <1>2, CallStepIInv DEF SendToPanics, Panic, CallState, IInv, TypeOK
<1>3. ASSUME PollFails PROVE IInv'
  BY <1>3, CallStepIInv DEF PollFails, CallState, IInv, TypeOK
<1>4. ASSUME PollCounts PROVE IInv'
  <2>1. num' \in Nat /\ num' <= Len(completionRing) /\ numReceived' \in Nat
    BY <1>4 DEF PollCounts, IInv, TypeOK
  <2> QED BY <1>4, <2>1, CallStepIInv DEF PollCounts, CallState
<1> QED BY <1>1, <1>2, <1>3, <1>4, FillReturnIInv, ReceiveReturnIInv,
           TransmitPublishIInv, CompleteReturnIInv DEF MethodNext

(* Whatever the program, a method in progress or the kernel does next, in  *)
(* any order, the invariant is kept.                                       *)
LEMMA NextIInv ==
  ASSUME IInv, [Next]_vars
  PROVE  IInv'
<1>1. CASE ProgramNext  BY <1>1, ProgramIInv
<1>2. CASE MethodNext  BY <1>2, MethodIInv
<1>3. CASE KernelNext
  BY <1>3, KernelTakesBufferIInv, KernelReceivesIInv, KernelTakesTxIInv, KernelCompletesIInv
     DEF KernelNext
<1>4. CASE UNCHANGED vars
  BY <1>4 DEF vars, rings, kernel, books, program, IInv, TypeOK, CountersExact,
     FreeListsExact, SidesKept, RxApart, TxApart, CallConsistent, RingsFit, BuffersAligned
<1> QED BY <1>1, <1>2, <1>3, <1>4 DEF Next

(* The invariant implies that no frame is in two places: the receive       *)
(* direction and the transmit direction have different frames (xdp.go:     *)
(* 554-559), and within a direction the places are apart.                  *)
LEMMA IInvExclusive ==
  ASSUME IInv
  PROVE  FrameExclusive
<1>1. Searched(TRUE) \cap Searched(FALSE) = {}
  BY OptionsAssumption DEF Searched
<1>2. /\ Distinct(args)
      /\ Apart(args, fillRing) /\ Apart(args, kernelRx) /\ Apart(args, rxRing)
      /\ Apart(args, rxDescs)
      /\ Apart(args, txRing) /\ Apart(args, kernelTx) /\ Apart(args, completionRing)
  <2>1. CASE call = "Fill"
    BY <1>1, <2>1, EmptyFrames DEF IInv, SidesKept, CallConsistent, Apart
  <2>2. CASE call = "Transmit"
    BY <1>1, <2>2 DEF IInv, SidesKept, CallConsistent, Apart
  <2>3. CASE call \notin {"Fill", "Transmit"}
    BY <2>3, EmptyFrames DEF IInv, CallConsistent, Apart
  <2> QED BY <2>1, <2>2, <2>3
<1>3. /\ Apart(fillRing, txRing) /\ Apart(fillRing, kernelTx) /\ Apart(fillRing, completionRing)
      /\ Apart(kernelRx, txRing) /\ Apart(kernelRx, kernelTx) /\ Apart(kernelRx, completionRing)
      /\ Apart(rxRing, txRing) /\ Apart(rxRing, kernelTx) /\ Apart(rxRing, completionRing)
      /\ Apart(rxDescs, txRing) /\ Apart(rxDescs, kernelTx) /\ Apart(rxDescs, completionRing)
  BY <1>1 DEF IInv, SidesKept, Apart
<1>4. \A s, t : Apart(s, t) => Apart(t, s)
  BY DEF Apart
<1>5. DOMAIN Places = 1 .. 8
  BY DEF Places
<1>6. \A p \in 1 .. 8 : Distinct(Places[p])
  BY <1>2 DEF Places, IInv, RxApart, TxApart
<1>7. \A p, q \in 1 .. 8 : p < q => Apart(Places[p], Places[q])
  BY <1>2, <1>3, <1>4 DEF Places, IInv, RxApart, TxApart
<1>8. \A p, q \in 1 .. 8 : p # q => Apart(Places[p], Places[q])
  BY <1>4, <1>7
<1> SUFFICES ASSUME NEW p \in 1 .. 8, NEW q \in 1 .. 8,
                    NEW i \in 1 .. Len(Places[p]), NEW j \in 1 .. Len(Places[q]),
                    FrameOf(Places[p][i]) = FrameOf(Places[q][j])
             PROVE  p = q /\ i = j
  BY <1>5 DEF FrameExclusive
<1>9. /\ FrameOf(Places[p][i]) \in FramesIn(Places[p])
      /\ FrameOf(Places[q][j]) \in FramesIn(Places[q])
  BY DEF FramesIn
<1>10. p = q
  BY <1>8, <1>9 DEF Apart
<1> QED BY <1>6, <1>10 DEF Distinct

(* A ring without repetition holds as many frames as it has entries. *)
LEMMA DistinctCount ==
  ASSUME NEW s \in Seq(Addr), Distinct(s)
  PROVE  IsFiniteSet(FramesIn(s)) /\ Cardinality(FramesIn(s)) = Len(s)
<1> DEFINE f == [i \in 1 .. Len(s) |-> FrameOf(s[i])]
<1>1. f \in [1 .. Len(s) -> FramesIn(s)]
  BY DEF FramesIn
<1>2. \A i, j \in 1 .. Len(s) : f[i] = f[j] => i = j
  BY DEF Distinct
<1>3. \A t \in FramesIn(s) : \E i \in 1 .. Len(s) : f[i] = t
  BY DEF FramesIn
<1> HIDE DEF f
<1>4. ExistsBijection(1 .. Len(s), FramesIn(s))
  <2>1. f \in Bijection(1 .. Len(s), FramesIn(s))
    BY <1>1, <1>2, <1>3, Fun_IsBij
  <2> QED BY <2>1 DEF ExistsBijection
<1>5. IsFiniteSet(1 .. Len(s))
  BY FS_Interval
<1>6. Cardinality(FramesIn(s)) = Len(s)
  BY <1>4, FS_CountingElements
<1> QED
  BY <1>4, <1>5, <1>6, FS_Bijection

(* Two sets of frames of the receive side that have none in common are     *)
(* together no more than the Fill ring has slots: GetDescs searches no     *)
(* further for rx (xdp.go:563-571).                                        *)
LEMMA RxFramesBounded ==
  ASSUME NEW S \in SUBSET Searched(TRUE), NEW T \in SUBSET Searched(TRUE), S \cap T = {}
  PROVE  /\ IsFiniteSet(S) /\ IsFiniteSet(T)
         /\ Cardinality(S) \in Nat /\ Cardinality(T) \in Nat
         /\ Cardinality(S) + Cardinality(T) <= FillRingNumDescs
<1>1. FillRingNumDescs \in Nat \ {0}
  BY OptionsAssumption
<1>2. /\ IsFiniteSet(Searched(TRUE))
      /\ Cardinality(Searched(TRUE)) = FillRingNumDescs
  <2>1. Searched(TRUE) = 0 .. FillRingNumDescs - 1
    BY DEF Searched
  <2>2. FillRingNumDescs - 1 \in Int
    BY <1>1
  <2>3. /\ IsFiniteSet(0 .. FillRingNumDescs - 1)
        /\ Cardinality(0 .. FillRingNumDescs - 1) =
             IF 0 > FillRingNumDescs - 1 THEN 0 ELSE (FillRingNumDescs - 1) - 0 + 1
    BY <2>2, FS_Interval
  <2>4. (IF 0 > FillRingNumDescs - 1 THEN 0 ELSE (FillRingNumDescs - 1) - 0 + 1) =
          FillRingNumDescs
    BY <1>1
  <2> QED BY <2>1, <2>3, <2>4, Zenon
<1>3. IsFiniteSet(S) /\ IsFiniteSet(T)
  BY <1>2, FS_Subset
<1>4. Cardinality(S) \in Nat /\ Cardinality(T) \in Nat
  BY <1>3, FS_CardinalityType
<1>5. Cardinality(S \cup T) = Cardinality(S) + Cardinality(T)
  <2>1. Cardinality(S \cup T) = Cardinality(S) + Cardinality(T) - Cardinality(S \cap T)
    BY <1>3, FS_Union
  <2>2. Cardinality(S \cap T) = 0
    BY FS_EmptySet
  <2> QED BY <1>4, <2>1, <2>2
<1>6. Cardinality(S \cup T) <= Cardinality(Searched(TRUE))
  <2>1. S \cup T \in SUBSET Searched(TRUE)
    OBVIOUS
  <2> QED BY <1>2, <2>1, FS_Subset
<1> QED BY <1>2, <1>3, <1>4, <1>5, <1>6

(* Fill cuts nothing off what GetDescs returned (xdp.go:402-405). *)
LEMMA IInvFreeFramesFit == IInv => FreeFramesFit
<1> SUFFICES ASSUME IInv PROVE FreeFramesFit
  OBVIOUS
<1>1. Cardinality(FramesIn(fillRing)) = Len(fillRing)
  BY DistinctCount DEF IInv, TypeOK, RxApart
<1>2. FramesIn(fillRing) \in SUBSET Searched(TRUE)
  BY DEF IInv, SidesKept
<1>3. FreeFrames(TRUE) = {f \in Searched(TRUE) \cap Frame : freeRXDescs[f]}
  BY DEF FreeFrames
<1>4. FramesIn(fillRing) \cap FreeFrames(TRUE) = {}
  BY <1>3 DEF IInv, FreeListsExact
<1>5. FreeFrames(TRUE) \in SUBSET Searched(TRUE)
  BY <1>3
<1>6. Cardinality(FramesIn(fillRing)) + Cardinality(FreeFrames(TRUE)) <= FillRingNumDescs
  BY <1>2, <1>4, <1>5, RxFramesBounded
<1> QED BY <1>1, <1>6 DEF FreeFramesFit

(* A buffer the kernel holds takes none of the slots of the Rx ring. *)
LEMMA IInvRxRingHasRoom == IInv => RxRingHasRoom
<1> SUFFICES ASSUME IInv, RxRingNumDescs >= FillRingNumDescs, kernelRx # << >>
             PROVE  Len(rxRing) < RxRingNumDescs
  BY DEF RxRingHasRoom
<1>1. /\ Cardinality(FramesIn(rxRing)) = Len(rxRing)
      /\ Cardinality(FramesIn(kernelRx)) = Len(kernelRx)
  BY DistinctCount DEF IInv, TypeOK, RxApart
<1>2. FramesIn(kernelRx) \cap FramesIn(rxRing) = {}
  BY DEF IInv, RxApart, Apart
<1>3. Len(kernelRx) + Len(rxRing) <= FillRingNumDescs
  BY <1>1, <1>2, RxFramesBounded DEF IInv, SidesKept
<1>4. Len(kernelRx) > 0 /\ Len(kernelRx) \in Nat /\ Len(rxRing) \in Nat
  BY DEF IInv, TypeOK
<1> QED BY <1>3, <1>4, OptionsAssumption

(* The state of Socket keeps its types (xdp.go:137-154). *)
THEOREM TypeCorrect == Spec => []TypeOK
<1>1. IInv => TypeOK  BY DEF IInv
<1> QED BY <1>1, InitIInv, NextIInv, PTL DEF Spec

(* No UMEM frame is ever in two places: on two rings, with the kernel and  *)
(* on a ring, with the kernel and read by the program, or queued twice.    *)
(* It holds for any number of frames, any sizes of frames and rings, and   *)
(* any interleaving of the program with the kernel inside Fill, Receive,   *)
(* Transmit, Poll and Complete (xdp.go:401-534,635-647), for programs that *)
(* transmit no received frame and do not fill what GetDescs gives of the   *)
(* frames they still hold; Rebroadcast and HeldFrames are about the rest.  *)
THEOREM FrameExclusiveAlways == Spec => []FrameExclusive
<1> QED BY InitIInv, NextIInv, IInvExclusive, PTL DEF Spec

(* numFilled and numTransmitted always count what the kernel still owes,   *)
(* so the events Poll waits for are the right ones (xdp.go:508-516).       *)
THEOREM CountersExactAlways == Spec => []CountersExact
<1>1. IInv => CountersExact  BY DEF IInv
<1> QED BY <1>1, InitIInv, NextIInv, PTL DEF Spec

(* A frame is marked free exactly when its direction is done with it       *)
(* (xdp.go:411,435,459,641): none leaks, none is handed out early.         *)
THEOREM FreeListsExactAlways == Spec => []FreeListsExact
<1>1. IInv => FreeListsExact  BY DEF IInv
<1> QED BY <1>1, InitIInv, NextIInv, PTL DEF Spec

(* No ring ever holds more entries than it has slots, although the free    *)
(* slots are counted before and filled after the kernel ran (xdp.go:402-   *)
(* 414,450-462): this is what lets a ring be modelled as a queue.          *)
THEOREM RingsFitAlways == Spec => []RingsFit
<1>1. IInv => RingsFit  BY DEF IInv
<1> QED BY <1>1, InitIInv, NextIInv, PTL DEF Spec

(* What GetDescs returns for rx fits on the Fill ring, so that Fill cuts   *)
(* nothing (xdp.go:402-405) and dumpframes.go:90 may ignore its result,    *)
(* also when there are fewer frames than Fill ring slots.                  *)
THEOREM FreeFramesFitAlways == Spec => []FreeFramesFit
<1> QED BY InitIInv, NextIInv, IInvFreeFramesFit, PTL DEF Spec

(* The kernel drops no packet for want of an Rx slot when the Rx ring is   *)
(* as large as the Fill ring (xdp.go:118-120).                             *)
THEOREM RxRingHasRoomAlways == Spec => []RxRingHasRoom
<1> QED BY InitIInv, NextIInv, IInvRxRingHasRoom, PTL DEF Spec
-----------------------------------------------------------------------------
(* Whatever the options, and whichever method panics: up to that point,    *)
(* and while the kernel goes on after it, frames and books are right.      *)

(* A panic (xdp.go:528,564,684,739) leaves the rings and the books as they *)
(* are.                                                                    *)
LEMMA PanicIInv ==
  ASSUME IInv, PanicNext
  PROVE  IInv'
<1>1. ASSUME NEW kind \in {"nil panic", "index panic"},
             call \in {"none", "poll"}, Panic(kind)
      PROVE  IInv'
  BY <1>1, CallStepIInv DEF Panic, CallState, IInv, TypeOK
<1> QED BY <1>1 DEF PanicNext, PollPanics, StatsPanics, FillFreePanics

(* With or without panics the inductive invariant of XdpSocket holds       *)
(* (xdp.go:397-647).                                                       *)
LEMMA PanicSpecIInv == PanicSpec => []IInv
<1>1. IInv /\ [Next \/ PanicNext]_vars => IInv'
  BY NextIInv, PanicIInv
<1> QED BY <1>1, InitIInv, PTL DEF PanicSpec

(* No frame is ever in two places, for options that make a method panic    *)
(* too and for the programs of FrameExclusiveAlways                        *)
(* (xdp.go:411,435,459,641).                                               *)
THEOREM FrameExclusiveUntilPanic == PanicSpec => []FrameExclusive
<1>1. IInv => FrameExclusive
  BY IInvExclusive
<1> QED BY <1>1, PanicSpecIInv, PTL

(* numFilled and numTransmitted count what the kernel owes, for options    *)
(* that make a method panic too (xdp.go:416,440,464,646).                  *)
THEOREM CountersExactUntilPanic == PanicSpec => []CountersExact
<1>1. IInv => CountersExact
  BY DEF IInv
<1> QED BY <1>1, PanicSpecIInv, PTL
-----------------------------------------------------------------------------
(* The receive loop of dumpframes.go uses the socket as its methods ask,   *)
(* and Receive finds what Poll counted.                                    *)

LoopLabel == {"count", "fill", "poll", "polled", "print", "returned"}

(* The method that may be in progress at each point of the loop. *)
LoopCall ==
  /\ pc \in LoopLabel
  /\ pc \in {"count", "fill", "returned"} => call = "none"
  /\ pc = "poll" => call \in {"none", "Fill"}
  /\ pc = "polled" => call \in {"none", "poll"}
  /\ pc = "print" => call \in {"none", "Receive"}

(* The loop transmits nothing. *)
NothingSent == txRing = << >> /\ kernelTx = << >> /\ completionRing = << >>

(* The slots that were counted are still free when Fill is called, and     *)
(* after it the kernel has at least one frame: Poll enters poll(2).        *)
SlotsCounted ==
  /\ slots \in Nat
  /\ pc = "fill" => slots > 0 /\ slots <= FillRingNumDescs - Len(fillRing)
  /\ pc = "poll" /\ call = "none" => numFilled > 0
  /\ pc = "poll" /\ call = "Fill" => numFilled + Len(args) > 0

LoopInv == IInv /\ LoopCall /\ NothingSent /\ SlotsCounted /\ PollCountStillHolds
-----------------------------------------------------------------------------
(* There are never more descriptors on the Rx ring than frames, so the     *)
(* count of Poll (xdp.go:528) is one Receive can be asked for.             *)
LEMMA RxRingBounded ==
  ASSUME IInv
  PROVE  Len(rxRing) \in Nat /\ Len(rxRing) <= NumFrames
<1>1. IsFiniteSet(FramesIn(rxRing)) /\ Cardinality(FramesIn(rxRing)) = Len(rxRing)
  BY DistinctCount DEF IInv, TypeOK, RxApart
<1>2. FramesIn(rxRing) \in SUBSET Frame
  BY FramesInType DEF IInv, TypeOK
<1>3. IsFiniteSet(Frame) /\ Cardinality(Frame) = NumFrames
  BY OptionsAssumption, FS_Interval DEF Frame
<1>4. Cardinality(FramesIn(rxRing)) <= NumFrames
  BY <1>2, <1>3, FS_Subset
<1> QED
  BY <1>1, <1>4 DEF IInv, TypeOK

(* A search that stays on the free list is for no more descriptors than    *)
(* there are frames (xdp.go:550-571).                                      *)
LEMMA SlotsRequested ==
  ASSUME NEW n \in Nat, n <= FillRingNumDescs, ~GetDescsPanics(n, TRUE)
  PROVE  n \in Request
<1>0. NumFrames \in Nat \ {0} /\ FillRingNumDescs \in Nat \ {0}
  BY OptionsAssumption
<1>1. IsFiniteSet(Frame) /\ Cardinality(Frame) = NumFrames
  BY OptionsAssumption, FS_Interval DEF Frame
<1>2. FreeFrames(TRUE) \in SUBSET Frame
  BY DEF FreeFrames
<1>3. Cardinality(FreeFrames(TRUE)) \in Nat /\ Cardinality(FreeFrames(TRUE)) <= NumFrames
  BY <1>1, <1>2, FS_Subset, FS_CardinalityType
<1>4. Capped(n, TRUE) = n
  BY <1>0 DEF Capped, AtMost
<1>5. n <= NumFrames
  <2>1. CASE Searched(TRUE) \subseteq Frame
    <3>1. FillRingNumDescs - 1 \in Frame
      BY <1>0, <2>1 DEF Searched
    <3> QED
      BY <1>0, <3>1 DEF Frame
  <2>2. CASE ~(Searched(TRUE) \subseteq Frame)
    <3> DEFINE free == Cardinality(FreeFrames(TRUE))
    <3>1. ~(free < n)
      BY <1>4, <2>2, Zenon DEF GetDescsPanics
    <3>2. free \in Nat /\ free <= NumFrames
      BY <1>3
    <3> HIDE DEF free
    <3> QED
      BY <1>0, <3>1, <3>2
  <2> QED
    BY <2>1, <2>2
<1> QED
  BY <1>0, <1>5 DEF Request

(* Every step of the loop is a call of the socket the way its methods ask, *)
(* or leaves the socket alone (dumpframes.go:83-121).                      *)
LEMMA LoopStep ==
  ASSUME LoopInv, [DumpNext]_allVars
  PROVE  [Next]_vars
<1>1. CASE CountSlots \/ LogFrames
  BY <1>1 DEF CountSlots, LogFrames, Next, ProgramNext
<1>2. CASE Refill
  <2>0. Len(fillRing) \in Nat /\ FillRingNumDescs \in Nat
    BY OptionsAssumption DEF LoopInv, IInv, TypeOK
  <2>1. slots \in Nat /\ slots <= FillRingNumDescs
    BY <1>2, <2>0 DEF LoopInv, SlotsCounted, Refill, Goto
  <2>2. slots \in Request
    BY <1>2, <2>1, SlotsRequested DEF Refill, FillFree
  <2> QED
    BY <1>2, <2>2 DEF Refill, Next, ProgramNext
<1>3. CASE EnterPoll
  BY <1>3 DEF EnterPoll, Next, ProgramNext
<1>4. CASE Wake \/ Fail
  BY <1>4 DEF Wake, Fail, Next, MethodNext
<1>5. CASE AfterPoll
  <2>1. CASE numReceived > 0
    <3>1. Goto("polled", "print") /\ ReceiveCall(numReceived) /\ call = "none"
      BY <1>5, <2>1 DEF AfterPoll
    <3>2. numReceived \in Nat /\ numReceived <= Len(rxRing)
      BY <3>1 DEF LoopInv, PollCountStillHolds, Goto, IInv, TypeOK
    <3>3. numReceived \in Request
      BY <3>2, RxRingBounded, OptionsAssumption DEF LoopInv, Request
    <3> QED
      BY <3>1, <3>3 DEF Next, ProgramNext
  <2>2. CASE ~(numReceived > 0)
    BY <1>5, <2>2 DEF AfterPoll
  <2> QED
    BY <2>1, <2>2
<1>6. CASE MethodReturns
  BY <1>6 DEF MethodReturns, Next, MethodNext
<1>7. CASE KernelRxNext
  BY <1>7 DEF KernelRxNext, Next, KernelNext
<1>8. CASE UNCHANGED allVars
  BY <1>8 DEF allVars
<1> QED
  BY <1>1, <1>2, <1>3, <1>4, <1>5, <1>6, <1>7, <1>8 DEF DumpNext, LoopNext

(* Fill leaves the kernel at least one frame: what GetDescs finds, or what *)
(* was out already when it finds none (dumpframes.go:85-91).               *)
LEMMA RefillSupplies ==
  ASSUME LoopInv, Refill
  PROVE  numFilled + Len(args') > 0
<1>0. /\ Len(fillRing) \in Nat /\ Len(kernelRx) \in Nat /\ Len(rxRing) \in Nat
      /\ FillRingNumDescs \in Nat \ {0} /\ NumFrames \in Nat \ {0}
      /\ numFilled = Len(fillRing) + Len(kernelRx) + Len(rxRing)
      /\ slots \in Nat /\ slots > 0 /\ slots <= FillRingNumDescs - Len(fillRing)
  BY OptionsAssumption DEF LoopInv, IInv, TypeOK, CountersExact, SlotsCounted, Refill, Goto
<1>1. PICK descs \in GetDescs(slots, TRUE) : FillCall(descs)
  BY DEF Refill, FillFree
<1> DEFINE free == Cardinality(FreeFrames(TRUE))
<1>2. /\ descs \in Seq(Addr) /\ free \in Nat
      /\ Len(descs) = AtMost(Capped(slots, TRUE), free)
  BY <1>0, <1>1, GetDescsFrames
<1> HIDE DEF free
<1>3. args' = Prefix(descs, FillRingNumDescs - Len(fillRing))
  BY <1>1 DEF FillCall
<1>4. args' \in Seq(Addr) /\ Len(args') \in Nat
  <2>1. FillRingNumDescs - Len(fillRing) \in Nat
    BY <1>0
  <2>2. args' \in Seq(Addr)
    BY <1>2, <1>3, <2>1, PrefixFrames
  <2> QED
    BY <2>2
<1>5. CASE numFilled > 0
  BY <1>0, <1>4, <1>5
<1>6. CASE numFilled = 0
  <2>1. fillRing = << >> /\ kernelRx = << >> /\ rxRing = << >>
    BY <1>0, <1>6 DEF LoopInv, IInv, TypeOK
  <2>2. 0 \in Frame /\ 0 \in Searched(TRUE)
    BY <1>0 DEF Frame, Searched
  <2>3. freeRXDescs[0]
    BY <2>1, <2>2, EmptyFrames DEF LoopInv, IInv, FreeListsExact
  <2>4. 0 \in FreeFrames(TRUE)
    BY <2>2, <2>3 DEF FreeFrames
  <2>5. free > 0
    <3>1. IsFiniteSet(FreeFrames(TRUE))
      <4>1. IsFiniteSet(Frame)
        BY OptionsAssumption, FS_Interval DEF Frame
      <4>2. FreeFrames(TRUE) \in SUBSET Frame
        BY DEF FreeFrames
      <4> QED
        BY <4>1, <4>2, FS_Subset
    <3>2. free # 0
      BY <2>4, <3>1, FS_EmptySet DEF free
    <3> QED
      BY <1>2, <3>2
  <2>6. Capped(slots, TRUE) = slots
    BY <1>0 DEF Capped, AtMost
  <2>7. Len(descs) \in Nat /\ Len(descs) > 0 /\ Len(descs) <= FillRingNumDescs - Len(fillRing)
    <3>1. Len(descs) = AtMost(slots, free)
      BY <1>2, <2>6, Zenon
    <3>2. \A a, b \in Nat : a > 0 /\ b > 0 =>
            AtMost(a, b) \in Nat /\ AtMost(a, b) > 0 /\ AtMost(a, b) <= a
      BY DEF AtMost
    <3>3. AtMost(slots, free) \in Nat /\ AtMost(slots, free) > 0 /\ AtMost(slots, free) <= slots
      BY <1>0, <1>2, <2>5, <3>2
    <3>4. Len(descs) \in Nat /\ Len(descs) > 0 /\ Len(descs) <= slots
      BY <3>1, <3>3, Zenon
    <3> QED
      BY <1>0, <3>4
  <2>8. Len(args') = Len(descs)
    <3>1. FillRingNumDescs - Len(fillRing) \in Nat
      BY <1>0
    <3> QED
      BY <1>2, <1>3, <2>7, <3>1, PrefixFrames
  <2> QED
    BY <1>6, <2>7, <2>8
<1> QED
  BY <1>0, <1>5, <1>6

(* The loop starts with an empty socket. *)
LEMMA InitLoopInv == DumpInit => LoopInv
<1> SUFFICES ASSUME DumpInit PROVE LoopInv
  OBVIOUS
<1>1. IInv
  BY InitIInv DEF DumpInit
<1>2. LoopCall /\ PollCountStillHolds
  BY DEF DumpInit, Init, LoopCall, LoopLabel, PollCountStillHolds
<1>3. NothingSent /\ SlotsCounted
  BY DEF DumpInit, Init, NothingSent, SlotsCounted
<1> QED
  BY <1>1, <1>2, <1>3 DEF LoopInv

(* Every step of the loop and of the kernel keeps the invariant: what the  *)
(* loop counted may only get better until it acts on it.                   *)
LEMMA NextLoopInv ==
  ASSUME LoopInv, [DumpNext]_allVars
  PROVE  LoopInv'
<1> USE DEF LoopInv
<1>i. IInv'
  BY LoopStep, NextIInv
<1>n. /\ Len(fillRing) \in Nat /\ Len(rxRing) \in Nat /\ Len(kernelRx) \in Nat
      /\ FillRingNumDescs \in Nat \ {0}
      /\ numFilled = Len(fillRing) + Len(kernelRx) + Len(rxRing)
  BY OptionsAssumption DEF IInv, TypeOK, CountersExact
<1>1. CASE CountSlots
  <2>1. /\ call = "none" /\ slots' = FillRingNumDescs - Len(fillRing) /\ pc = "count"
        /\ pc' = IF slots' > 0 THEN "fill" ELSE "poll"
        /\ UNCHANGED <<rings, kernel, books, program>>
    BY <1>1 DEF CountSlots, Goto, vars
  <2>2. slots' \in Nat
    BY <1>n, <2>1 DEF IInv, RingsFit
  <2>3. LoopCall'
    BY <2>1 DEF LoopCall, LoopLabel, program
  <2>4. NothingSent'
    BY <2>1 DEF NothingSent, rings, kernel
  <2>5. SlotsCounted'
    <3>1. fillRing' = fillRing /\ numFilled' = numFilled /\ call' = "none"
      BY <2>1 DEF rings, books, program
    <3>2. CASE slots' > 0
      BY <2>1, <2>2, <3>1, <3>2 DEF SlotsCounted
    <3>3. CASE ~(slots' > 0)
      <4>1. numFilled > 0
        BY <1>n, <2>1, <2>2, <3>3
      <4> QED
        BY <2>1, <2>2, <3>1, <3>3, <4>1 DEF SlotsCounted
    <3> QED
      BY <3>2, <3>3
  <2>6. PollCountStillHolds'
    BY <2>1 DEF PollCountStillHolds
  <2> QED
    BY <1>i, <2>3, <2>4, <2>5, <2>6
<1>2. CASE Refill
  <2>1. PICK descs \in GetDescs(slots, TRUE) : FillCall(descs)
    BY <1>2 DEF Refill, FillFree
  <2>2. /\ pc' = "poll" /\ slots' = slots /\ call' = "Fill"
        /\ UNCHANGED <<rings, kernel, books>>
    BY <1>2, <2>1 DEF Refill, Goto, FillCall
  <2>3. numFilled' + Len(args') > 0
    BY <1>2, <2>2, RefillSupplies DEF books
  <2>4. LoopCall' /\ PollCountStillHolds'
    BY <2>2 DEF LoopCall, LoopLabel, PollCountStillHolds
  <2>5. NothingSent'
    BY <2>2 DEF NothingSent, rings, kernel
  <2>6. SlotsCounted'
    BY <2>2, <2>3 DEF SlotsCounted
  <2> QED
    BY <1>i, <2>4, <2>5, <2>6
<1>3. CASE EnterPoll
  <2>1. pc = "poll" /\ pc' = "polled" /\ slots' = slots /\ PollCall
    BY <1>3 DEF EnterPoll, Goto
  <2>2. numFilled > 0
    BY <2>1 DEF PollCall, SlotsCounted
  <2>3. call' = "poll" /\ UNCHANGED <<rings, kernel, books>>
    BY <2>1, <2>2 DEF PollCall
  <2>4. LoopCall' /\ PollCountStillHolds'
    BY <2>1, <2>3 DEF LoopCall, LoopLabel, PollCountStillHolds
  <2>5. NothingSent' /\ SlotsCounted'
    BY <2>1, <2>3 DEF NothingSent, SlotsCounted, rings, kernel
  <2> QED
    BY <1>i, <2>4, <2>5
<1>4. CASE Wake
  <2>1. /\ rxRing # << >> /\ call = "poll" /\ numReceived' = Len(rxRing)
        /\ num' = Len(completionRing) /\ call' = (IF num' > 0 THEN "Complete" ELSE "none")
        /\ UNCHANGED <<rings, kernel, books, args>> /\ pc' = pc /\ slots' = slots
    BY <1>4 DEF Wake, PollCounts, dumpVars
  <2>2. num' = 0 /\ call' = "none"
    <3>1. num' = 0
      BY <2>1 DEF NothingSent
    <3> QED
      BY <2>1, <3>1
  <2>3. pc = "polled"
    BY <2>1 DEF LoopCall, LoopLabel
  <2>4. numReceived' > 0 /\ numReceived' <= Len(rxRing')
    BY <1>n, <2>1 DEF rings, IInv, TypeOK
  <2>5. LoopCall' /\ PollCountStillHolds'
    BY <2>1, <2>2, <2>3, <2>4 DEF LoopCall, LoopLabel, PollCountStillHolds
  <2>6. NothingSent' /\ SlotsCounted'
    BY <2>1, <2>3 DEF NothingSent, SlotsCounted, rings, kernel
  <2> QED
    BY <1>i, <2>5, <2>6
<1>5. CASE Fail
  <2>1. pc' = "returned" /\ slots' = slots /\ call' = "none" /\ UNCHANGED <<rings, kernel>>
    BY <1>5 DEF Fail, PollFails, Goto
  <2>2. LoopCall' /\ PollCountStillHolds' /\ NothingSent' /\ SlotsCounted'
    BY <2>1 DEF LoopCall, LoopLabel, PollCountStillHolds, NothingSent, SlotsCounted, rings, kernel
  <2> QED
    BY <1>i, <2>2
<1>6. CASE AfterPoll
  <2>1. pc = "polled" /\ call = "none" /\ slots' = slots
    BY <1>6 DEF AfterPoll, Goto
  <2>2. numReceived > 0
    BY <2>1 DEF PollCountStillHolds
  <2>3. pc' = "print" /\ call' = "Receive" /\ UNCHANGED <<rings, kernel>>
    BY <1>6, <2>2 DEF AfterPoll, ReceiveCall, Goto
  <2>4. LoopCall' /\ PollCountStillHolds' /\ NothingSent' /\ SlotsCounted'
    BY <2>1, <2>3
       DEF LoopCall, LoopLabel, PollCountStillHolds, NothingSent, SlotsCounted, rings, kernel
  <2> QED
    BY <1>i, <2>4
<1>7. CASE LogFrames
  <2>1. pc' = "count" /\ call' = "none" /\ slots' = slots /\ UNCHANGED <<rings, kernel>>
    BY <1>7 DEF LogFrames, DropReceived, Goto
  <2>2. LoopCall' /\ PollCountStillHolds' /\ NothingSent' /\ SlotsCounted'
    BY <2>1 DEF LoopCall, LoopLabel, PollCountStillHolds, NothingSent, SlotsCounted, rings, kernel
  <2> QED
    BY <1>i, <2>2
<1>8. CASE MethodReturns
  <2>0. pc' = pc /\ slots' = slots
    BY <1>8 DEF MethodReturns, dumpVars
  <2>1. CASE FillReturn
    <3>1. /\ call = "Fill" /\ call' = "none" /\ numFilled' = numFilled + Len(args)
          /\ UNCHANGED <<txRing, completionRing, kernelTx>>
      BY <2>1 DEF FillReturn, kernel
    <3>2. pc = "poll"
      BY <3>1 DEF LoopCall, LoopLabel
    <3>3. numFilled' > 0
      BY <3>1, <3>2 DEF SlotsCounted
    <3>4. LoopCall' /\ PollCountStillHolds' /\ NothingSent' /\ SlotsCounted'
      BY <2>0, <3>1, <3>2, <3>3
         DEF LoopCall, LoopLabel, PollCountStillHolds, NothingSent, SlotsCounted
    <3> QED
      BY <1>i, <3>4
  <2>2. CASE ReceiveReturn
    <3>1. /\ call = "Receive" /\ call' = "none"
          /\ UNCHANGED <<txRing, completionRing, kernelTx>>
      BY <2>2 DEF ReceiveReturn, kernel
    <3>2. pc = "print"
      BY <3>1 DEF LoopCall, LoopLabel
    <3>3. LoopCall' /\ PollCountStillHolds' /\ NothingSent' /\ SlotsCounted'
      BY <2>0, <3>1, <3>2
         DEF LoopCall, LoopLabel, PollCountStillHolds, NothingSent, SlotsCounted
    <3> QED
      BY <1>i, <3>3
  <2> QED
    BY <1>8, <2>1, <2>2 DEF MethodReturns
<1>9. CASE KernelRxNext /\ UNCHANGED dumpVars
  <2>1. /\ pc' = pc /\ slots' = slots /\ UNCHANGED <<books, program, txRing, completionRing, kernelTx>>
    BY <1>9 DEF KernelRxNext, KernelTakesBuffer, KernelReceives, dumpVars
  <2>2. Len(fillRing') \in Nat /\ Len(rxRing') \in Nat
        /\ Len(fillRing') <= Len(fillRing) /\ Len(rxRing') >= Len(rxRing)
    <3>1. CASE KernelTakesBuffer
      BY <1>n, <3>1, TailFrames DEF KernelTakesBuffer, IInv, TypeOK
    <3>2. CASE \E j \in 1 .. Len(kernelRx) : KernelReceives(j)
      <4>1. PICK j \in 1 .. Len(kernelRx) : KernelReceives(j)
        BY <3>2
      <4>2. rxRing' = Append(rxRing, kernelRx[j] + Headroom) /\ fillRing' = fillRing
        BY <4>1 DEF KernelReceives
      <4>3. rxRing \in Seq(Addr) /\ rxRing' \in Seq(Addr)
        BY <1>i DEF IInv, TypeOK
      <4>4. Len(rxRing') = Len(rxRing) + 1
        BY <4>2, <4>3
      <4> QED
        BY <1>n, <4>2, <4>4
    <3> QED
      BY <1>9, <3>1, <3>2 DEF KernelRxNext
  <2>3. LoopCall' /\ NothingSent'
    BY <2>1 DEF LoopCall, NothingSent, program
  <2>4. SlotsCounted'
    BY <1>n, <2>1, <2>2 DEF SlotsCounted, books, program
  <2>5. PollCountStillHolds'
    <3>1. numReceived \in Nat
      BY DEF IInv, TypeOK
    <3> QED
      BY <1>n, <2>1, <2>2, <3>1 DEF PollCountStillHolds, program
  <2> QED
    BY <1>i, <2>3, <2>4, <2>5
<1>10. CASE UNCHANGED allVars
  BY <1>i, <1>10 DEF allVars, vars, dumpVars, rings, kernel, books, program,
                     LoopCall, NothingSent, SlotsCounted, PollCountStillHolds
<1> QED
  BY <1>1, <1>2, <1>3, <1>4, <1>5, <1>6, <1>7, <1>8, <1>9, <1>10 DEF DumpNext, LoopNext

(* The invariant of the loop (dumpframes.go:83-121) holds in every         *)
(* reachable state.                                                        *)
LEMMA LoopInvAlways == DumpSpec => []LoopInv
BY InitLoopInv, NextLoopInv, PTL DEF DumpSpec

(* The loop implements a program that uses the socket as its methods ask,  *)
(* so every theorem about XdpSocket holds of dumpframes.go:83-121.         *)
THEOREM ImplementsSocketAlways == DumpSpec => ImplementsSocket
<1>1. DumpInit => Init
  BY DEF DumpInit
<1>2. LoopInv /\ [DumpNext]_allVars => [Next]_vars
  BY LoopStep
<1> QED
  BY <1>1, <1>2, LoopInvAlways, PTL DEF DumpSpec, ImplementsSocket, Spec

(* Receive(numRx) finds all that Poll counted (dumpframes.go:97-106), and  *)
(* Poll(-1) never returns empty-handed: the loop does not spin.            *)
THEOREM PollCountStillHoldsAlways == DumpSpec => []PollCountStillHolds
<1>1. LoopInv => PollCountStillHolds
  BY DEF LoopInv
<1> QED
  BY <1>1, LoopInvAlways, PTL

(* In particular no frame that the loop prints is with the kernel or on a  *)
(* ring (dumpframes.go:106-119).                                           *)
THEOREM LoopFrameExclusive == DumpSpec => []FrameExclusive
BY ImplementsSocketAlways, FrameExclusiveAlways, PTL DEF ImplementsSocket
=============================================================================
