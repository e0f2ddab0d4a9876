--------------------------- MODULE HashRingProofs ---------------------------
(***************************************************************************)
(* What insert() and purge_if_over_cap() do to any ring.                   *)
(***************************************************************************)
EXTENDS HashRing, Integers, SequenceTheorems, TLAPS

RingsOf(S) == [order : Seq(S), seen : SUBSET S]

LEMMA EmptyRingType ==
  ASSUME NEW S
  PROVE  EmptyRing \in RingsOf(S)
BY DEF EmptyRing, RingsOf

LEMMA RingInsertType ==
  ASSUME NEW S, NEW ring \in RingsOf(S), NEW h \in S
  PROVE  /\ RingInsert(ring, h) \in RingsOf(S)
         /\ RingInsert(ring, h).seen = ring.seen \cup {h}
BY DEF RingInsert, RingsOf, Contains

\* Forgetting the k oldest leaves the others, in order.
LEMMA DropOldestShape ==
  ASSUME NEW S, NEW ring \in RingsOf(S), NEW n \in Nat, n = Len(ring.order),
         NEW k \in 0 .. n
  PROVE  /\ DropOldest(ring, k) \in RingsOf(S)
         /\ DropOldest(ring, k).seen = ring.seen \ {ring.order[i] : i \in 1 .. k}
         /\ Len(DropOldest(ring, k).order) = n - k
         /\ \A i \in 1 .. n - k : DropOldest(ring, k).order[i] = ring.order[k + i]
<1>1. /\ DropOldest(ring, k).order = SubSeq(ring.order, k + 1, n)
      /\ DropOldest(ring, k).seen = ring.seen \ {ring.order[i] : i \in 1 .. k}
  BY DEF DropOldest
<1>2. PICK o \in Seq(S) : o = ring.order
  BY DEF RingsOf
<1>3. \A i \in k + 1 .. n : o[i] \in S
  BY <1>2
<1>4. /\ SubSeq(o, k + 1, n) \in Seq(S)
      /\ Len(SubSeq(o, k + 1, n)) = n - k
      /\ \A i \in 1 .. n - k : SubSeq(o, k + 1, n)[i] = o[k + i]
  BY <1>3, SubSeqProperties
<1>5. DropOldest(ring, k) \in RingsOf(S)
  <2>1. SubSeq(ring.order, k + 1, n) \in Seq(S)
    BY <1>2, <1>4
  <2>2. ring.seen \ {ring.order[i] : i \in 1 .. k} \in SUBSET S
    BY DEF RingsOf
  <2> QED
    BY <2>1, <2>2 DEF DropOldest, RingsOf
<1>6. /\ Len(DropOldest(ring, k).order) = n - k
      /\ \A i \in 1 .. n - k : DropOldest(ring, k).order[i] = ring.order[k + i]
  BY <1>1, <1>2, <1>4
<1> QED
  BY <1>1, <1>5, <1>6

LEMMA HalfType ==
  /\ \A k \in Nat : k \div 2 \in Nat /\ k \div 2 <= k
  /\ \A k, m \in Nat : k >= m => k - k \div 2 >= m - m \div 2
OBVIOUS

LEMMA RingPurgeType ==
  ASSUME NEW S, NEW ring \in RingsOf(S), NEW max \in Nat
  PROVE  /\ RingPurge(ring, max) \in RingsOf(S)
         /\ RingPurge(ring, max).seen \subseteq ring.seen
<1>1. PICK n \in Nat : n = Len(ring.order)
  BY DEF RingsOf
<1>2. PICK half \in 0 .. n : half = n \div 2
  <2>1. n \div 2 \in 0 .. n
    BY HalfType
  <2> QED
    BY <2>1
<1>3. /\ DropOldest(ring, half) \in RingsOf(S)
      /\ DropOldest(ring, half).seen \subseteq ring.seen
  BY <1>1, DropOldestShape
<1>4. RingPurge(ring, max) \in {ring, DropOldest(ring, half)}
  <2>1. Len(ring.order) \div 2 = half
    BY <1>1, <1>2
  <2> QED
    BY <2>1, Zenon DEF RingPurge
<1> QED
  BY <1>3, <1>4

-----------------------------------------------------------------------------
(* A ring whose sequence has no hash twice and none that lookups miss. *)

Sound(ring) ==
  /\ \A i \in 1 .. Len(ring.order) : ring.order[i] \in ring.seen
  /\ \A i, j \in 1 .. Len(ring.order) : ring.order[i] = ring.order[j] => i = j

\* The hash that arrived last.
IsNewest(ring, h) ==
  /\ Len(ring.order) # 0
  /\ ring.order[Len(ring.order)] = h

LEMMA InsertSound ==
  ASSUME NEW S, NEW ring \in RingsOf(S), NEW h \in S, Sound(ring), ~Contains(ring, h)
  PROVE  Sound(RingInsert(ring, h)) /\ IsNewest(RingInsert(ring, h), h)
<1> DEFINE next == RingInsert(ring, h)
<1>1. PICK n \in Nat : n = Len(ring.order)
  BY DEF RingsOf
<1>2. next.order = Append(ring.order, h) /\ next.seen = ring.seen \cup {h}
  BY DEF RingInsert
<1>3. /\ Len(next.order) = n + 1 /\ next.order[n + 1] = h
      /\ \A i \in 1 .. n : next.order[i] = ring.order[i]
  BY <1>1, <1>2 DEF RingsOf
<1> HIDE DEF next
<1>4. \A i \in 1 .. n : ring.order[i] \in ring.seen /\ ring.order[i] # h
  BY <1>1 DEF Sound, Contains
<1>5. \A i \in 1 .. n + 1 : next.order[i] \in next.seen
  BY <1>2, <1>3, <1>4
<1>6. \A i, j \in 1 .. n + 1 : next.order[i] = next.order[j] => i = j
  BY <1>1, <1>3, <1>4 DEF Sound
<1> QED
  BY <1>3, <1>5, <1>6 DEF Sound, IsNewest, next

\* However small the cap, a purge keeps a ring sound and never forgets the
\* hash that arrived last.
LEMMA PurgeSound ==
  ASSUME NEW S, NEW ring \in RingsOf(S), NEW max \in Nat, Sound(ring)
  PROVE  /\ Sound(RingPurge(ring, max))
         /\ \A h : IsNewest(ring, h) => Contains(RingPurge(ring, max), h)
<1>1. PICK n \in Nat : n = Len(ring.order)
  BY DEF RingsOf
<1>2. CASE RingPurge(ring, max) = ring
  BY <1>1, <1>2 DEF Sound, IsNewest, Contains
<1>3. CASE RingPurge(ring, max) # ring
  <2>1. PICK k \in 0 .. n : k = n \div 2 /\ (n # 0 => k < n)
    <3>1. n \div 2 \in 0 .. n /\ (n # 0 => n \div 2 < n)
      OBVIOUS
    <3> QED
      BY <3>1
  <2> DEFINE next == DropOldest(ring, k)
  <2>2. RingPurge(ring, max) = next
    <3>1. ~(Len(ring.order) <= max)
      BY <1>3 DEF RingPurge
    <3>2. RingPurge(ring, max) = DropOldest(ring, Len(ring.order) \div 2)
      BY <3>1, Zenon DEF RingPurge
    <3> QED
      BY <1>1, <2>1, <3>2
  <2>3. /\ next.seen = ring.seen \ {ring.order[i] : i \in 1 .. k}
        /\ Len(next.order) = n - k
        /\ \A i \in 1 .. n - k : next.order[i] = ring.order[k + i]
    BY <1>1, DropOldestShape
  <2> HIDE DEF next
  <2>4. n # 0 => k < n
    BY <2>1
  <2>5. ASSUME NEW i \in 1 .. n - k
        PROVE  k + i \in 1 .. n /\ ring.order[k + i] \in next.seen
    <3>1. k + i \in 1 .. n /\ \A j \in 1 .. k : j \in 1 .. n /\ j # k + i
      OBVIOUS
    <3>2. PICK x \in 1 .. n : x = k + i
      BY <3>1
    <3>3. ring.order[x] \in ring.seen
      BY <1>1 DEF Sound
    <3>4. \A j \in 1 .. k : ring.order[j] # ring.order[x]
      BY <1>1, <3>1, <3>2 DEF Sound
    <3> QED
      BY <2>3, <3>2, <3>3, <3>4
  <2>6. \A i \in 1 .. n - k : next.order[i] \in next.seen
    BY <2>3, <2>5
  <2>7. ASSUME NEW i \in 1 .. n - k, NEW j \in 1 .. n - k, next.order[i] = next.order[j]
        PROVE  i = j
    <3>1. k + i \in 1 .. n /\ k + j \in 1 .. n /\ ring.order[k + i] = ring.order[k + j]
      BY <2>3, <2>5, <2>7
    <3>2. k + i = k + j
      BY <1>1, <3>1 DEF Sound
    <3> QED
      BY <3>2
  <2>8. ASSUME NEW h, IsNewest(ring, h)
        PROVE  h \in next.seen
    <3>1. n # 0 /\ ring.order[n] = h
      BY <1>1, <2>8 DEF IsNewest
    <3>2. n - k \in 1 .. n - k /\ k + (n - k) = n
      BY <2>4, <3>1
    <3> QED
      BY <2>5, <3>1, <3>2
  <2> QED
    BY <2>2, <2>3, <2>6, <2>7, <2>8 DEF Sound, Contains
<1> QED
  BY <1>2, <1>3
=============================================================================
