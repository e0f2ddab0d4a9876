------------------------ MODULE PacketHashListProofs ------------------------
(***************************************************************************)
(* The four promises of the ring, for any cap.  They hold together: which  *)
(* hashes are looked up follows from which are in the sequence, and that   *)
(* the sequence is the newest part of the log says which those are.        *)
(***************************************************************************)
EXTENDS PacketHashList, HashRingProofs

USE SizeAssumption

\* A ring that has ever been purged holds at least what is guaranteed.
EnoughHeld == Held = Len(log) \/ Held >= Guaranteed

IInv == TypeOK /\ LookupAgreesWithAge /\ KeepsNewest /\ EnoughHeld

LEMMA AcceptStep ==
  ASSUME IInv, NEW h \in Hash, Accept(h)
  PROVE  IInv'
<1>0. PICK n : n = Len(ring.order)
  OBVIOUS
<1>1. /\ ring \in RingsOf(Hash) /\ ring.order \in Seq(Hash) /\ log \in Seq(Hash)
      /\ n \in Nat /\ h \notin ring.seen
  BY <1>0 DEF IInv, TypeOK, Accept, Contains, RingsOf
<1>2. /\ ring' = [order |-> Append(ring.order, h), seen |-> ring.seen \cup {h}]
      /\ log' = Append(log, h)
  BY <1>1 DEF Accept, RingInsert
<1>3. /\ Len(ring'.order) = n + 1 /\ Len(log') = Len(log) + 1
      /\ \A i \in 1 .. n : ring'.order[i] = ring.order[i]
      /\ \A i \in 1 .. Len(log) : log'[i] = log[i]
      /\ ring'.order[n + 1] = h /\ log'[Len(log) + 1] = h
  BY <1>0, <1>1, <1>2
<1>4. ring'.seen = ring.seen \cup {h}
  BY <1>2
<1>5. \A i \in 1 .. n : ring.order[i] # h
  BY <1>0, <1>1 DEF IInv, LookupAgreesWithAge, Held
<1>6. TypeOK'
  <2>1. ring' \in [order : Seq(Hash), seen : SUBSET Hash] /\ log' \in Seq(Hash)
    BY <1>1, <1>2 DEF RingsOf
  <2>2. \A i, j \in 1 .. n + 1 : ring'.order[i] = ring'.order[j] => i = j
    BY <1>0, <1>1, <1>3, <1>5 DEF IInv, TypeOK
  <2> QED
    BY <1>3, <2>1, <2>2 DEF TypeOK
<1>7. LookupAgreesWithAge'
  <2>1. ring.seen = {ring.order[i] : i \in 1 .. n}
    BY <1>0 DEF IInv, LookupAgreesWithAge, Held
  <2>2. {ring'.order[i] : i \in 1 .. n + 1} = {ring.order[i] : i \in 1 .. n} \cup {h}
    <3>1. ASSUME NEW i \in 1 .. n + 1
          PROVE  ring'.order[i] \in {ring.order[j] : j \in 1 .. n} \cup {h}
      <4>1. CASE i = n + 1
        BY <1>3, <4>1
      <4>2. CASE i \in 1 .. n
        BY <1>3, <4>2
      <4> QED
        BY <1>1, <4>1, <4>2
    <3>2. ASSUME NEW i \in 1 .. n
          PROVE  i \in 1 .. n + 1 /\ ring'.order[i] = ring.order[i]
      BY <1>1, <1>3
    <3>3. n + 1 \in 1 .. n + 1
      BY <1>1
    <3> QED
      BY <1>3, <3>1, <3>2, <3>3
  <2> QED
    BY <1>3, <1>4, <2>1, <2>2 DEF LookupAgreesWithAge, Held
<1>8. KeepsNewest'
  <2>1. n <= Len(log) /\ Len(log) \in Nat
    BY <1>0, <1>1 DEF IInv, KeepsNewest, Held
  <2>2. ASSUME NEW i \in 1 .. n + 1
        PROVE  ring'.order[i] = log'[(Len(log) + 1) - (n + 1) + i]
    <3> DEFINE k == Len(log) - n + i
    <3>1. (Len(log) + 1) - (n + 1) + i = k
      BY <1>1, <2>1
    <3>2. CASE i = n + 1
      <4>1. k = Len(log) + 1
        BY <1>1, <2>1, <3>2
      <4> QED
        BY <1>3, <3>1, <3>2, <4>1
    <3>3. CASE i \in 1 .. n
      <4>1. k \in 1 .. Len(log)
        BY <1>1, <2>1, <3>3
      <4>2. ring.order[i] = log[k]
        BY <1>0, <3>3 DEF IInv, KeepsNewest, Held
      <4> HIDE DEF k
      <4> QED
        BY <1>3, <3>1, <3>3, <4>1, <4>2
    <3> QED
      BY <1>1, <3>2, <3>3
  <2> QED
    BY <1>1, <1>3, <2>1, <2>2 DEF KeepsNewest, Held
<1>9. EnoughHeld'
  <2>1. Guaranteed \in Int /\ Guaranteed' = Guaranteed
    BY HalfType DEF Guaranteed
  <2> QED
    BY <1>0, <1>1, <1>3, <2>1 DEF IInv, EnoughHeld, Held
<1> QED
  BY <1>6, <1>7, <1>8, <1>9 DEF IInv

LEMMA PurgeStep ==
  ASSUME IInv, Purge, Len(ring.order) > MaxSize
  PROVE  IInv'
<1>0. PICK n : n = Len(ring.order)
  OBVIOUS
<1>1. /\ ring \in RingsOf(Hash) /\ log \in Seq(Hash) /\ n \in Nat
  BY <1>0 DEF IInv, TypeOK, RingsOf
<1>2. ring' = RingPurge(ring, MaxSize) /\ log' = log
  BY DEF Purge
<1>3. PICK drop \in 0 .. n :
        /\ drop = n \div 2
        /\ ring'.seen = ring.seen \ {ring.order[i] : i \in 1 .. drop}
        /\ Len(ring'.order) = n - drop
        /\ \A i \in 1 .. n - drop : ring'.order[i] = ring.order[drop + i]
  <2>1. n \div 2 \in 0 .. n
    BY <1>1, HalfType
  <2>2. PICK drop \in 0 .. n : drop = n \div 2
    BY <2>1
  <2>3. ring' = DropOldest(ring, drop)
    <3>1. RingPurge(ring, MaxSize) = DropOldest(ring, Len(ring.order) \div 2)
      <4>1. ~ (Len(ring.order) <= MaxSize)
        BY <1>0, <1>1, SizeAssumption
      <4> QED
        BY <4>1, Zenon DEF RingPurge
    <3> QED
      BY <1>0, <1>2, <2>2, <3>1
  <2>4. /\ DropOldest(ring, drop).seen = ring.seen \ {ring.order[i] : i \in 1 .. drop}
        /\ Len(DropOldest(ring, drop).order) = n - drop
        /\ \A i \in 1 .. n - drop : DropOldest(ring, drop).order[i] = ring.order[drop + i]
    BY <1>0, <1>1, DropOldestShape
  <2> WITNESS drop \in 0 .. n
  <2> QED
    BY <2>2, <2>3, <2>4
<1>4. \A i, j \in 1 .. n : ring.order[i] = ring.order[j] => i = j
  BY <1>0 DEF IInv, TypeOK
<1>5. TypeOK'
  <2>1. ring' \in [order : Seq(Hash), seen : SUBSET Hash]
    BY <1>1, <1>2, RingPurgeType DEF RingsOf
  <2>2. \A i, j \in 1 .. n - drop : ring'.order[i] = ring'.order[j] => i = j
    BY <1>1, <1>3, <1>4
  <2> QED
    BY <1>1, <1>2, <1>3, <2>1, <2>2 DEF TypeOK
<1>6. LookupAgreesWithAge'
  <2>1. ring.seen = {ring.order[i] : i \in 1 .. n}
    BY <1>0 DEF IInv, LookupAgreesWithAge, Held
  <2>2. {ring.order[i] : i \in 1 .. n} \ {ring.order[i] : i \in 1 .. drop}
          = {ring.order[i] : i \in drop + 1 .. n}
    <3>1. ASSUME NEW i \in 1 .. n, ring.order[i] \notin {ring.order[j] : j \in 1 .. drop}
          PROVE  i \in drop + 1 .. n
      BY <1>1, <1>3, <3>1
    <3>2. ASSUME NEW i \in drop + 1 .. n
          PROVE  i \in 1 .. n /\ ring.order[i] \notin {ring.order[j] : j \in 1 .. drop}
      <4>1. i \in 1 .. n /\ \A j \in 1 .. drop : j \in 1 .. n /\ j # i
        BY <1>1, <1>3
      <4> QED
        BY <1>4, <4>1
    <3> QED
      BY <3>1, <3>2
  <2>3. {ring.order[i] : i \in drop + 1 .. n} = {ring'.order[i] : i \in 1 .. n - drop}
    <3>1. ASSUME NEW i \in drop + 1 .. n
          PROVE  i - drop \in 1 .. n - drop /\ ring'.order[i - drop] = ring.order[i]
      BY <1>1, <1>3
    <3>2. ASSUME NEW i \in 1 .. n - drop
          PROVE  drop + i \in drop + 1 .. n /\ ring'.order[i] = ring.order[drop + i]
      BY <1>1, <1>3
    <3> QED
      BY <3>1, <3>2
  <2> QED
    BY <1>3, <2>1, <2>2, <2>3 DEF LookupAgreesWithAge, Held
<1>7. KeepsNewest'
  <2>1. n <= Len(log) /\ Len(log) \in Nat
    BY <1>0, <1>1 DEF IInv, KeepsNewest, Held
  <2>2. ASSUME NEW i \in 1 .. n - drop
        PROVE  ring'.order[i] = log[Len(log) - (n - drop) + i]
    <3>1. /\ drop + i \in 1 .. n
          /\ Len(log) - (n - drop) + i = Len(log) - n + (drop + i)
      BY <1>1, <1>3, <2>1
    <3>2. ring.order[drop + i] = log[Len(log) - n + (drop + i)]
      BY <1>0, <3>1 DEF IInv, KeepsNewest, Held
    <3> QED
      BY <1>3, <3>1, <3>2
  <2> QED
    BY <1>1, <1>2, <1>3, <2>1, <2>2 DEF KeepsNewest, Held
<1>8. EnoughHeld'
  <2>1. n - n \div 2 >= (MaxSize + 1) - (MaxSize + 1) \div 2
    <3>1. n >= MaxSize + 1 /\ MaxSize + 1 \in Nat
      BY <1>0, <1>1
    <3> QED
      BY <1>1, <3>1, HalfType
  <2>2. Guaranteed = (MaxSize + 1) - (MaxSize + 1) \div 2 /\ Guaranteed' = Guaranteed
    BY DEF Guaranteed
  <2> QED
    BY <1>3, <2>1, <2>2 DEF EnoughHeld, Held
<1> QED
  BY <1>5, <1>6, <1>7, <1>8 DEF IInv

LEMMA NothingChanges ==
  ASSUME IInv, ring' = ring, log' = log
  PROVE  IInv'
<1>1. Held' = Held
  BY DEF Held
<1>2. TypeOK'
  BY DEF IInv, TypeOK
<1>3. LookupAgreesWithAge'
  BY <1>1 DEF IInv, LookupAgreesWithAge
<1>4. KeepsNewest'
  BY <1>1 DEF IInv, KeepsNewest
<1>5. EnoughHeld'
  BY <1>1 DEF IInv, EnoughHeld, Guaranteed
<1> QED
  BY <1>2, <1>3, <1>4, <1>5 DEF IInv

LEMMA IInvStep ==
  ASSUME IInv, [Next]_vars
  PROVE  IInv'
<1>1. CASE \E h \in Hash : Accept(h)
  BY <1>1, AcceptStep
<1>2. CASE \E h \in Hash : Refuse(h)
  <2>1. ring' = ring /\ log' = log
    BY <1>2 DEF Refuse, RingInsert
  <2> QED
    BY <2>1, NothingChanges
<1>3. CASE Purge
  <2>1. CASE Len(ring.order) > MaxSize
    BY <1>3, <2>1, PurgeStep
  <2>2. CASE ~(Len(ring.order) > MaxSize)
    <3>1. ring' = ring /\ log' = log
      BY <1>3, <2>2 DEF Purge, RingPurge, IInv, TypeOK
    <3> QED
      BY <3>1, NothingChanges
  <2> QED
    BY <2>1, <2>2
<1>4. CASE UNCHANGED vars
  <2>1. ring' = ring /\ log' = log
    BY <1>4 DEF vars
  <2> QED
    BY <2>1, NothingChanges
<1> QED
  BY <1>1, <1>2, <1>3, <1>4 DEF Next

\* Enough is held, and what is held is the newest: so the newest are seen.
LEMMA HeldAreRemembered ==
  ASSUME IInv
  PROVE  RecentRemembered
<1>1. /\ ring.order \in Seq(Hash) /\ log \in Seq(Hash)
      /\ Held \in Nat /\ Len(log) \in Nat /\ Held <= Len(log)
  BY DEF IInv, TypeOK, KeepsNewest, Held
<1>2. Guaranteed \in Int
  BY HalfType DEF Guaranteed
<1>3. ASSUME NEW i \in 1 .. Len(log), i > Len(log) - Guaranteed
      PROVE  log[i] \in ring.seen
  <2> DEFINE k == i - (Len(log) - Held)
  <2>1. k \in 1 .. Held
    BY <1>1, <1>2, <1>3 DEF IInv, EnoughHeld
  <2>2. ring.order[k] = log[Len(log) - Held + k]
    BY <2>1 DEF IInv, KeepsNewest
  <2>3. Len(log) - Held + k = i
    BY <1>1
  <2> HIDE DEF k
  <2>4. ring.order[k] \in ring.seen
    BY <2>1 DEF IInv, LookupAgreesWithAge
  <2> QED
    BY <2>2, <2>3, <2>4
<1> QED
  BY <1>3 DEF RecentRemembered, Contains

LEMMA IInvHolds == Spec => []IInv
<1>1. Init => IInv
  BY DEF Init, EmptyRing, IInv, TypeOK, LookupAgreesWithAge, KeepsNewest, EnoughHeld, Held
<1>2. IInv /\ [Next]_vars => IInv'
  BY IInvStep
<1> QED
  BY <1>1, <1>2, PTL DEF Spec

\* The set of a ring and its sequence hold the same hashes.
THEOREM LookupCorrect == Spec => []LookupAgreesWithAge
<1>1. IInv => LookupAgreesWithAge
  BY DEF IInv
<1> QED
  BY <1>1, IInvHolds, PTL

\* A ring of cap m never forgets the last ceil((m+1)/2) hashes it accepted.
THEOREM RecentAreRemembered == Spec => []RecentRemembered
<1>1. IInv => RecentRemembered
  BY HeldAreRemembered
<1> QED
  BY <1>1, IInvHolds, PTL

\* The ring never holds a hash twice: the size compared with the cap counts
\* distinct hashes.
THEOREM RingTypeCorrect == Spec => []TypeOK
<1>1. IInv => TypeOK
  BY DEF IInv
<1> QED
  BY <1>1, IInvHolds, PTL

\* What the ring holds is the newest part of what it accepted, in order.
THEOREM NewestAreKept == Spec => []KeepsNewest
<1>1. IInv => KeepsNewest
  BY DEF IInv
<1> QED
  BY <1>1, IInvHolds, PTL
=============================================================================
