------------------------------ MODULE HashRing ------------------------------
(***************************************************************************)
(* src/src/rns/tables/PacketHashList.cpp: a bounded set of recent hashes,  *)
(* kept as a set for lookup and a sequence for the order of arrival.       *)
(* Transport has two, for packet hashes and for path-request tags.         *)
(***************************************************************************)
EXTENDS Naturals, Sequences

\* The named slips below (InsertUnchecked, PurgeAll, ...) are bugs the code
\* does not have: see "Mutants" in the README.

EmptyRing == [order |-> << >>, seen |-> {}]

Contains(ring, h) == h \in ring.seen

\* insert(): nothing happens to a ring that holds the hash already.
InsertUnchecked(ring, h) ==
  [order |-> Append(ring.order, h), seen |-> ring.seen \cup {h}]

RingInsert(ring, h) ==
  IF Contains(ring, h)
    THEN ring
    ELSE [order |-> Append(ring.order, h), seen |-> ring.seen \cup {h}]

\* The k oldest hashes are forgotten.
DropOldest(ring, k) ==
  [order |-> SubSeq(ring.order, k + 1, Len(ring.order)),
   seen  |-> ring.seen \ {ring.order[i] : i \in 1 .. k}]

PurgeAll(ring, max) ==
  IF Len(ring.order) <= max THEN ring ELSE EmptyRing

PurgeNewest(ring, max) ==
  LET n == Len(ring.order)
      keep == n - n \div 2
  IN  IF n <= max
        THEN ring
        ELSE [order |-> SubSeq(ring.order, 1, keep),
              seen  |-> ring.seen \ {ring.order[i] : i \in keep + 1 .. n}]

PurgeOrderOnly(ring, max) ==
  LET n == Len(ring.order)
  IN  IF n <= max
        THEN ring
        ELSE [ring EXCEPT !.order = SubSeq(@, n \div 2 + 1, n)]

\* purge_if_over_cap(): a ring over its cap loses its oldest half, rounded
\* down.
RingPurge(ring, max) ==
  IF Len(ring.order) <= max THEN ring ELSE DropOldest(ring, Len(ring.order) \div 2)
=============================================================================
