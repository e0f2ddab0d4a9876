--------------------------- MODULE PacketHashList ---------------------------
(***************************************************************************)
(* The deduplication ring as a component: a caller inserts hashes in any   *)
(* order and purges at any time (Transport inserts on every packet and     *)
(* purges once per tick).  `log` is a history variable: every insert that  *)
(* returned true, that is every packet the relay acted upon.               *)
(***************************************************************************)
EXTENDS HashRing

CONSTANTS
  Hash,        \* the hashes that arrive
  MaxSize,     \* the cap: 1000000 for packets, 32000 for tags
  MaxInserts   \* bound: inserts that return true

ASSUME SizeAssumption == MaxSize \in Nat /\ MaxInserts \in Nat

VARIABLES ring, log

vars == <<ring, log>>

\* The ring holds hashes, none of them twice: the size that the cap is
\* compared with (PacketHashList.cpp:24) counts distinct hashes.
TypeOK ==
  /\ ring \in [order : Seq(Hash), seen : SUBSET Hash]
  /\ log \in Seq(Hash)
  /\ \A i, j \in 1 .. Len(ring.order) : ring.order[i] = ring.order[j] => i = j

Init == ring = EmptyRing /\ log = << >>

\* insert() returning true
Accept(h) ==
  /\ Len(log) < MaxInserts
  /\ ~Contains(ring, h)
  /\ ring' = RingInsert(ring, h)
  /\ log' = Append(log, h)

\* insert() returning false
Refuse(h) ==
  /\ Contains(ring, h)
  /\ ring' = RingInsert(ring, h)
  /\ log' = log

Purge ==
  /\ ring' = RingPurge(ring, MaxSize)
  /\ log' = log

Next == (\E h \in Hash : Accept(h) \/ Refuse(h)) \/ Purge

Spec == Init /\ [][Next]_vars

-----------------------------------------------------------------------------
(* Properties *)

Held == Len(ring.order)

\* However large the ring was when it was purged, this many are kept.
Guaranteed == MaxSize + 1 - (MaxSize + 1) \div 2

\* The set used for lookup is the set of hashes in the sequence that ages
\* them (PacketHashList.h:47-48): a hash in the set alone would never age.
LookupAgreesWithAge == ring.seen = {ring.order[i] : i \in 1 .. Held}

\* The sequence is the newest part of what was accepted, in order: a purge
\* (PacketHashList.cpp:23-31) forgets oldest first and reorders nothing.
KeepsNewest ==
  /\ Held <= Len(log)
  /\ \A i \in 1 .. Held : ring.order[i] = log[Len(log) - Held + i]

\* The last ceil((MaxSize+1)/2) accepted hashes are remembered whatever
\* inserts and purges did in between: a packet that comes back within that
\* many others is a duplicate.
RecentRemembered ==
  \A i \in 1 .. Len(log) : i > Len(log) - Guaranteed => Contains(ring, log[i])
=============================================================================
