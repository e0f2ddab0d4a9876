\* A ring of cap 3 over five hashes, through up to eight accepted inserts:
\* several purges, of a ring at, just over and well over its cap.
CONSTANTS
  Hash = {h1, h2, h3, h4, h5}
  MaxSize = 3
  MaxInserts = 8
SPECIFICATION Spec
INVARIANTS
  TypeOK
  LookupAgreesWithAge
  KeepsNewest
  RecentRemembered
