CONSTANTS
  us = us
  a = a
  b = b
  r = r
  d1 = d1
  d2 = d2
  own = own
  pr = pr
  nowhere = nowhere
  n1 = n1
  n2 = n2
  t1 = t1
  x1 = x1
  x2 = x2
  x3 = x3
  k1 = k1
  i1 = i1
  i2 = i2
  NoId = none
  NoAddr = nowhere
  NoTag = notag
  Addr <- MCAddr
  Id = {us, a, b, r}
  Nonce = {n1, n2}
  Tag = {t1}
  Payload = {x1, x2, x3}
  Ephemeral = {k1}
  Us = us
  LocalDest = {own}
  PathRequestDest = pr
  TransportEnabled = TRUE
  Seed <- MCSeed
  PathLife = 2
  ReverseTimeout = 1
  ProofTimeout = 1
  LinkStale = 2
  MaxRandomBlobs = 2
  MaxPrTags = 2
  Iface = {i1}
  HasSeedFn = TRUE
  Schedule <- TwoSchedules
  HwMtu <- WideMtu
  HashlistMax = 2
  MaxTime = 4
  Suspect = {}
  Wire <- LoopWires
SPECIFICATION LoopSpec
INVARIANTS
  FreshWhenUsed
  EchoRecognised
PROPERTIES
  NoPendingDisplaced
  PendingIsRebroadcast
