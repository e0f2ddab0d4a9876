CONSTANTS
  ra = ra
  rb = rb
  o = o
  c = c
  d1 = d1
  pr = pr
  p1 = p1
  x1 = x1
  x2 = x2
  n1 = n1
  t1 = t1
  lora = lora
  NoId = none
  NoAddr = nowhere
  NoTag = notag
  Addr <- MCAddr
  Id = {ra, rb, o, c}
  Nonce = {n1}
  Tag = {t1}
  Payload = {x1, x2}
  Ephemeral = {p1}
  RelayA = ra
  RelayB = rb
  Origin = o
  Client = c
  Hears <- Overlap
  Target = d1
  Script <- MCScript
  Receipt <- MCReceipt
  MaxFaults = 0
  Iface = {lora}
  PathRequestDest = pr
  HwMtu <- OneChannel
  PathLife = 1
  ReverseTimeout = 1
  ProofTimeout = 1
  LinkStale = 1
  MaxRandomBlobs = 2
  HashlistMax = 20
  MaxPrTags = 2
  MaxTime = 1
SPECIFICATION Spec
CHECK_DEADLOCK FALSE
PROPERTIES
  DeliveredAndAcknowledged
