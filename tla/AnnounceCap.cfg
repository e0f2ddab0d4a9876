CONSTANTS
  Frame <- MCFrame
  Bitrate = 8000
  CapPct = 100
  QueueMax = 3
  Window = 3
SPECIFICATION Spec
INVARIANTS
  TypeOK
  CapHolds
  LogIsLedger
PROPERTIES
  NoOvertaking
  NearestGoesOut
  FullQueueDrains
