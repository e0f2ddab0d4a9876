\* Two frames, and one BLE write or one disturbance of the line.
CONSTANTS
  Narrowed <- MCNarrowed
  WireName <- MCWireName
  NameMax = 2
  IdentityHash <- MCHash
  Version = "v1"
  Request <- MCRequest
  Encoded <- MCEncoded
  Unknown = unknown
  Faulty = faulty
  MaxFrameLen = 48
  Defaults <- MCDefaults
  Counts <- MCCounts
  Degrees <- MCDegrees
  Noise = {0, 255}
  MaxAsked = 2
  Cut <- MCCut
  MaxEvents = 1
SPECIFICATION Spec
CHECK_DEADLOCK FALSE
INVARIANTS
  TypeOK
  AnswersDecode
  BeaconKeepsItsShape
PROPERTIES
  ServesRequests
