CONSTANTS
  Freq = {f1, f2}
  DefaultFreq = f1
  OperatorName = {op}
  NoName = noname
  Key = {k1, k2, k3, spliced}
  Spliced = spliced
  NoKey = nokey
  NoFile = nofile
  Damaged = damaged
  OldVersion = oldversion
  MaxBoots = 3
  MaxFaults = 1
SYMMETRY Interchangeable
SPECIFICATION Spec
CHECK_DEADLOCK FALSE
INVARIANTS
  TypeOK
  NameIsOwn
PROPERTIES
  KeyWrittenOnce
  ComesUpAsSaved
  NoNeedlessErase
  ImplementsCell
