SPECIFICATION FairSpec
CONSTANTS
  Tasks = {t1, t2}
  OtherThreads = {main}
  Durations = {"finite", "kDurationForever"}
  Initial = 1
  Maximum = 2
  Flags = {f1, f2}
  Sets = {{f1}, {f1, f2}}
  Ids = {i1, i2}
  NoId = zero
  MaxSignals = 2
  MaxDepth = 2
INVARIANTS
  ObjectsAreExact
PROPERTIES
  FlagsAreCollected
  ReasonsEndWaits
CHECK_DEADLOCK FALSE
