SPECIFICATION Spec
CONSTANTS
  Threads = {t1, t2}
  Statics = {TRUE}
  MaxConds = 2
  MaxItems = 1
INVARIANTS
  MutualExclusion
CHECK_DEADLOCK FALSE
