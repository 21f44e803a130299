SPECIFICATION Spec
CONSTANTS
  Tasks = {t1, t2}
  MainTask = main
  Queues = {q1}
  NoQueue = none
  Statuses = {1}
  Unset = 0
  Durations = {"finite", "kDurationForever"}
  MaxPosts = 2
SYMMETRY TaskSymmetry
INVARIANTS
  TypeOK
  NothingLost
  EndsAreTold
PROPERTIES
  EmptyHandedOnlyWhenEmpty
CHECK_DEADLOCK FALSE
