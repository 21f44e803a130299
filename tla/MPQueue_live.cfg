SPECIFICATION FairSpec
CONSTANTS
  Tasks = {t1}
  MainTask = main
  Queues = {q1}
  NoQueue = none
  Statuses = {1}
  Unset = 0
  Durations = {"kDurationImmediate", "finite", "kDurationForever"}
  MaxPosts = 2
PROPERTY ImplementsFairQueue
CHECK_DEADLOCK FALSE
