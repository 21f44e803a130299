SPECIFICATION PartSpec
CONSTANTS
  Parts = {"loops", "timers"}
  Windows = {w}
  MaxInput = 1
  MaxDepth = 4
  Timers = {a, b}
  NoTimer = none
  Delays = {0, 1}
  Never = 3
  MaxAge = 1
  MaxRuns = 2
INVARIANTS
  TypesOK
  QuitsWhatRan
PROPERTIES
  RunsAreExact
  TimersFire
  ToldLoopsEnd
CHECK_DEADLOCK FALSE
