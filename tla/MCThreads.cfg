SPECIFICATION PartSpec
CONSTANTS
  Parts = {"sound", "conditions"}
  Ids = {a, b}
  Records = {r, s}
  Games = {game}
  Mixer = mixer
  NoOne = none
  Capacity = 2
  PassLimit = 2
  Length = 1
  Nesting = 2
  Waiters = {t1, t2, t3}
  Statics = {TRUE, FALSE}
  MaxConds = 4
  MaxItems = 2
SYMMETRY Interchangeable
INVARIANTS
  TypesOK
  NothingFreedInUse
  WakeupsArrive
PROPERTIES
  DisposedStaysSilent
CHECK_DEADLOCK FALSE
