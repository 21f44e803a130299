SPECIFICATION PartSpec
CONSTANTS
  Parts = {"loader", "weak", "forks", "resources", "preferences", "plists", "collections", "catalog", "images", "strings", "names", "signatures", "answers"}
  Executable = exe
  a = a
  b = b
  Libraries = {a, b}
  System = system
  Names = {f}
  FlatFiles = {b}
  DepLists <- Two
  MaxOpens = 1
  Images = {1, 2, 3}
  LastImage = 2
  WeakNames = {1, 2}
  MayBeClassic = TRUE
  Threads = {t1, t2}
  Forked = {"save"}
  ReadOnly = {}
  HasResource = {"save"}
  MAX_FORKS = 2
  Descriptors = {0, 1, 2}
  Offsets <- OneBack
  Counts = {2}
  MaxSize = 1
  Paths = {"p", "q"}
  Ids = {"r"}
  MaxFiles = 2
  MaxHandles = 2
  Processes = {1, 2}
  PrefsDicts = {"empty", "few", "deep"}
  EmptyDict = "empty"
  DeepDicts = {"deep"}
  CatalogNames = {"a", "A", "b"}
  CatalogLower <- LowerCase
  MaxDepth = 2
  MaxObjects = 3
  Word = 16384
  UndefinedBase = 800000
SYMMETRY EitherThread
INVARIANTS
  TypesOK
  LibrariesAreLoaded
  PointersAreLinked
  Coalesced
  FilesAreKept
  HandlesAreKept
  PreferencesSurvive
  SignaturesAreRead
  CollectionsAreWhole
  StringsAreWhole
  DialogsAreFilled
CHECK_DEADLOCK FALSE
