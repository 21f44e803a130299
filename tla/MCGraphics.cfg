SPECIFICATION PartSpec
CONSTANTS
  Parts = {"contexts", "arrays", "memory", "combine", "profile", "screens"}
  Contexts = {c1, c2}
  Windows = {w1}
  PBuffers = {p1}
  Textures = {"t"}
  MaxScreens = 1
  NULL = NULL
  Names = {1}
  Arrays = {"v"}
  Top = 3
  Pointers = {2}
  MaxUnflushed = 1
  TakeMax = 64
  Unknown = Unknown
  Threads = {mainthread, audio}
  Main = mainthread
  Places = {p, q}
  Hash <- HashOf
  kSlots = 3
  kProbes = 2
  kFrameSamples = 2
  MaxTries = 1
  MaxSamples = 3
INVARIANTS
  TypesOK
  ContextsDrawWhereTold
  GLIsAsSet
  
  SamplesAreExact
CHECK_DEADLOCK FALSE
