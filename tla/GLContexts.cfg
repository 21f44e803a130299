SPECIFICATION Spec
CONSTANTS
  Contexts = {c1, c2}
  Windows = {w1}
  PBuffers = {p1}
  Textures = {"t"}
  MaxScreens = 1
  NULL = NULL
INVARIANTS
  DrawsInItsTexture
CHECK_DEADLOCK FALSE
