SPECIFICATION PartSpec
CONSTANTS
  Parts = {"handlers", "queue", "dialogs", "controls", "input"}
  window = window
  application = application
  Targets = {window, application}
  NoTarget = none
  Parent <- ParentOf
  Handlers = {h1, h2, h3}
  Nil = nil
  Events = {e}
  MaxDepth = 2
  Threads = {loop, other}
  Records = {a, b}
  NoEvent = noevent
  Kinds = {key, mouse}
  QUEUE_SIZE = 3
  MaxRefs = 2
  Windows = {w1, w2}
  Controls = {c1, c2, c3}
  MaxLoops = 5
  NoWindow = nowindow
  NoView = noview
  f13 = f13
  print = print
  media = media
  Inputs = {f13, print, media}
  Code <- CodeOf
  Unmapped = unmapped
  MaxInput = 3
  MaxHides = 1
SYMMETRY Addresses
INVARIANTS
  TypesOK
  HandlersAreKept
  CountsAreExact
  DialogsAreAnswered
  ControlsAreWhole
  InputIsTrue
PROPERTIES
  QueueKeepsOrder
CHECK_DEADLOCK FALSE
