CONSTANTS
  h1 = h1
  Requests = {r1, r2}
  Hosts = {h1, h2}
  Nabory <- MCNabory
  LastNabor = 2
  Samples = {60, 400}
  OknoMin = 150
  OknoMax = 700
  Zapas = 2
  Zamerov = 1
  None = None
SPECIFICATION Spec
INVARIANTS
  TypeOK
  SentAsPinned
  WindowMeasured
CHECK_DEADLOCK FALSE
