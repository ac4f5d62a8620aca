CONSTANTS
  Requests = {r1, r2}
  Watched = {r2}
  PinSets = {{h1, h2}}
  None = None
SPECIFICATION Spec
INVARIANTS
  ReleasedLast
  CancelHonoured
  PinsInEngine
PROPERTIES
  RefinesOneReport
  EventuallyEnded
CHECK_DEADLOCK FALSE
