CONSTANTS
  Requests = {r1, r2}
  Addresses = {a1, a2}
  LastNabor = 1
  None = None
SPECIFICATION Spec
INVARIANTS
  KeysOwn
  CheckedWithItsPins
PROPERTIES
  RefinesOneReport
  EventuallyTold
CHECK_DEADLOCK FALSE
