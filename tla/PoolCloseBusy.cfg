CONSTANTS
  Requests = {r1, r2, r3}
  Sites = {s1}
  None = None
  PoolSize = 2
  IdleMs = 1
  Word = 8
  LastTick = 0
  LastGeneration = 0
  MaxInFlight = 3
  Mortal = TRUE
SPECIFICATION Spec
PROPERTIES
  ClosesOnlyIdle
