CONSTANTS
  Requests = {r1, r2, r3}
  Sites = {s1}
  None = None
  PoolSize = 2
  IdleMs = 1
  Word = 8
  LastTick = 2
  LastGeneration = 1
  MaxInFlight = 2
  Mortal = TRUE
SPECIFICATION Spec
INVARIANTS
  TypeOK
  OneRequestPerConn
  NoConnLost
PROPERTIES
  EvictsOnlyWorn
SYMMETRY Symmetry
