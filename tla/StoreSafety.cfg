CONSTANTS
  LastId = 3
  Kinds = {"answer", "error"}
  FailedKinds = {"error"}
  MaxResults = 2
  MaxCancelled = 2
  MaxSlots = 2
  LastByte = 1
  SpawnFails = TRUE
  Collects = TRUE
SPECIFICATION Spec
INVARIANTS
  CountersExact
  DeliveredOnce
  ProgressExact
