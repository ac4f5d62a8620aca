CONSTANTS
  LastId = 2
  Kinds = {"answer", "error"}
  FailedKinds = {"error"}
  TransportFailed = {"error"}
  Hosts = {{"Runtime", "network"}, {}}
  Watched = {2}
  MaxResults = 1
  MaxCancelled = 1
  MaxSlots = 1
  LastByte = 1
  SpawnFails = TRUE
  Collects = TRUE
SPECIFICATION Spec
INVARIANTS
  CancelSilences
PROPERTIES
  RefinesOneReport
  EventuallyHeard
CHECK_DEADLOCK FALSE
