CONSTANTS
  Modes = {"cold"}
  Faults = {}
SPECIFICATION Spec
INVARIANT NoStaleCallback
