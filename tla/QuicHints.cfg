CONSTANTS
  r1 = r1
  r2 = r2
  r3 = r3
  a = a
  b = b
  Nil = Nil
  Tasks = {r1, r2, r3}
  Hosts = {a, b}
  HostIzUrl <- MCHostIzUrl
  Faults = {"read", "write"}
  LastLife = 2
SPECIFICATION HintsSpec
INVARIANTS
  HintsTypeOK
  OldHintsKept
PROPERTIES
  FirstHinted
CHECK_DEADLOCK FALSE
