CONSTANTS
  Procs = {p1, p2}
  First = p1
  BootStack = BootStack
  NULL = NULL
SPECIFICATION Spec
INVARIANTS TempsPreserved
CHECK_DEADLOCK FALSE
