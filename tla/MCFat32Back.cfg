SPECIFICATION Spec
CONSTANTS
  MaxCluster = 4
  CS = 2
  MaxSize = 3
  NSLOT = 2
  NNODE = 2
  MaxFiles = 2
  Names = {a, b}
  Handles = {h1, h2}
  NULL = NULL
SYMMETRY Perms
CHECK_DEADLOCK FALSE
INVARIANTS WrittenReadsBack
