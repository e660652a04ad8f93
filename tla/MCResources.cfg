SPECIFICATION MCSpec
CONSTANTS
  Pages = {1, 2, 3, 4, 5, 6, 7, 8, 9, 10, 11, 12, 13, 14, 15, 16, 17, 18, 19, 20}
  NPROC = 2
  NVA = 3
  StackBase = 2
  Span = 2
  Images <- MCImages
  BootRoot = BootRoot
  Nil = Nil
  MaxCluster = 4
  CS = 2
  MaxSize = 3
  NSLOT = 2
  NNODE = 2
  MaxFiles = 2
  Names = {a, b}
  Handles = {h1, h2}
  NULL = NULL
CONSTRAINT InStep
VIEW View
SYMMETRY Perms
CHECK_DEADLOCK FALSE
INVARIANTS SpaceSound PageOwnedOnce SatpLive ClustersSound NoForeignData
