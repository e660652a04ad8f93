SPECIFICATION RamSpec
CONSTANTS
  Callers = {p1, p2}
  NNODE = 2
  MAXSIZE = 3
  NVNODE = 4
  Names = {"a", "b"}
  Paths <- DataPaths
  Flags <- DataFlags
  Bytes = {1}
SYMMETRY Perms
CHECK_DEADLOCK FALSE
INVARIANTS MkdirReturns
