SPECIFICATION RamSpec
CONSTANTS
  Callers = {p1, p2}
  NNODE = 4
  MAXSIZE = 1
  NVNODE = 6
  Names = {"a", "b"}
  Paths <- FilePaths
  Flags <- DataFlags
  Bytes = {1}
SYMMETRY Perms
CHECK_DEADLOCK FALSE
INVARIANTS FilesAreLeaves
