SPECIFICATION MCSpec
CONSTANTS
  Procs = {p1, p2, p3}
  Shell = p1
  NOFILE = 3
  FirstFd = 1
  NFILE = 2
  Vnodes = {v1, v2}
  NULL = NULL
  TmpSize = 2
  Lens = {0, 1, 3}
  Fifo = 2
  MaxTyped = 3
  Devices = {"a", "b", "c"}
  Sectors = {0, 1}
  Lbas = {0, 1}
  Values = {"x", "y"}
  QueueSize <- QueueSizeDef
  IdxMod = 2
  MaxCount = 2
  MaxLate = 1
  Hw <- HwDef
  Images <- ImagesDef
  Users = {1, 2}
  Ram = {"r"}
  OnDisk = {"d"}
  Chunk = 2
  BufSize = 3
  Limit = 4
  NENTRY = 3
  Contents <- ContentsDef
  Rooms = {3, 6}
  MaxCalls = 4
  MaxBeside = 2
CHECK_DEADLOCK FALSE
INVARIANTS TableSound ConsoleSound RingSound SharedWritesKept CopyIsSource
PROPERTIES DescriptorStable OutputStays ImplementsDisk CallsReturn
