SPECIFICATION MCSpec
CONSTANTS
  Procs = {p1, p2, p3}
  First = p1
  BootStack = BootStack
  NULL = NULL
  Callers = {p1, p2}
  NNODE = 4
  MAXSIZE = 3
  NVNODE = 6
  Names = {"a", "b"}
  Paths <- TreePaths
  Flags <- DataFlags
  Bytes = {1}
  FileNames <- FileNamesDef
  Upper <- UpperDef
  Invalid = {"*"}
  ShortChars = {"A", "_", "~", "1", "2"}
  Code <- CodeDef
  SumBits = 3
  BaseLen = 3
  ExtLen = 1
  LfnChars = 2
  MaxName = 5
  MaxSuffix = 2
  PerCluster = 4
  NClusters = 2
  MaxFiles = 3
  MaxCrashes = 1
CONSTRAINT Bounded
CHECK_DEADLOCK FALSE
INVARIANTS OwnQuietStack LostOnlyEarly UserIsCurrent TreeSound TailIsZero DirSound OthersSurvive
