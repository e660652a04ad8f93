SPECIFICATION MCSpec
CONSTANTS
  MaxNodes = 3
  MaxDepth = 3
  MaxBases = 1
  CellBase = 4
  Counts = {1, 2}
  Regs <- RegsDef
  Rates = {1}
  Slots = {0, 1, 2}
  Machines <- MachinesDef
  Page = 2
  Words = {4, 5, 6, 7, 8, 9, 10, 11, 12, 13, 14, 15}
  Fixed = {4, 5}
  DefMem <- DefMemDef
  MaxTime = 7
  Timebases = {0, 1, 4}
  TickHzs = {0, 2}
  DefTimebase = 3
  DefTickHz = 1
  HeapEnd = 12
  NALLOC = 3
  Requests = {1, 2, 4}
  Size = 6
  MaxArgs = 4
  MaxMatches = 2
  NOFILE = 5
  Listings <- ListingsDef
  DirNames = {3, 4, 5, 6}
  RecLen <- RecLenDef
  RecHead = 3
  BufLen = 9
  TmpLen = 6
  MaxChanges = 2
CHECK_DEADLOCK FALSE
INVARIANTS TreeRead ImageWhole ClockRight HeapSound HandedOver RowIsLine ListedOnce
PROPERTIES GoodBoots CatchesUp PromptComesBack
