CONSTANTS
  NPROC = 3
  MaxPid = 5
  Statuses <- StatusesDef
  NULL = NULL
SPECIFICATION FairSpec
INVARIANTS
  TypeOK
  CurrentIsTheRunningOne
  PidsNeverReused
  ParentIsForkerUntilReaped
  WaiterHasChild
PROPERTIES
  ZombieKept
  RunnableRunsIfFed
  WaitAnyReturns
