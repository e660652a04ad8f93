CONSTANTS
  NPROC = 2
  MaxPid = 3
  Statuses <- StatusesDef
  NULL = NULL
SPECIFICATION FairSpec
PROPERTY RunnableRuns
