CONSTANTS
  MaxTasks = 2
  Requests <- LiveRequests
  AtaInitDone = TRUE
  NumTasks = 2
  Program <- WaitAndRead
  InitReads <- LiveInitReads
  SyscallRead <- Read12x1
  FreePages <- PagesEnough
  MaxNest = 1
  SwitchRace = FALSE
SPECIFICATION FairSpec
PROPERTIES
  InitReachesUser
  RunnableRuns
  WaitEnds
  KernelReadReturns
