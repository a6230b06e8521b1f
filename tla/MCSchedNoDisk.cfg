CONSTANTS
  MaxTasks = 2
  Requests <- ShippedRequests
  AtaInitDone = FALSE
  NumTasks = 1
  Program <- UserspaceFn
  InitReads <- ShippedInitReads
  SyscallRead <- Read12x4
  FreePages <- PagesEnough
  MaxNest = 1
  SwitchRace = FALSE
SPECIFICATION FairSpec
PROPERTIES
  InitReachesUser
