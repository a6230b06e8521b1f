CONSTANTS
  MaxTasks = 2
  Requests <- ShippedRequests
  AtaInitDone = TRUE
  NumTasks = 1
  Program <- UserspaceFn
  InitReads <- ShippedInitReads
  SyscallRead <- Read12x4
  FreePages <- PagesEnough
  MaxNest = 2
  SwitchRace = TRUE
SPECIFICATION Spec
INVARIANTS
  ContextsIntact
