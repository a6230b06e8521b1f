CONSTANTS
  MaxTasks = 2
  Requests <- TwoTaskRequests
  AtaInitDone = TRUE
  NumTasks = 3
  Program <- AllCalls
  InitReads <- TwoTaskInitReads
  SyscallRead <- Read12x2
  FreePages <- Pages0to3
  MaxNest = 2
  SwitchRace = TRUE
SPECIFICATION Spec
INVARIANTS
  CurrentIsCpu
  OwnKernelStack
  NoDanglingRequest
  SleepFull
  IrqDiscipline
  NoBug
  OneTimerFrame
  SchedInv
PROPERTIES
  KernelImplementsAta
