CONSTANTS
  Keys <- AllKeys
  MaxPresses = 0
  MaxPending = 6
  BootKeys = FALSE
  CALLBACKS_MAX_COUNT = 4
  EventTypes <- MCEventTypes
  Callbacks <- MCCallbacks
  Args <- MCArgs
  First <- MCFirst
  MaxBusCalls = 6
  MaxInputs = 6
SPECIFICATION InputSpec
INVARIANTS
  PanicOnlyWhenFull
