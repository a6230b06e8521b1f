CONSTANTS
  Keys <- AllKeys
  MaxPresses = 2
  MaxPending = 6
  BootKeys = TRUE
  CALLBACKS_MAX_COUNT = 4
  EventTypes <- MCEventTypes
  Callbacks <- MCCallbacks
  Args <- MCArgs
  First <- MCFirst
  MaxBusCalls = 0
  MaxInputs = 4
SPECIFICATION InputSpec
INVARIANTS
  EchoIsTyped
