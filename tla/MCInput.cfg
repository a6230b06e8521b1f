CONSTANTS
  Keys <- AllKeys
  MaxPresses = 4
  MaxPending = 6
  BootKeys = FALSE
  CALLBACKS_MAX_COUNT = 4
  EventTypes <- MCEventTypes
  Callbacks <- MCCallbacks
  Args <- MCArgs
  First <- MCFirst
  MaxBusCalls = 4
  MaxInputs = 4
SPECIFICATION InputSpec
INVARIANTS
  NoStuckModifier
  EchoIsTyped
  BusTypeOK
  RegisteredAreCalled
  NoNullCallback
