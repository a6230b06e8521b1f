CONSTANTS
  TickCnt = 20
  Ratio = 10
  MaxDelay = 2
  MaxCount = 1023
SPECIFICATION TimerSpec
CHECK_DEADLOCK FALSE
INVARIANTS
  EveryMillisecond
