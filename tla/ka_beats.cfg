SPECIFICATION Spec
CONSTANTS
  Interval = 2
  AckWait = 8
  Waited = 1
  Latency = 1
  MaxLost = 1
  Cancels = TRUE
INVARIANT TypeOK
INVARIANT SettlementIsLast
INVARIANT KeptAlive
PROPERTY EndsClean
CHECK_DEADLOCK FALSE
