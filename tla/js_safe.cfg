SPECIFICATION SafeSpec
CONSTANTS
  m1 = m1
  m2 = m2
  w1 = w1
  w2 = w2
  w3 = w3
  Messages = {m1}
  Workers = {w1, w2, w3}
  Undecodable = {}
  Wrapped <- MCWrapped
  ManualAck = {w3}
  Implements = {"DelayedNaker", "Terminator", "DeliveryReporter"}
  MaxDeliveries = 2
  MaxDeliver = 3
  Prefetch = 1
  MaxFailures = 2
  MaxFaults = 2
INVARIANT TypeOK
INVARIANT SettledAsHandled
INVARIANT TermIsDue
PROPERTY ImplementsContract
CHECK_DEADLOCK FALSE
