SPECIFICATION Spec
CONSTANTS
  m1 = m1
  m2 = m2
  w1 = w1
  w2 = w2
  w3 = w3
  Messages = {m1, m2}
  Workers = {w1}
  Undecodable = {m2}
  Wrapped <- MCWrapped
  ManualAck = {w1}
  Implements = {"DelayedNaker", "Terminator", "DeliveryReporter"}
  MaxDeliveries = 2
  MaxDeliver = 6
  Prefetch = 2
  MaxFailures = 6
  MaxFaults = 2
INVARIANT AttemptsBounded
PROPERTY EventuallySettled
CHECK_DEADLOCK FALSE
