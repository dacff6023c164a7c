SPECIFICATION Spec
CONSTANTS
  m1 = m1
  m2 = m2
  m3 = m3
  Calls = {m1, m2, m3}
  BufSizes = {0, 1}
  Transports = {"channel", "nats", "jetstream", "http"}
  Unreliable = {"nats", "jetstream"}
INVARIANT ChannelNeverPanics
INVARIANT ForwardedIsNil
PROPERTY NilIsConsumed
CHECK_DEADLOCK FALSE
