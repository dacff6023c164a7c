SPECIFICATION SafeSpec
CONSTANTS
  m1 = m1
  m2 = m2
  m3 = m3
  Calls = {m1, m2, m3}
  BufSizes = {1}
  Transports = {"nats"}
  Unreliable = {}
INVARIANT NeverPanics
CHECK_DEADLOCK FALSE
