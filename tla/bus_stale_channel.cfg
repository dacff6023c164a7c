SPECIFICATION Spec
CONSTANTS
  p1 = p1
  p2 = p2
  s1 = s1
  s2 = s2
  s3 = s3
  r1 = r1
  r2 = r2
  x = x
  y = y
  Publishers = {p1}
  Sessions = {s1}
  Subscribers = {r1}
  Subjects = {x}
  SubjectOf <- MCSubjectOf
  Owner <- MCOwner
  BufSize <- MCBufSize
  Exclusive = {}
  NoSession = NoSession
  MaxCalls = 2
PROPERTY BlocksOnlyOnSubscribers
CHECK_DEADLOCK FALSE
