SPECIFICATION SafeSpec
CONSTANTS
  p1 = p1
  p2 = p2
  s1 = s1
  s2 = s2
  s3 = s3
  r1 = r1
  r2 = r2
  x = x
  y = y
  Publishers = {p1}
  Sessions = {s1, s2, s3}
  Subscribers = {r1, r2}
  Subjects = {x, y}
  SubjectOf <- MCSubjectOf
  Owner <- MCOwner
  BufSize <- MCBufSize
  Exclusive = {r1}
  NoSession = NoSession
  MaxCalls = 2
INVARIANT ListedOnce
INVARIANT ReadyReceives
INVARIANT DeliveredPrefix
INVARIANT LenMatches
PROPERTY ImplementsContract
CHECK_DEADLOCK FALSE
