SPECIFICATION Spec
CONSTANTS
  s1 = s1
  s2 = s2
  s3 = s3
  m1 = m1
  m2 = m2
  a = a
  b = b
  c = c
  Tokens = {"orders", "item", "price", "sold"}
  Sessions = {s1, s2, s3}
  Servers = {s3}
  Group <- MCGroup
  Path <- MCPath
  Whole = {s1, s2}
  Messages = {m1, m2}
  Requests = {m2}
  SubjectOf <- MCSubjectOf
  ConnOf <- MCConnOf
  Fragile = {s1}
  None = None
INVARIANT TypeOK
INVARIANT ReadyReceives
INVARIANT InOrderOnce
PROPERTY ImplementsExchange
CHECK_DEADLOCK FALSE
