SPECIFICATION Spec
CONSTANTS
  c1 = c1
  c2 = c2
  c3 = c3
  s1 = s1
  s2 = s2
  s3 = s3
  x = x
  y = y
  None = None
  Calls = {c1, c2, c3}
  Routes = {x, y}
  Serves = {y}
  Slashed = {}
  Subscriptions = {s1, s2, s3}
  Requesters = {c2}
  Strangers = {c3}
  MaxBody = 1
  MaxSize = 2
  RouteOf <- MCRouteOf
  To <- MCTo
INVARIANT RefusedUnhandled
INVARIANT WholeBody
INVARIANT ReadyIsServed
PROPERTY ImplementsExchange
SYMMETRY MCSymmetry
CHECK_DEADLOCK FALSE
