------------------------------- MODULE MCHttp -------------------------------
(* Small instances of HttpExchange for TLC.  x is a route of a Subscriber,    *)
(* which s1 and s2 both register; y is a route of a Responder, which s3       *)
(* registers.  c1 publishes to x, c2 requests from y, c3 is a stranger at x.  *)
EXTENDS HttpExchange, TLC

CONSTANTS c1, c2, c3, s1, s2, s3, x, y

MCRouteOf == [s \in Subscriptions |-> IF s = s3 THEN y ELSE x]
MCTo == [c \in Calls |-> IF c = c2 THEN y ELSE x]

\* s1 and s2 register the same route.
MCSymmetry == Permutations({s1, s2})
=============================================================================
