------------------------------- MODULE MCNats -------------------------------
(* A small instance of CoreNats for TLC: s1 and s2 are a queue group on all   *)
(* events of a domain, s3 a Responder on one of them.  m1 is published and m2 *)
(* requested on one connection.                                               *)
EXTENDS CoreNats

CONSTANTS s1, s2, s3, m1, m2, a, b, c

Orders == Domain(<<>>, "orders")
Item == Entity(Orders, "item")

MCGroup == [s \in Sessions |-> IF s = s3 THEN None ELSE "workers"]
MCPath == [s \in Sessions |-> IF s = s3 THEN Event(Item, "price") ELSE Orders]
MCSubjectOf == [m \in Messages |-> Event(Item, IF m \in Requests THEN "price" ELSE "sold")]
MCConnOf == [x \in Sessions \cup Messages |->
  CASE x \in {s1, s3} -> a
    [] x \in {s2} -> b
    [] OTHER -> c]
=============================================================================
