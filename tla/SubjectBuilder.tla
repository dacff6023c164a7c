--------------------------- MODULE SubjectBuilder ---------------------------
(***************************************************************************)
(* subject/nats: the builder chain New, Domain, Entity, Event.  A subject  *)
(* is the sequence of its tokens; a segment is a token when validateSegment *)
(* lets it pass, else the builder panics.                                  *)
(***************************************************************************)
EXTENDS Integers, Sequences

CONSTANT Tokens   \* the strings validateSegment accepts

\* ">" is no token: validateSegment rejects it.
ASSUME TokensAssumption == ">" \notin Tokens /\ "*" \notin Tokens

\* New(segments...).Domain(d), .Entity(e) and .Event(v) each add one segment.
Prefixes == Seq(Tokens)
Domain(prefix, d) == Append(prefix, d)
Entity(domain, e) == Append(domain, e)
Event(entity, v) == Append(entity, v)

\* Domain.All and Entity.All
All(path) == Append(path, ">")

\* Which subjects a subscription's subject covers is the NATS server's rule.
Matches(pattern, subject) ==
  LET n == Len(pattern)
  IN
  \/ /\ Len(subject) = n
     /\ \A i \in 1 .. n : pattern[i] \in {"*", subject[i]}
  \/ /\ n > 0 /\ pattern[n] = ">"
     /\ Len(subject) >= n
     /\ \A i \in 1 .. n - 1 : pattern[i] \in {"*", subject[i]}

\* A subject is nested below a path when it goes on where the path ends.
Below(path, subject) ==
  /\ Len(subject) > Len(path)
  /\ \A i \in 1 .. Len(path) : subject[i] = path[i]
=============================================================================
