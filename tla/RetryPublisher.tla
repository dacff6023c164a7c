--------------------------- MODULE RetryPublisher ---------------------------
(***************************************************************************)
(* RetryPublisher (retrypublisher.go) around a Publisher of which nothing  *)
(* is known but the contract of Exchange: nil means processed, an error    *)
(* means nothing, and what a failed attempt sent may still arrive.  Calls  *)
(* share no state.                                                         *)
(***************************************************************************)
EXTENDS Integers

CONSTANTS
  Calls,        \* calls of retryPublisher.Publish
  MaxAttempts   \* RetryPublisher's maxAttempts, as the caller gives it

ASSUME RetryAssumption == MaxAttempts \in Int

VARIABLES
  call,      \* "idle", "waiting", "ok" or "failed"
  pc,        \* a waiting call is "calling", in "backoff", or its timer has "expired"
  attempt,   \* the loop variable: number of finished attempts
  arrived,   \* the attempts of each call whose message has got through
  done       \* calls whose context is done

retryVars == <<call, pc, attempt, arrived, done>>

\* Plausible bug: the last attempt is counted out.
LimitOffByOne == IF MaxAttempts < 1 THEN 1 ELSE MaxAttempts + 1

\* maxAttempts < 1 counts as 1.
Limit == IF MaxAttempts < 1 THEN 1 ELSE MaxAttempts

RetryInit ==
  /\ call = [c \in Calls |-> "idle"]
  /\ pc = [c \in Calls |-> "calling"]
  /\ attempt = [c \in Calls |-> 0]
  /\ arrived = [c \in Calls |-> {}]
  /\ done = {}

Publish(c) ==
  /\ call[c] = "idle"
  /\ call' = [call EXCEPT ![c] = "waiting"]
  /\ UNCHANGED <<pc, attempt, arrived, done>>

\* What an attempt sent gets through, during the attempt or any time later.
Arrive(c) ==
  /\ call[c] # "idle"
  /\ \E k \in 0 .. attempt[c] :
       /\ k \notin arrived[c]
       /\ arrived' = [arrived EXCEPT ![c] = @ \cup {k}]
  /\ UNCHANGED <<call, pc, attempt, done>>

\* r.pub.Publish returns nil.
AttemptOk(c) ==
  /\ call[c] = "waiting" /\ pc[c] = "calling"
  /\ attempt[c] \in arrived[c]
  /\ call' = [call EXCEPT ![c] = "ok"]
  /\ UNCHANGED <<pc, attempt, arrived, done>>

\* r.pub.Publish returns an error: the loop ends with the last attempt or an
\* error that is not retryable, else the backoff starts.
AttemptFails(c) ==
  /\ call[c] = "waiting" /\ pc[c] = "calling"
  /\ \/ /\ call' = [call EXCEPT ![c] = "failed"]
        /\ UNCHANGED pc
     \/ /\ attempt[c] < Limit - 1
        /\ pc' = [pc EXCEPT ![c] = "backoff"]
        /\ UNCHANGED call
  /\ UNCHANGED <<attempt, arrived, done>>

\* time.After(delay) fires.
Expire(c) ==
  /\ call[c] = "waiting" /\ pc[c] = "backoff"
  /\ pc' = [pc EXCEPT ![c] = "expired"]
  /\ UNCHANGED <<call, attempt, arrived, done>>

\* The select takes the timer's case, even when the context is done too ...
Retry(c) ==
  /\ call[c] = "waiting" /\ pc[c] = "expired"
  /\ attempt' = [attempt EXCEPT ![c] = @ + 1]
  /\ pc' = [pc EXCEPT ![c] = "calling"]
  /\ UNCHANGED <<call, arrived, done>>

\* ... or the context's: return ctx.Err().
Abort(c) ==
  /\ call[c] = "waiting" /\ pc[c] \in {"backoff", "expired"}
  /\ c \in done
  /\ call' = [call EXCEPT ![c] = "failed"]
  /\ UNCHANGED <<pc, attempt, arrived, done>>

\* The context that some calls share is done.
CancelCalls(C) ==
  /\ done' = done \cup C
  /\ UNCHANGED <<call, pc, attempt, arrived>>

\* What a call does by itself.
RetryStep(c) ==
  \/ AttemptOk(c) \/ AttemptFails(c)
  \/ Expire(c) \/ Retry(c) \/ Abort(c)

RetryNext ==
  \/ \E c \in Calls : Publish(c) \/ RetryStep(c) \/ Arrive(c)
  \/ \E C \in SUBSET Calls : CancelCalls(C)

RetrySpec == RetryInit /\ [][RetryNext]_retryVars

-----------------------------------------------------------------------------
\* Every variable of the retry loop holds a value of its type
\* (retrypublisher.go:70-92).
RetryTypeOK ==
  /\ call \in [Calls -> {"idle", "waiting", "ok", "failed"}]
  /\ pc \in [Calls -> {"calling", "backoff", "expired"}]
  /\ attempt \in [Calls -> Nat]
  /\ arrived \in [Calls -> SUBSET Nat]
  /\ done \subseteq Calls

\* However often attempts fail late, a Publish makes at most maxAttempts of
\* them, at least one, and so puts at most that many copies of its message on
\* the wire (retrypublisher.go:41, 72-85).
CopiesBounded == \A c \in Calls : \A k \in arrived[c] : k = 0 \/ k < MaxAttempts

\* The retries keep the contract: nil only if some attempt has got through.
Contract == INSTANCE Exchange WITH processed <- {c \in Calls : arrived[c] # {}}
ImplementsExchange == Contract!Spec
=============================================================================
