----------------------------- MODULE AtLeastOnce -----------------------------
(***************************************************************************)
(* What goflux promises of a transport with acknowledgments (acker.go,     *)
(* message.go): a stored message stays open, and may be processed again    *)
(* and again, until it is settled; it is settled as done only after a      *)
(* handler has processed it, and as dropped only after it was rejected for *)
(* good (it cannot be decoded, the handler's error is non-retryable, or    *)
(* the retry policy has given up).                                         *)
(***************************************************************************)
CONSTANT Messages

VARIABLES
  status,     \* "open", "done" or "dropped"
  succeeded,  \* messages some handler call has processed
  rejected    \* messages given up for good

vars == <<status, succeeded, rejected>>

Init ==
  /\ status = [m \in Messages |-> "open"]
  /\ succeeded = {}
  /\ rejected = {}

\* One more processing of m, even of a settled one.
Attempt(m) ==
  /\ \/ succeeded' = succeeded \cup {m} /\ UNCHANGED rejected
     \/ rejected' = rejected \cup {m} /\ UNCHANGED succeeded
  /\ UNCHANGED status

Settle(m, to) ==
  /\ status[m] = "open"
  /\ to = "done" => m \in succeeded
  /\ to = "dropped" => m \in rejected
  /\ status' = [status EXCEPT ![m] = to]
  /\ UNCHANGED <<succeeded, rejected>>

Next ==
  \E m \in Messages : Attempt(m) \/ \E to \in {"done", "dropped"} : Settle(m, to)

Spec == Init /\ [][Next]_vars

-----------------------------------------------------------------------------
\* No message is lost: none is settled without the reason for it.
NoLoss ==
  \A m \in Messages :
    /\ status[m] = "done" => m \in succeeded
    /\ status[m] = "dropped" => m \in rejected
=============================================================================
