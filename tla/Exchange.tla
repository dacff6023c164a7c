------------------------------ MODULE Exchange ------------------------------
(***************************************************************************)
(* What a caller may conclude from a synchronous call of goflux            *)
(* (Requester.Request in requester.go, Publisher.Publish over HTTP, and a  *)
(* RetryPublisher around it): a call that returns without error has been   *)
(* processed by a handler at the other end.  An error says nothing: the    *)
(* call may have been processed, or may still be.                          *)
(***************************************************************************)
CONSTANT Calls

VARIABLES
  call,       \* call[c]: "idle", "waiting", "ok" or "failed"
  processed   \* the calls a handler has processed

Init ==
  /\ call = [c \in Calls |-> "idle"]
  /\ processed = {}

\* A call that cannot be encoded fails before it is sent.
Start(c) ==
  /\ call[c] = "idle"
  /\ \E to \in {"waiting", "failed"} : call' = [call EXCEPT ![c] = to]
  /\ UNCHANGED processed

\* A handler processes the call, even one its caller has given up or one that
\* was processed before.
Process(c) ==
  /\ call[c] # "idle"
  /\ processed' = processed \cup {c}
  /\ UNCHANGED call

Return(c) ==
  /\ call[c] = "waiting"
  /\ \/ c \in processed /\ call' = [call EXCEPT ![c] = "ok"]
     \/ call' = [call EXCEPT ![c] = "failed"]
  /\ UNCHANGED processed

Next == \E c \in Calls : Start(c) \/ Process(c) \/ Return(c)

Spec == Init /\ [][Next]_<<call, processed>>
=============================================================================
