----------------------------- MODULE AtMostOnce -----------------------------
(***************************************************************************)
(* What a goflux fire-and-forget transport promises the callers of         *)
(* Publisher[T].Publish and Subscriber[T].Subscribe (publisher.go,         *)
(* subscriber.go): a subscription ("session", one call of Subscribe) sees  *)
(* each published message at most once, the messages of one publishing     *)
(* goroutine in the order it published them, only messages of its own      *)
(* subject, and hands them to its handler one by one in the order it       *)
(* accepted them.  Nothing is promised about WHETHER a message arrives.    *)
(***************************************************************************)
EXTENDS Integers, Sequences

CONSTANTS
  Publishers,   \* goroutines calling Publish, one call after the other
  Sessions,     \* calls of Subscribe, each made at most once
  Subjects,     \* subjects (exact names)
  SubjectOf     \* the subject each session subscribes to

VARIABLES
  msg,      \* msg[p]: the message of p's latest Publish call
  log,      \* log[s]: every message session s has accepted, oldest first
  taken,    \* taken[s]: how many of them its handler has been given
  status    \* status[s]: "new", "open" or "closed"

vars == <<msg, log, taken, status>>

Message == [pub : Publishers, n : Nat, subject : Subjects]

\* Message number 0 stands for "no call yet".
Init ==
  /\ msg = [p \in Publishers |->
              [pub |-> p, n |-> 0, subject |-> CHOOSE x \in Subjects : TRUE]]
  /\ log = [s \in Sessions |-> <<>>]
  /\ taken = [s \in Sessions |-> 0]
  /\ status = [s \in Sessions |-> "new"]

Publish(p) ==
  /\ \E subject \in Subjects :
       msg' = [msg EXCEPT ![p] = [pub |-> p, n |-> @.n + 1, subject |-> subject]]
  /\ UNCHANGED <<log, taken, status>>

\* Session s may accept the message p is publishing, once, from the moment it
\* is open.  A closed session may still swallow a message.
MayAccept(s, p) ==
  /\ status[s] \in {"open", "closed"}
  /\ msg[p].n > 0
  /\ msg[p].subject = SubjectOf[s]
  /\ \A i \in 1 .. Len(log[s]) : log[s][i] # msg[p]

Accept(s, p) ==
  /\ MayAccept(s, p)
  /\ log' = [log EXCEPT ![s] = Append(@, msg[p])]
  /\ UNCHANGED <<msg, taken, status>>

Handle(s) ==
  /\ status[s] = "open"
  /\ taken[s] < Len(log[s])
  /\ taken' = [taken EXCEPT ![s] = @ + 1]
  /\ UNCHANGED <<msg, log, status>>

\* An unbuffered hand-over: accepted and handled in one step.
AcceptAndHandle(s, p) ==
  /\ MayAccept(s, p)
  /\ status[s] = "open"
  /\ taken[s] = Len(log[s])
  /\ log' = [log EXCEPT ![s] = Append(@, msg[p])]
  /\ taken' = [taken EXCEPT ![s] = @ + 1]
  /\ UNCHANGED <<msg, status>>

Open(s) ==
  /\ status[s] = "new"
  /\ status' = [status EXCEPT ![s] = "open"]
  /\ UNCHANGED <<msg, log, taken>>

Close(s) ==
  /\ status[s] = "open"
  /\ status' = [status EXCEPT ![s] = "closed"]
  /\ UNCHANGED <<msg, log, taken>>

Next ==
  \/ \E p \in Publishers : Publish(p)
  \/ \E s \in Sessions, p \in Publishers : Accept(s, p) \/ AcceptAndHandle(s, p)
  \/ \E s \in Sessions : Open(s) \/ Close(s) \/ Handle(s)

Spec == Init /\ [][Next]_vars

-----------------------------------------------------------------------------
\* In every session's log the messages of one publisher appear with strictly
\* increasing call numbers: none twice, none overtaken.
InOrderOnce ==
  \A s \in Sessions : \A i, j \in 1 .. Len(log[s]) :
    i < j /\ log[s][i].pub = log[s][j].pub => log[s][i].n < log[s][j].n
=============================================================================
