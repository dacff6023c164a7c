-------------------------------- MODULE Pipe --------------------------------
(***************************************************************************)
(* pipe.New, pipe.NewMap and pipe.NewFlatMap (pipe/pipe.go) between a      *)
(* source that redelivers what was not acknowledged and a RetryPublisher.  *)
(*                                                                         *)
(* A run <<m, d>> is the handler's call for the d-th delivery of message   *)
(* m, a call <<m, d, i>> the publish of the i-th item it expands m to: New *)
(* and NewMap publish one item, NewFlatMap any number.                     *)
(***************************************************************************)
EXTENDS RetryPublisher

CONSTANTS
  Messages,
  Items,        \* the number of items of each message
  MaxDeliver    \* bound: deliveries of each message

ASSUME PipeAssumption ==
  /\ Items \in [Messages -> Nat]
  /\ MaxDeliver \in [Messages -> Nat]

Deliveries(m) == 1 .. MaxDeliver[m]
Runs == UNION {{m} \X Deliveries(m) : m \in Messages}

ASSUME CallsAssumption ==
  \A r \in Runs : \A i \in 1 .. Items[r[1]] : <<r[1], r[2], i>> \in Calls

VARIABLES
  status,   \* "open" until the source has the acknowledgment, then "done"
  tries,    \* deliveries of each message so far
  run,      \* "none", "filter", "publish", "nil", "error" or "settled"
  item,     \* the index of the loop over the items
  skipped   \* history: messages the filter has said no to

pipeVars == <<status, tries, run, item, skipped>>
vars == <<pipeVars, retryVars>>

Init ==
  /\ RetryInit
  /\ status = [m \in Messages |-> "open"]
  /\ tries = [m \in Messages |-> 0]
  /\ run = [r \in Runs |-> "none"]
  /\ item = [r \in Runs |-> 1]
  /\ skipped = {}

Message(r) == r[1]
Current(r) == <<r[1], r[2], item[r]>>

\* The handler goes from one of its places to the next.
Go(r, from, to) ==
  /\ run[r] = from
  /\ run' = [run EXCEPT ![r] = to]

-----------------------------------------------------------------------------
\* Plausible bugs, used by the mutation runs only.
NextOnError(r) ==   \* the loop goes on after an error
  /\ run[r] = "publish"
  /\ call[Current(r)] \in {"ok", "failed"}
  /\ item' = [item EXCEPT ![r] = @ + 1]
  /\ UNCHANGED <<status, tries, run, skipped, retryVars>>

SwallowError(r) ==   \* the dead-letter observer swallows the error
  /\ Go(r, "publish", "nil")
  /\ call[Current(r)] = "failed"
  /\ UNCHANGED <<status, tries, item, skipped, retryVars>>

FailWhenDone(r) ==   \* an error is waited out until the context is done
  /\ Go(r, "publish", "error")
  /\ item[r] <= Items[Message(r)]
  /\ call[Current(r)] = "failed" /\ Current(r) \in done
  /\ UNCHANGED <<status, tries, item, skipped, retryVars>>

-----------------------------------------------------------------------------
(* The source: redelivers after a Nak, or when no acknowledgment came in     *)
(* time, perhaps while an earlier handler call is still running.             *)
Deliver(m) ==
  /\ status[m] = "open"
  /\ tries[m] < MaxDeliver[m]
  /\ tries' = [tries EXCEPT ![m] = @ + 1]
  /\ Go(<<m, tries'[m]>>, "none", "filter")
  /\ UNCHANGED <<status, item, skipped, retryVars>>

\* The subscriber acknowledges nil; the acknowledgment may be lost.
Ack(r) ==
  /\ Go(r, "nil", "settled")
  /\ \/ status' = [status EXCEPT ![Message(r)] = "done"]
     \/ UNCHANGED status
  /\ UNCHANGED <<tries, item, skipped, retryVars>>

Nak(r) ==
  /\ Go(r, "error", "settled")
  /\ UNCHANGED <<status, tries, item, skipped, retryVars>>

-----------------------------------------------------------------------------
(* The handler *)

\* The filter, which may look at anything, says no: skipped, with nil.
Skip(r) ==
  /\ Go(r, "filter", "nil")
  /\ skipped' = skipped \cup {Message(r)}
  /\ UNCHANGED <<status, tries, item, retryVars>>

\* The map function fails ...
MapFails(r) ==
  /\ Go(r, "filter", "error")
  /\ UNCHANGED <<status, tries, item, skipped, retryVars>>

\* ... or returns the items.
Expand(r) ==
  /\ Go(r, "filter", "publish")
  /\ UNCHANGED <<status, tries, item, skipped, retryVars>>

PublishItem(r) ==
  /\ run[r] = "publish"
  /\ item[r] <= Items[Message(r)]
  /\ Publish(Current(r))
  /\ UNCHANGED pipeVars

NextItem(r) ==
  /\ run[r] = "publish"
  /\ item[r] <= Items[Message(r)]
  /\ call[Current(r)] = "ok"
  /\ item' = [item EXCEPT ![r] = @ + 1]
  /\ UNCHANGED <<status, tries, run, skipped, retryVars>>

\* A publish error ends the batch: nothing is rolled back, and the dead-letter
\* observer only watches.
PublishFails(r) ==
  /\ Go(r, "publish", "error")
  /\ item[r] <= Items[Message(r)]
  /\ call[Current(r)] = "failed"
  /\ UNCHANGED <<status, tries, item, skipped, retryVars>>

Finish(r) ==
  /\ Go(r, "publish", "nil")
  /\ item[r] > Items[Message(r)]
  /\ UNCHANGED <<status, tries, item, skipped, retryVars>>

\* The context of a handler call, and of all its publishes, is done; nothing
\* looks at it before the first of them.
CancelRun(r) ==
  /\ run[r] = "publish"
  /\ CancelCalls({c \in Calls : <<c[1], c[2]>> = r})
  /\ UNCHANGED pipeVars

RunStep(r) ==
  \/ Skip(r) \/ MapFails(r) \/ Expand(r)
  \/ PublishItem(r) \/ NextItem(r) \/ PublishFails(r) \/ Finish(r)
  \/ Ack(r) \/ Nak(r)

Next ==
  \/ \E m \in Messages : Deliver(m)
  \/ \E r \in Runs : RunStep(r) \/ CancelRun(r)
  \/ \E c \in Calls : (RetryStep(c) \/ Arrive(c)) /\ UNCHANGED pipeVars

\* The publish a handler call waits for goes on.
Attempting(r) ==
  /\ item[r] <= Items[Message(r)]
  /\ RetryStep(Current(r))
  /\ UNCHANGED pipeVars

\* The goroutine of a handler runs, and each attempt to publish returns.
Fairness ==
  /\ \A r \in Runs : WF_vars(RunStep(r))
  /\ \A r \in Runs : WF_vars(Attempting(r))

Spec == Init /\ [][Next]_vars /\ Fairness

-----------------------------------------------------------------------------
\* Every variable of the pipe holds a value of its type (pipe.go:100-143).
TypeOK ==
  /\ RetryTypeOK
  /\ status \in [Messages -> {"open", "done"}]
  /\ tries \in [Messages -> Nat]
  /\ run \in [Runs -> {"none", "filter", "publish", "nil", "error", "settled"}]
  /\ item \in [Runs -> Nat]
  /\ skipped \subseteq Messages

Sent(m, d, i) == arrived[<<m, d, i>>] # {}

\* A batch that fails in the middle has published a prefix: in every handler
\* call, whatever other deliveries of the message do, an item is out only if
\* all items before it are (pipe.go:128-138).
PrefixPublished ==
  \A r \in Runs : \A i \in 1 .. Items[Message(r)] : \A j \in 1 .. i - 1 :
    Sent(r[1], r[2], i) => Sent(r[1], r[2], j)

\* All items of a delivered message are out, or the filter has rejected it.
Forwarded(m) ==
  \/ m \in skipped
  \/ /\ tries[m] > 0
     /\ \A i \in 1 .. Items[m] : \E d \in Deliveries(m) : Sent(m, d, i)

\* End to end the pipe is at-least-once: the source drops a message only when
\* all of its items have got through (pipe.go:35-57, 75-96, 117-143).
Source == INSTANCE AtLeastOnce WITH
  succeeded <- {m \in Messages : Forwarded(m)}, rejected <- {}
ForwardsAtLeastOnce == Source!Spec

\* A handler call comes to an end, with its message settled one way or the
\* other, however its publishes fail or are cancelled (pipe.go:128-143).
RunsEnd ==
  \A r \in Runs : run[r] # "none" ~> run[r] = "settled"
=============================================================================
