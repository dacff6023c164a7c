-------------------------- MODULE JetStreamConsumer --------------------------
(***************************************************************************)
(* Subscribers of transport/jetstream that share one durable consumer, the *)
(* acknowledging middleware around their handlers (middleware/autoack.go,  *)
(* retryack.go), Message's acknowledgment methods (message.go) and, as the *)
(* environment, the JetStream server and the client's msg.                 *)
(*                                                                         *)
(* A worker is one process calling SubscribeWithReady; the client calls    *)
(* its callback for one prefetched delivery after the other.  A delivery   *)
(* of message m has the delivery count dc.  The settlement messages (ack,  *)
(* nak, delayed nak, term) travel separately: they may be late, overtake   *)
(* each other or get lost, and a late one of an older delivery counts.     *)
(***************************************************************************)
EXTENDS Integers, Sequences, FiniteSets

CONSTANTS
  Messages,       \* messages of the stream
  Workers,        \* processes subscribed to the consumer
  Undecodable,    \* messages the decoder refuses
  Wrapped,        \* middleware around each worker's handler
  ManualAck,      \* workers whose Subscriber has WithManualAck
  Implements,     \* optional interfaces of the acker
  MaxDeliveries,  \* BackoffRetryPolicyWithMaxDeliveries; 0: no limit
  MaxDeliver,     \* the consumer's own limit of deliveries per message
  Prefetch,       \* bound: deliveries waiting in a client
  MaxFailures,    \* bound: handler errors
  MaxFaults       \* bound: crashes, failed or lost settlements, early timeouts

ASSUME ConstantsAssumption ==
  /\ Messages # {}
  /\ Undecodable \subseteq Messages
  /\ Wrapped \in [Workers -> {"none", "AutoAck", "RetryAck"}]
  /\ ManualAck \subseteq Workers
  /\ Implements \subseteq {"DelayedNaker", "Terminator", "DeliveryReporter"}
  /\ MaxDeliveries \in Nat /\ MaxDeliver \in Nat /\ Prefetch \in Nat
  /\ MaxFailures \in Nat /\ MaxFaults \in Nat

VARIABLES
  status,     \* server: state of each message
  count,      \* server: how often it has been delivered
  wire,       \* settlements on their way to the server
  session,    \* where each worker's SubscribeWithReady is
  inbox,      \* deliveries waiting in each worker's client
  pc,         \* where each worker's callback is ...
  job,        \* ... with which delivery
  result,     \* ... and the error it has come to
  settled,    \* ... and whether the client has sent a settlement for it (msg.ackd)
  failures, faults,  \* what the bounds have left
  ended,      \* history: outcome of each handled delivery
  sent,       \* history: settlements sent
  rejected    \* history: messages given up for good

server == <<status, count>>
callback == <<pc, job, result, settled>>
bounds == <<failures, faults>>
history == <<ended, sent, rejected>>
vars == <<server, wire, session, inbox, callback, bounds, history>>

Delivery == [m : Messages, dc : Nat]
Settlement == [type : {"ack", "nak", "nakDelay", "term"}, m : Messages, dc : Nat]
Outcome == [m : Messages, dc : Nat, out : {"ok", "retry", "fatal"}]

Settled(m) == status[m] \in {"acked", "termed"}

Held(m) ==
  \/ \E a \in wire : a.m = m
  \/ \E w \in Workers : pc[w] # "idle" /\ job[w].m = m
  \/ \E w \in Workers : \E i \in 1 .. Len(inbox[w]) : inbox[w][i].m = m

Init ==
  /\ status = [m \in Messages |-> "ready"]
  /\ count = [m \in Messages |-> 0]
  /\ wire = {}
  /\ session = [w \in Workers |-> "new"]
  /\ inbox = [w \in Workers |-> <<>>]
  /\ pc = [w \in Workers |-> "idle"]
  /\ job = [w \in Workers |-> [m |-> CHOOSE m \in Messages : TRUE, dc |-> 0]]
  /\ result = [w \in Workers |-> "ok"]
  /\ settled = [w \in Workers |-> FALSE]
  /\ failures = 0 /\ faults = 0
  /\ ended = {} /\ sent = {} /\ rejected = {}

Fault == faults < MaxFaults /\ faults' = faults + 1
NoFault == UNCHANGED faults

-----------------------------------------------------------------------------
(* Settling a delivery *)

\* Message.Delivery: zero when the acker does not report it.
NumDelivered(w) == IF "DeliveryReporter" \in Implements THEN job[w].dc ELSE 0

\* A command of its own that the server does not know.
OnWireUnchecked(method) ==
  CASE method = "Ack" -> "ack"
    [] method = "Nak" -> "nak"
    [] method = "NakWithDelay" -> "delayedNak"
    [] method = "Term" -> "term"

\* What the acker sends for a method of Message: Term falls back to Ack and
\* NakWithDelay to Nak when the acker lacks the interface.
OnWire(method) ==
  CASE method = "Ack" -> "ack"
    [] method = "Nak" -> "nak"
    [] method = "NakWithDelay" -> IF "DelayedNaker" \in Implements THEN "nakDelay" ELSE "nak"
    [] method = "Term" -> IF "Terminator" \in Implements THEN "term" ELSE "ack"

\* jetstream.Msg, to which jsAcker delegates, sends the first settlement of a
\* delivery and refuses the rest.
Sends(w, type) ==
  LET a == [type |-> type, m |-> job[w].m, dc |-> job[w].dc]
  IN
  /\ ~ settled[w]
  /\ wire' = wire \cup {a}
  /\ sent' = sent \cup {a}
  /\ settled' = [settled EXCEPT ![w] = TRUE]
  /\ NoFault

\* The call returns an error: settled already, or the connection is down.
Refuses(w) ==
  /\ IF settled[w] THEN NoFault ELSE Fault
  /\ UNCHANGED <<wire, sent, settled>>

-----------------------------------------------------------------------------
(* Plausible bugs: what the actions below must not be.  Nothing uses them but  *)
(* the mutation runs.                                                          *)

\* Acknowledged when received, before the handler has run.
TakeAndAck(w) ==
  LET a == [type |-> "ack", m |-> Head(inbox[w]).m, dc |-> Head(inbox[w]).dc]
  IN
  /\ pc[w] = "idle"
  /\ inbox[w] # <<>>
  /\ job' = [job EXCEPT ![w] = Head(inbox[w])]
  /\ inbox' = [inbox EXCEPT ![w] = Tail(@)]
  /\ wire' = wire \cup {a} /\ sent' = sent \cup {a}
  /\ settled' = [settled EXCEPT ![w] = TRUE]
  /\ pc' = [pc EXCEPT ![w] = "received"]
  /\ UNCHANGED <<server, session, result, bounds, ended, rejected>>

\* return without Term: AckWait brings it back.
RejectUndecodableSilently(w) ==
  /\ pc[w] = "received"
  /\ job[w].m \in Undecodable
  /\ rejected' = rejected \cup {job[w].m}
  /\ pc' = [pc EXCEPT ![w] = "idle"]
  /\ UNCHANGED <<server, wire, sent, settled, session, inbox, job, result, bounds, ended>>

\* One delivery too many ...
GivesUpLate(w) ==
  \/ result[w] = "fatal"
  \/ MaxDeliveries > 0 /\ NumDelivered(w) > MaxDeliveries

\* ... or one too few.
GivesUpEarly(w) ==
  \/ result[w] = "fatal"
  \/ MaxDeliveries > 0 /\ NumDelivered(w) + 1 >= MaxDeliveries

\* msg.Ack() deferred.
FinishWithAck(w) ==
  /\ pc[w] = "returned"
  /\ \/ w \in ManualAck /\ UNCHANGED <<wire, sent, settled, faults>>
     \/ w \notin ManualAck /\ Sends(w, "ack")
     \/ w \notin ManualAck /\ Refuses(w)
  /\ pc' = [pc EXCEPT ![w] = "idle"]
  /\ UNCHANGED <<server, session, inbox, job, result, failures, ended, rejected>>

-----------------------------------------------------------------------------
(* The server *)

Deliver(w, m) ==
  /\ session[w] = "consuming"
  /\ Len(inbox[w]) < Prefetch
  /\ status[m] = "ready"
  /\ count[m] < MaxDeliver
  /\ status' = [status EXCEPT ![m] = "pending"]
  /\ count' = [count EXCEPT ![m] = @ + 1]
  /\ inbox' = [inbox EXCEPT ![w] = Append(@, [m |-> m, dc |-> count[m] + 1])]
  /\ UNCHANGED <<wire, session, callback, bounds, history>>

\* A settlement arrives; one of an older delivery is as good as the latest.
Arrive(a) ==
  /\ a \in wire
  /\ wire' = wire \ {a}
  /\ status' = IF Settled(a.m) THEN status ELSE [status EXCEPT ![a.m] =
       CASE a.type = "ack" -> "acked"
         [] a.type = "term" -> "termed"
         [] a.type = "nak" -> "ready"
         [] a.type = "nakDelay" -> IF @ = "pending" THEN "delayed" ELSE @]
  /\ UNCHANGED <<count, session, inbox, callback, bounds, history>>

Lose(a) ==
  /\ a \in wire
  /\ wire' = wire \ {a}
  /\ Fault
  /\ UNCHANGED <<server, session, inbox, callback, failures, history>>

\* The delay of a delayed nak is over.
DelayOver(m) ==
  /\ status[m] = "delayed"
  /\ status' = [status EXCEPT ![m] = "ready"]
  /\ UNCHANGED <<count, wire, session, inbox, callback, bounds, history>>

\* AckWait is over, early when somebody still has the delivery in hand.
AckWait(m) ==
  /\ status[m] = "pending"
  /\ IF Held(m) THEN Fault ELSE NoFault
  /\ status' = [status EXCEPT ![m] = "ready"]
  /\ UNCHANGED <<count, wire, session, inbox, callback, failures, history>>

-----------------------------------------------------------------------------
(* Subscriber.SubscribeWithReady *)

\* Consume succeeds: ready(); or it fails, and its error is returned.
Subscribe(w) ==
  /\ session[w] = "new"
  /\ \E to \in {"consuming", "stopped"} : session' = [session EXCEPT ![w] = to]
  /\ UNCHANGED <<server, wire, inbox, callback, bounds, history>>

\* ctx is done: cc.Stop() drops what the client has prefetched; the callback
\* that is running goes on.
Stop(w) ==
  /\ session[w] = "consuming"
  /\ session' = [session EXCEPT ![w] = "stopped"]
  /\ inbox' = [inbox EXCEPT ![w] = <<>>]
  /\ UNCHANGED <<server, wire, callback, bounds, history>>

\* The process dies and is started again.
Crash(w) ==
  /\ session[w] # "new"
  /\ session' = [session EXCEPT ![w] = "new"]
  /\ inbox' = [inbox EXCEPT ![w] = <<>>]
  /\ pc' = [pc EXCEPT ![w] = "idle"]
  /\ Fault
  /\ UNCHANGED <<server, wire, job, result, settled, failures, history>>

\* The client calls the callback with its next delivery.
Take(w) ==
  /\ pc[w] = "idle"
  /\ inbox[w] # <<>>
  /\ job' = [job EXCEPT ![w] = Head(inbox[w])]
  /\ inbox' = [inbox EXCEPT ![w] = Tail(@)]
  /\ settled' = [settled EXCEPT ![w] = FALSE]
  /\ pc' = [pc EXCEPT ![w] = "received"]
  /\ UNCHANGED <<server, wire, session, result, bounds, history>>

\* The decoder fails: msg.Term(), and the callback is over.
RejectUndecodable(w) ==
  /\ pc[w] = "received"
  /\ job[w].m \in Undecodable
  /\ Sends(w, "term") \/ Refuses(w)
  /\ rejected' = rejected \cup {job[w].m}
  /\ pc' = [pc EXCEPT ![w] = "idle"]
  /\ UNCHANGED <<server, session, inbox, job, result, failures, ended>>

\* The application's handler is called and returns nil, an error, or an error
\* marked NonRetryable.
Handle(w) ==
  /\ pc[w] = "received"
  /\ job[w].m \notin Undecodable
  /\ \E out \in {"ok", "retry", "fatal"} :
       /\ IF out = "ok" THEN UNCHANGED failures
                        ELSE failures < MaxFailures /\ failures' = failures + 1
       /\ result' = [result EXCEPT ![w] = out]
       /\ ended' = ended \cup {[m |-> job[w].m, dc |-> job[w].dc, out |-> out]}
  /\ pc' = [pc EXCEPT ![w] = "handled"]
  /\ UNCHANGED <<server, wire, session, inbox, job, settled, faults, sent, rejected>>

\* NewBackoffRetryPolicy: RetryTerm or RetryNakWithDelay.
GivesUp(w) ==
  \/ result[w] = "fatal"
  \/ MaxDeliveries > 0 /\ NumDelivered(w) >= MaxDeliveries

Returned(w) ==
  /\ pc[w] = "handled"
  /\ pc' = [pc EXCEPT ![w] = "returned"]
  /\ UNCHANGED <<server, session, inbox, job, failures, ended>>

\* No middleware settles: the handler's error is the subscriber's.
PassThrough(w) ==
  /\ Returned(w)
  /\ Wrapped[w] = "none"
  /\ UNCHANGED <<wire, sent, settled, faults, result, rejected>>

\* return msg.Ack(): a failed Ack turns success into an error.
AckSuccess(w) ==
  /\ result[w] = "ok"
  /\ \/ Sends(w, "ack") /\ UNCHANGED result
     \/ Refuses(w) /\ result' = [result EXCEPT ![w] = "retry"]
  /\ UNCHANGED rejected

AutoAck(w) ==
  /\ Returned(w)
  /\ Wrapped[w] = "AutoAck"
  /\ \/ AckSuccess(w)
     \/ /\ result[w] # "ok"
        /\ Sends(w, "nak") \/ Refuses(w)
        /\ UNCHANGED <<result, rejected>>

\* The policy decides what becomes of an error: NewBackoffRetryPolicy as in
\* GivesUp, with a delay or, as another policy may choose, without.
RetryAck(w) ==
  /\ Returned(w)
  /\ Wrapped[w] = "RetryAck"
  /\ \/ AckSuccess(w)
     \/ /\ result[w] # "ok" /\ GivesUp(w)
        /\ Sends(w, OnWire("Term")) \/ Refuses(w)
        /\ rejected' = rejected \cup {job[w].m}
        /\ UNCHANGED result
     \/ /\ result[w] # "ok" /\ ~ GivesUp(w)
        /\ \/ \E method \in {"Nak", "NakWithDelay"} : Sends(w, OnWire(method))
           \/ Refuses(w)
        /\ UNCHANGED <<result, rejected>>

\* Without WithManualAck the subscriber settles by the handler's error, and
\* ignores the answer.
Finish(w) ==
  /\ pc[w] = "returned"
  /\ \/ w \in ManualAck /\ UNCHANGED <<wire, sent, settled, faults>>
     \/ w \notin ManualAck /\ Sends(w, IF result[w] = "ok" THEN "ack" ELSE "nak")
     \/ w \notin ManualAck /\ Refuses(w)
  /\ pc' = [pc EXCEPT ![w] = "idle"]
  /\ UNCHANGED <<server, session, inbox, job, result, failures, ended, rejected>>

-----------------------------------------------------------------------------
Callback(w) ==
  \/ Take(w) \/ RejectUndecodable(w) \/ Handle(w)
  \/ PassThrough(w) \/ AutoAck(w) \/ RetryAck(w) \/ Finish(w)

Next ==
  \/ \E m \in Messages : DelayOver(m) \/ AckWait(m) \/ \E w \in Workers : Deliver(w, m)
  \/ \E a \in wire : Arrive(a) \/ Lose(a)
  \/ \E w \in Workers : Subscribe(w) \/ Stop(w) \/ Crash(w) \/ Callback(w)

SafeSpec == Init /\ [][Next]_vars

\* Timers expire, messages that are not lost arrive, handlers return, a dead
\* process is started again; faults, Stop and errors are nobody's duty.
Fairness ==
  /\ \A m \in Messages :
       /\ WF_vars(DelayOver(m))
       /\ WF_vars(AckWait(m) /\ ~ Held(m))
       /\ SF_vars(\E w \in Workers : Deliver(w, m))
       /\ WF_vars(\E a \in wire : a.m = m /\ Arrive(a))
  /\ \A w \in Workers : WF_vars(Subscribe(w)) /\ WF_vars(Callback(w))

Spec == SafeSpec /\ Fairness

-----------------------------------------------------------------------------
(* Properties *)

TypeOK ==
  /\ status \in [Messages -> {"ready", "pending", "delayed", "acked", "termed"}]
  /\ count \in [Messages -> Nat]
  /\ wire \in SUBSET Settlement
  /\ session \in [Workers -> {"new", "consuming", "stopped"}]
  /\ inbox \in [Workers -> Seq(Delivery)]
  /\ pc \in [Workers -> {"idle", "received", "handled", "returned"}]
  /\ job \in [Workers -> Delivery]
  /\ result \in [Workers -> {"ok", "retry", "fatal"}]
  /\ settled \in [Workers -> BOOLEAN]
  /\ failures \in Nat /\ faults \in Nat
  /\ ended \in SUBSET Outcome
  /\ sent \in SUBSET Settlement
  /\ rejected \in SUBSET Messages

\* Whatever the subscriber and the middleware around its handler both decide,
\* and in whatever order, a delivery is acked only if its own handler call
\* returned nil (or, where Term falls back to Ack, gave its message up), and
\* terminated only if its message was given up.
SettledAsHandled ==
  \A a \in sent :
    /\ a.type = "ack" =>
         \/ [m |-> a.m, dc |-> a.dc, out |-> "ok"] \in ended
         \/ "Terminator" \notin Implements /\ a.m \in rejected
    /\ a.type = "term" => a.m \in rejected

\* A message is not given up before its time: only if it cannot be decoded, if
\* the handler call of this very delivery found it fatal, or if that call failed
\* and the delivery was at least number MaxDeliveries, counted over all workers
\* and over the deliveries that were lost with a process (retryack.go:68-97).
TermIsDue ==
  \A a \in sent : a.type = "term" =>
    \/ a.m \in Undecodable
    \/ [m |-> a.m, dc |-> a.dc, out |-> "fatal"] \in ended
    \/ /\ [m |-> a.m, dc |-> a.dc, out |-> "retry"] \in ended
       /\ 0 < MaxDeliveries /\ MaxDeliveries <= a.dc

\* The policy that gives up at delivery number MaxDeliveries keeps a message
\* whose handler always fails from being tried without end: beyond the limit
\* every further attempt has cost a fault (a crash, a lost or failed Term, an
\* AckWait that was over too early).
AttemptsBounded ==
  \A m \in Messages :
    Cardinality({e \in ended : e.m = m /\ e.out # "ok"}) <= MaxDeliveries + faults

\* The contract: a message is settled as done only after some handler call has
\* processed it, as dropped only after it was given up, and stays settled.
Contract == INSTANCE AtLeastOnce WITH
  status <- [m \in Messages |->
    CASE status[m] = "acked" -> "done"
      [] status[m] = "termed" -> "dropped"
      [] OTHER -> "open"],
  succeeded <- {e.m : e \in {f \in ended : f.out = "ok"}}

ImplementsContract == Contract!Spec
NoLoss == Contract!NoLoss

\* Liveness of the retry loop: a message that fails, crashes its worker, is
\* undecodable or whose settlement is lost is in the end settled, unless the
\* subscriptions have all returned, cancelled or with an error.
EventuallySettled ==
  \A m \in Messages :
    []<>(Settled(m) \/ \A w \in Workers : session[w] = "stopped")
=============================================================================
