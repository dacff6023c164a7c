----------------------------- MODULE ChannelBus -----------------------------
(***************************************************************************)
(* The in-process transport of transport/channel: Bus (bus.go), Publisher  *)
(* (publisher.go) and Subscriber (subscriber.go).                          *)
(*                                                                         *)
(* A publisher p is a goroutine that calls Publish again and again with    *)
(* one context.  A session s is one call of SubscribeWithReady on the      *)
(* Subscriber object Owner[s]; it makes its own Go channel, so a session   *)
(* also names that channel.  The critical sections of the bus's and of a   *)
(* Subscriber's mutex never block inside, so each is one step; everything  *)
(* between two of them interleaves.                                        *)
(*                                                                         *)
(* A channel is kept as an append-only log with a read index: its buffered *)
(* messages are the ones of log[s] after taken[s].                         *)
(***************************************************************************)
EXTENDS Integers, Sequences, FiniteSets, SequencesExt

CONSTANTS
  Publishers,   \* goroutines calling Publisher.Publish
  Sessions,     \* calls of Subscriber.SubscribeWithReady
  Subscribers,  \* Subscriber objects
  Subjects,     \* subjects, compared by equality
  SubjectOf,    \* the subject argument of each session
  Owner,        \* the Subscriber object of each session
  BufSize,      \* NewSubscriber's bufSize, for each Subscriber object
  Exclusive,    \* Subscriber objects whose callers run one Subscribe at a time
  NoSession,    \* the nil channel in Subscriber.ch
  MaxCalls      \* bound: Publish calls per publisher

ASSUME ConstantsAssumption ==
  /\ Subjects # {}
  /\ SubjectOf \in [Sessions -> Subjects]
  /\ Owner \in [Sessions -> Subscribers]
  /\ BufSize \in [Subscribers -> Nat]
  /\ Exclusive \subseteq Subscribers
  /\ NoSession \notin Sessions
  /\ MaxCalls \in Nat

VARIABLES
  subscribers,  \* Bus.subscribers
  ch,           \* Subscriber.ch, per Subscriber object
  pc,           \* where each session's SubscribeWithReady is
  log, taken,   \* the channel of each session
  cancelled,    \* the sessions and publishers whose context is done
  ppc,          \* where each publisher's Publish is
  msg,          \* the message of its current or latest Publish
  snapshot,     \* Bus.publish's copy of the subscriber list
  next,         \* index of the range loop over snapshot
  due           \* history: sessions that were ready when Publish was called

vars == <<subscribers, ch, pc, log, taken, cancelled, ppc, msg, snapshot, next, due>>

Message == [pub : Publishers, n : Nat, subject : Subjects]

SessionPc == {"idle", "opened", "registered", "select", "handling",
              "unsubscribing", "clearing", "done"}
PublishPc == {"idle", "called", "sending", "ok", "aborted"}

Buffered(s) == Len(log[s]) - taken[s]

\* make(chan goflux.Message[T], s.bufSize)
Capacity(s) == BufSize[Owner[s]]

\* Subscriber.Len: the backlog gauge of Subscriber object r.
LenOf(r) == IF ch[r] = NoSession THEN 0 ELSE Buffered(ch[r])

\* ready() has been called and SubscribeWithReady is still in its loop.
IsReady(s) == pc[s] \in {"select", "handling"}

\* SubscribeWithReady is running: its channel exists.
Active(s) == pc[s] \notin {"idle", "done"}

\* Bus.publish is in its range loop ...
InLoop(p) == ppc[p] = "sending" /\ next[p] <= Len(snapshot[p])

\* ... at this channel.
Target(p) == snapshot[p][next[p]]

Init ==
  /\ subscribers = [x \in Subjects |-> <<>>]
  /\ ch = [r \in Subscribers |-> NoSession]
  /\ pc = [s \in Sessions |-> "idle"]
  /\ log = [s \in Sessions |-> <<>>]
  /\ taken = [s \in Sessions |-> 0]
  /\ cancelled = {}
  /\ ppc = [p \in Publishers |-> "idle"]
  /\ msg = [p \in Publishers |->
              [pub |-> p, n |-> 0, subject |-> CHOOSE x \in Subjects : TRUE]]
  /\ snapshot = [p \in Publishers |-> <<>>]
  /\ next = [p \in Publishers |-> 1]
  /\ due = [p \in Publishers |-> {}]

-----------------------------------------------------------------------------
(* Plausible bugs: what the actions below must not be.  Nothing uses them but  *)
(* the mutation runs.                                                          *)

\* The handler runs until its context is done.
HandlerReturnOnCancel(s) ==
  /\ pc[s] = "handling"
  /\ s \in cancelled
  /\ pc' = [pc EXCEPT ![s] = "select"]
  /\ UNCHANGED <<subscribers, ch, log, taken, cancelled, ppc, msg, snapshot, next, due>>

\* The context is looked at only when a message is there.
StopOnMessage(s) ==
  /\ pc[s] = "select"
  /\ s \in cancelled
  /\ Buffered(s) > 0
  /\ pc' = [pc EXCEPT ![s] = "unsubscribing"]
  /\ UNCHANGED <<subscribers, ch, log, taken, cancelled, ppc, msg, snapshot, next, due>>

\* Reading from a closed channel: the handler is given a zero message.
ReceiveZero(s) ==
  /\ pc[s] = "select"
  /\ taken' = [taken EXCEPT ![s] = @ + 1]
  /\ pc' = [pc EXCEPT ![s] = "handling"]
  /\ UNCHANGED <<subscribers, ch, log, cancelled, ppc, msg, snapshot, next, due>>

\* append(subs[:i]) without the tail: later subscribers are lost.
UnregisterTail(s) ==
  LET subs == subscribers[SubjectOf[s]]
  IN
  /\ pc[s] = "unsubscribing"
  /\ \E i \in 1 .. Len(subs) :
       /\ subs[i] = s
       /\ subscribers' = [subscribers EXCEPT ![SubjectOf[s]] = SubSeq(subs, 1, i - 1)]
  /\ pc' = [pc EXCEPT ![s] = "clearing"]
  /\ UNCHANGED <<ch, log, taken, cancelled, ppc, msg, snapshot, next, due>>

\* s.ch is not reset.
ClearNothing(s) ==
  /\ pc[s] = "clearing"
  /\ pc' = [pc EXCEPT ![s] = "done"]
  /\ UNCHANGED <<subscribers, ch, log, taken, cancelled, ppc, msg, snapshot, next, due>>

\* The loop starts one too low.
SnapshotFromZero(p) ==
  /\ ppc[p] = "called"
  /\ snapshot' = [snapshot EXCEPT ![p] = subscribers[msg[p].subject]]
  /\ next' = [next EXCEPT ![p] = 0]
  /\ ppc' = [ppc EXCEPT ![p] = "sending"]
  /\ UNCHANGED <<subscribers, ch, pc, log, taken, cancelled, msg, due>>

\* A default case: a full channel is skipped.
SendOrDrop(p) ==
  /\ InLoop(p)
  /\ log' = IF Buffered(Target(p)) < Capacity(Target(p))
              THEN [log EXCEPT ![Target(p)] = Append(@, msg[p])]
              ELSE log
  /\ next' = [next EXCEPT ![p] = @ + 1]
  /\ UNCHANGED <<subscribers, ch, pc, taken, cancelled, ppc, msg, snapshot, due>>

\* The loop sends to the same channel again.
SendAgain(p) ==
  /\ InLoop(p)
  /\ Buffered(Target(p)) < Capacity(Target(p))
  /\ log' = [log EXCEPT ![Target(p)] = Append(@, msg[p])]
  /\ UNCHANGED <<subscribers, ch, pc, taken, cancelled, ppc, msg, snapshot, next, due>>

\* The context's error is swallowed.
AbortAsSuccess(p) ==
  /\ InLoop(p)
  /\ p \in cancelled
  /\ ppc' = [ppc EXCEPT ![p] = "ok"]
  /\ UNCHANGED <<subscribers, ch, pc, log, taken, cancelled, msg, snapshot, next, due>>

\* Publish waits for a first subscriber.
ReturnIfServed(p) ==
  /\ ppc[p] = "sending"
  /\ next[p] > Len(snapshot[p])
  /\ Len(snapshot[p]) > 0
  /\ ppc' = [ppc EXCEPT ![p] = "ok"]
  /\ UNCHANGED <<subscribers, ch, pc, log, taken, cancelled, msg, snapshot, next, due>>

-----------------------------------------------------------------------------
(* Subscriber.SubscribeWithReady *)

\* make(chan, bufSize), and s.ch = ch under s.mu.
Open(s) ==
  /\ pc[s] = "idle"
  /\ Owner[s] \in Exclusive => \A t \in Sessions : Owner[t] = Owner[s] => ~ Active(t)
  /\ ch' = [ch EXCEPT ![Owner[s]] = s]
  /\ pc' = [pc EXCEPT ![s] = "opened"]
  /\ UNCHANGED <<subscribers, log, taken, cancelled, ppc, msg, snapshot, next, due>>

\* Bus.subscribe
Register(s) ==
  /\ pc[s] = "opened"
  /\ subscribers' = [subscribers EXCEPT ![SubjectOf[s]] = Append(@, s)]
  /\ pc' = [pc EXCEPT ![s] = "registered"]
  /\ UNCHANGED <<ch, log, taken, cancelled, ppc, msg, snapshot, next, due>>

\* ready()
SignalReady(s) ==
  /\ pc[s] = "registered"
  /\ pc' = [pc EXCEPT ![s] = "select"]
  /\ UNCHANGED <<subscribers, ch, log, taken, cancelled, ppc, msg, snapshot, next, due>>

\* case msg := <-ch.  The select may take it even when ctx is done.
Receive(s) ==
  /\ pc[s] = "select"
  /\ Buffered(s) > 0
  /\ taken' = [taken EXCEPT ![s] = @ + 1]
  /\ pc' = [pc EXCEPT ![s] = "handling"]
  /\ UNCHANGED <<subscribers, ch, log, cancelled, ppc, msg, snapshot, next, due>>

\* The handler returns; an error is only logged.
HandlerReturn(s) ==
  /\ pc[s] = "handling"
  /\ pc' = [pc EXCEPT ![s] = "select"]
  /\ UNCHANGED <<subscribers, ch, log, taken, cancelled, ppc, msg, snapshot, next, due>>

\* case <-ctx.Done(): return nil, which starts the deferred function.
Stop(s) ==
  /\ pc[s] = "select"
  /\ s \in cancelled
  /\ pc' = [pc EXCEPT ![s] = "unsubscribing"]
  /\ UNCHANGED <<subscribers, ch, log, taken, cancelled, ppc, msg, snapshot, next, due>>

\* Bus.unsubscribe: drop the first entry of the subject's list that is this
\* channel; do nothing when there is none.
Unregister(s) ==
  LET subs == subscribers[SubjectOf[s]]
  IN
  /\ pc[s] = "unsubscribing"
  /\ \/ \E i \in 1 .. Len(subs) :
          /\ subs[i] = s
          /\ \A j \in 1 .. i - 1 : subs[j] # s
          /\ subscribers' = [subscribers EXCEPT ![SubjectOf[s]] = RemoveAt(subs, i)]
     \/ /\ \A i \in 1 .. Len(subs) : subs[i] # s
        /\ UNCHANGED subscribers
  /\ pc' = [pc EXCEPT ![s] = "clearing"]
  /\ UNCHANGED <<ch, log, taken, cancelled, ppc, msg, snapshot, next, due>>

\* s.ch = nil under s.mu, whoever's channel it holds.
Clear(s) ==
  /\ pc[s] = "clearing"
  /\ ch' = [ch EXCEPT ![Owner[s]] = NoSession]
  /\ pc' = [pc EXCEPT ![s] = "done"]
  /\ UNCHANGED <<subscribers, log, taken, cancelled, ppc, msg, snapshot, next, due>>

-----------------------------------------------------------------------------
(* Publisher.Publish and Bus.publish *)

\* Publish is called and builds its Message.
Call(p) ==
  /\ ppc[p] \in {"idle", "ok", "aborted"}
  /\ msg[p].n < MaxCalls
  /\ \E subject \in Subjects :
       /\ msg' = [msg EXCEPT ![p] = [pub |-> p, n |-> @.n + 1, subject |-> subject]]
       /\ due' = [due EXCEPT ![p] =
                    {s \in Sessions : IsReady(s) /\ SubjectOf[s] = subject}]
  /\ ppc' = [ppc EXCEPT ![p] = "called"]
  /\ UNCHANGED <<subscribers, ch, pc, log, taken, cancelled, snapshot, next>>

\* Copy the subject's list under the read lock.
Snapshot(p) ==
  /\ ppc[p] = "called"
  /\ snapshot' = [snapshot EXCEPT ![p] = subscribers[msg[p].subject]]
  /\ next' = [next EXCEPT ![p] = 1]
  /\ ppc' = [ppc EXCEPT ![p] = "sending"]
  /\ UNCHANGED <<subscribers, ch, pc, log, taken, cancelled, msg, due>>

\* case ch <- msg, into the buffer.
Send(p) ==
  /\ InLoop(p)
  /\ Buffered(Target(p)) < Capacity(Target(p))
  /\ log' = [log EXCEPT ![Target(p)] = Append(@, msg[p])]
  /\ next' = [next EXCEPT ![p] = @ + 1]
  /\ UNCHANGED <<subscribers, ch, pc, taken, cancelled, ppc, msg, snapshot, due>>

\* case ch <- msg on an unbuffered channel: the receiver must be in its select.
HandOver(p) ==
  /\ InLoop(p)
  /\ Capacity(Target(p)) = 0
  /\ pc[Target(p)] = "select"
  /\ log' = [log EXCEPT ![Target(p)] = Append(@, msg[p])]
  /\ taken' = [taken EXCEPT ![Target(p)] = @ + 1]
  /\ pc' = [pc EXCEPT ![Target(p)] = "handling"]
  /\ next' = [next EXCEPT ![p] = @ + 1]
  /\ UNCHANGED <<subscribers, ch, cancelled, ppc, msg, snapshot, due>>

\* case <-ctx.Done(): return ctx.Err()
Abort(p) ==
  /\ InLoop(p)
  /\ p \in cancelled
  /\ ppc' = [ppc EXCEPT ![p] = "aborted"]
  /\ UNCHANGED <<subscribers, ch, pc, log, taken, cancelled, msg, snapshot, next, due>>

\* The loop is over: return nil.
Return(p) ==
  /\ ppc[p] = "sending"
  /\ next[p] > Len(snapshot[p])
  /\ ppc' = [ppc EXCEPT ![p] = "ok"]
  /\ UNCHANGED <<subscribers, ch, pc, log, taken, cancelled, msg, snapshot, next, due>>

\* The caller cancels the context of a session or of a publisher.
Cancel(a) ==
  /\ a \notin cancelled
  /\ cancelled' = cancelled \cup {a}
  /\ UNCHANGED <<subscribers, ch, pc, log, taken, ppc, msg, snapshot, next, due>>

-----------------------------------------------------------------------------
SessionStep(s) ==
  \/ Open(s) \/ Register(s) \/ SignalReady(s)
  \/ Receive(s) \/ HandlerReturn(s)
  \/ Stop(s) \/ Unregister(s) \/ Clear(s)

PublishStep(p) ==
  \/ Call(p) \/ Snapshot(p)
  \/ Send(p) \/ HandOver(p)
  \/ Abort(p) \/ Return(p)

Next ==
  \/ \E s \in Sessions : SessionStep(s)
  \/ \E p \in Publishers : PublishStep(p)
  \/ \E a \in Sessions \cup Publishers : Cancel(a)

\* Safety part, for the proofs.
SafeSpec == Init /\ [][Next]_vars

\* Goroutines that can run do run, and handlers return.  select picks a ready
\* case at random, so a case that is ready again and again is picked (Stop,
\* Abort); senders blocked on a channel queue up in order, so none is passed
\* over for ever (Send, HandOver).  Opening a session, calling Publish and
\* cancelling are the application's choice and carry no fairness.
Fairness ==
  /\ \A s \in Sessions :
       /\ WF_vars(Register(s)) /\ WF_vars(SignalReady(s))
       /\ WF_vars(Receive(s)) /\ WF_vars(HandlerReturn(s))
       /\ SF_vars(Stop(s)) /\ WF_vars(Unregister(s)) /\ WF_vars(Clear(s))
  /\ \A p \in Publishers :
       /\ WF_vars(Snapshot(p)) /\ WF_vars(Return(p))
       /\ SF_vars(Send(p) \/ HandOver(p)) /\ SF_vars(Abort(p))

Spec == SafeSpec /\ Fairness

-----------------------------------------------------------------------------
(* Properties *)

\* Every variable holds a value of its type (bus.go:13, subscriber.go:13).
TypeOK ==
  /\ subscribers \in [Subjects -> Seq(Sessions)]
  /\ ch \in [Subscribers -> Sessions \cup {NoSession}]
  /\ pc \in [Sessions -> SessionPc]
  /\ log \in [Sessions -> Seq(Message)]
  /\ taken \in [Sessions -> Nat]
  /\ cancelled \subseteq Sessions \cup Publishers
  /\ ppc \in [Publishers -> PublishPc]
  /\ msg \in [Publishers -> Message]
  /\ snapshot \in [Publishers -> Seq(Sessions)]
  /\ next \in [Publishers -> Nat \ {0}]
  /\ due \in [Publishers -> SUBSET Sessions]

Listed(s) == pc[s] \in {"registered", "select", "handling", "unsubscribing"}

ListedOnceIn(x) ==
  /\ \A i, j \in 1 .. Len(subscribers[x]) :
       subscribers[x][i] = subscribers[x][j] => i = j
  /\ \A s \in Sessions :
       (\E i \in 1 .. Len(subscribers[x]) : subscribers[x][i] = s)
         <=> Listed(s) /\ SubjectOf[s] = x

\* However subscribe and unsubscribe of several sessions interleave, the bus
\* lists a session once, and under its own subject, from its registration to
\* its deferred unsubscribe, and nowhere before and after (bus.go:23-41).
ListedOnce == \A x \in Subjects : ListedOnceIn(x)

Has(s, m) == \E i \in 1 .. Len(log[s]) : log[s][i] = m

\* A Publish that is under way, was cut short by its context or returned nil
\* has put its message into exactly the channels it had come to in its copy
\* of the list, and nil means into all of them, whatever sessions and other
\* publishers do meanwhile (bus.go:53-61).
DeliveredPrefix ==
  \A p \in Publishers :
    /\ ppc[p] \in {"sending", "ok", "aborted"} =>
         \A s \in Sessions :
           Has(s, msg[p]) <=> \E k \in 1 .. next[p] - 1 : snapshot[p][k] = s
    /\ ppc[p] = "ok" => next[p] = Len(snapshot[p]) + 1

\* The promise of ReadySubscriber (root subscriber.go:24-46): a Publish called
\* after ready() that returns nil has reached every session that was ready,
\* unless that session's own context was cancelled.
ReadyReceives ==
  \A p \in Publishers : ppc[p] = "ok" =>
    \A s \in due[p] \ cancelled : Has(s, msg[p])

\* The backlog gauge is that of the running subscription, and 0 when none is
\* running (subscriber.go:34-45), when callers run one Subscribe at a time.
LenMatches ==
  \A r \in Exclusive :
    \/ \E s \in Sessions : Owner[s] = r /\ Active(s) /\ LenOf(r) = Buffered(s)
    \/ /\ \A s \in Sessions : Owner[s] = r => ~ Active(s)
       /\ LenOf(r) = 0

\* How the bus realises the fire-and-forget contract.
Status(s) ==
  CASE pc[s] \in {"idle", "opened"} -> "new"
    [] pc[s] \in {"registered", "select", "handling"} -> "open"
    [] OTHER -> "closed"

Contract == INSTANCE AtMostOnce WITH status <- [s \in Sessions |-> Status(s)]

\* At most once per session, in each publisher's order, own subject only, and
\* to the handler in the order of acceptance.
InOrderOnce == Contract!InOrderOnce

\* Every behaviour of bus, publishers and subscribers is one of the contract.
ImplementsContract == Contract!Spec

\* An accepted message reaches the handler, or its session stops
\* (subscriber.go:76-91).
AcceptedIsHandled ==
  \A s \in Sessions : \A i \in 1 .. MaxCalls * Cardinality(Publishers) :
    Len(log[s]) >= i ~> taken[s] >= i \/ Status(s) = "closed"

\* A cancelled Subscribe gets itself off the bus and returns, whatever is still
\* in its channel or waits to be sent (subscriber.go:69-89).
CancelledReturns ==
  \A s \in Sessions : s \in cancelled /\ Active(s) ~> pc[s] = "done"

\* Publish returns, unless a session it still has to serve has stopped reading
\* its channel (bus.go:53-59).
PublishReturns ==
  \A p \in Publishers :
    ppc[p] = "called" ~>
      \/ ppc[p] \in {"ok", "aborted"}
      \/ InLoop(p) /\ Status(Target(p)) = "closed"

-----------------------------------------------------------------------------
(* What the comments of the code say and the code does not do *)

\* "publish blocks until every subscriber has accepted the message" (bus.go:43):
\* once every listed subscriber has accepted it, Publish gets to its end.
BlocksOnlyOnSubscribers ==
  \A p \in Publishers :
    ppc[p] = "sending"
      /\ (\A s \in Sessions : Listed(s) /\ SubjectOf[s] = msg[p].subject => Has(s, msg[p]))
      ~> ppc[p] # "sending"
=============================================================================
