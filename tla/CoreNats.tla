------------------------------ MODULE CoreNats ------------------------------
(***************************************************************************)
(* transport/nats: Subscriber, Responder, Publisher and Requester, over a  *)
(* NATS server with one table of subscriptions.  A client connection is a  *)
(* FIFO of protocol frames to the server, which processes one frame at a   *)
(* time; different connections interleave at will.                         *)
(*                                                                         *)
(* A session is one call of SubscribeWithReady or ServeWithReady.  A       *)
(* message is one call of Publish or Request.  What has been delivered to  *)
(* a session is a log with a read index, as in ChannelBus.                 *)
(***************************************************************************)
EXTENDS Integers, Sequences, SubjectBuilder

CONSTANTS
  Sessions,
  Servers,      \* the sessions that are calls of ServeWithReady
  Group,        \* WithQueueGroup of each session, or None; Servers have none
  Path, Whole,  \* a session is on All() of its path if in Whole, else on the path
  Messages,
  Requests,     \* the messages that are calls of Requester.Request
  SubjectOf,    \* subject of each message
  ConnOf,       \* connection of each session and message
  Fragile,      \* bound: the sessions that are cancelled or whose Subscribe fails
  None

Conns == {ConnOf[a] : a \in Sessions \cup Messages}

ASSUME NatsAssumption ==
  /\ Servers \subseteq Sessions /\ Whole \subseteq Sessions
  /\ Fragile \subseteq Sessions
  /\ Requests \subseteq Messages
  /\ Path \in [Sessions -> Seq(Tokens)]
  /\ SubjectOf \in [Messages -> Seq(Tokens)]
  /\ \A s \in Servers : Group[s] = None
  /\ None \notin Messages

VARIABLES
  wire,       \* per connection, the frames the server has not processed
  interest,   \* the server's table of subscriptions
  flushed,    \* sessions whose Flush was answered
  session,    \* "idle", "subscribed", "flushing", "ready", "returned" or "failed"
  cancelled,  \* sessions whose context is done
  log, taken, \* per session: what was delivered, how much was taken of it
  cb,         \* per session: the message its handler is called with, or None
  call,       \* per message: "idle", "waiting", "ok" or "failed"
  processed,  \* history: messages a Responder's handler returned nil for
  replies,    \* requests with an answer in their inbox
  sent, due   \* history: messages in send order; sessions ready at the call

serverVars == <<interest, flushed, log>>
sessionVars == <<session, cancelled, taken, cb>>
callVars == <<call, sent, due>>
vars == <<wire, serverVars, sessionVars, callVars, processed, replies>>

F(type, of) == [type |-> type, of |-> of]

Frame == [type : {"SUB", "UNSUB", "PING"}, of : Sessions] \cup [type : {"PUB"}, of : Messages]

Subject(s) == IF s \in Whole THEN All(Path[s]) ELSE Path[s]

Covers(s, m) == Matches(Subject(s), SubjectOf[m])

Write(c, f) == wire' = [wire EXCEPT ![c] = Append(@, f)]

\* The subscription exists in the client, which runs the callback.
Listening == {"subscribed", "flushing", "ready"}

Init ==
  /\ wire = [c \in Conns |-> <<>>]
  /\ interest = {} /\ flushed = {}
  /\ session = [s \in Sessions |-> "idle"]
  /\ cancelled = {}
  /\ log = [s \in Sessions |-> <<>>]
  /\ taken = [s \in Sessions |-> 0]
  /\ cb = [s \in Sessions |-> None]
  /\ call = [m \in Messages |-> "idle"]
  /\ processed = {} /\ replies = {}
  /\ sent = <<>>
  /\ due = [m \in Messages |-> {}]

-----------------------------------------------------------------------------
\* Plausible bugs, used by the mutation runs only.
FlushNothing(s) ==   \* ready() once the frame is buffered
  /\ session[s] = "flushing"
  /\ session' = [session EXCEPT ![s] = "ready"]
  /\ UNCHANGED <<wire, serverVars, cancelled, taken, cb, callVars, processed, replies>>

TakeZero(s) ==   \* what cannot be decoded is handled as a zero message
  /\ session[s] \in Listening
  /\ cb[s] = None
  /\ taken[s] < Len(log[s])
  /\ taken' = [taken EXCEPT ![s] = @ + 1]
  /\ cb' = [cb EXCEPT ![s] = 0]
  /\ UNCHANGED <<wire, serverVars, session, cancelled, callVars, processed, replies>>

TakeAny(s) ==   \* a goroutine for each message, which overtake each other
  /\ session[s] \in Listening
  /\ cb[s] = None
  /\ taken[s] < Len(log[s])
  /\ taken' = [taken EXCEPT ![s] = @ + 1]
  /\ \E i \in 1 .. Len(log[s]) : cb' = [cb EXCEPT ![s] = log[s][i]]
  /\ UNCHANGED <<wire, serverVars, session, cancelled, callVars, processed, replies>>

RespondOnError(s) ==   \* a zero response for a failed handler
  /\ cb[s] # None
  /\ cb' = [cb EXCEPT ![s] = None]
  /\ \/ UNCHANGED <<processed, replies>>
     \/ /\ s \in Servers
        /\ processed' \in {processed, processed \cup {cb[s]}}
        /\ replies' = replies \cup ({cb[s]} \cap Requests)
  /\ UNCHANGED <<wire, serverVars, session, cancelled, taken, callVars>>

-----------------------------------------------------------------------------
(* Subscriber.SubscribeWithReady and Responder.ServeWithReady *)

\* conn.Subscribe or QueueSubscribe buffers SUB ...
Subscribe(s) ==
  /\ session[s] = "idle"
  /\ session' = [session EXCEPT ![s] = "subscribed"]
  /\ Write(ConnOf[s], F("SUB", s))
  /\ UNCHANGED <<serverVars, cancelled, taken, cb, callVars, processed, replies>>

\* ... or the client refuses.
SubscribeFails(s) ==
  /\ session[s] = "idle" /\ s \in Fragile
  /\ session' = [session EXCEPT ![s] = "failed"]
  /\ UNCHANGED <<wire, serverVars, cancelled, taken, cb, callVars, processed, replies>>

\* Flush sends a PING, behind what others have written to the connection.
Flush(s) ==
  /\ session[s] = "subscribed"
  /\ session' = [session EXCEPT ![s] = "flushing"]
  /\ Write(ConnOf[s], F("PING", s))
  /\ UNCHANGED <<serverVars, cancelled, taken, cb, callVars, processed, replies>>

\* Flush returns nil: ready().
SignalReady(s) ==
  /\ session[s] = "flushing"
  /\ s \in flushed
  /\ session' = [session EXCEPT ![s] = "ready"]
  /\ UNCHANGED <<wire, serverVars, cancelled, taken, cb, callVars, processed, replies>>

\* Flush times out: Unsubscribe, and an error without ready().
FlushFails(s) ==
  /\ session[s] = "flushing" /\ s \in Fragile
  /\ session' = [session EXCEPT ![s] = "failed"]
  /\ Write(ConnOf[s], F("UNSUB", s))
  /\ UNCHANGED <<serverVars, cancelled, taken, cb, callVars, processed, replies>>

\* <-ctx.Done(), then Unsubscribe, which waits for nothing.
Unsubscribe(s) ==
  /\ session[s] = "ready" /\ s \in cancelled
  /\ session' = [session EXCEPT ![s] = "returned"]
  /\ Write(ConnOf[s], F("UNSUB", s))
  /\ UNCHANGED <<serverVars, cancelled, taken, cb, callVars, processed, replies>>

\* Before Subscribe nothing looks at the context, and after it nothing does.
Cancel(s) ==
  /\ session[s] \in Listening /\ s \in Fragile \ cancelled
  /\ cancelled' = cancelled \cup {s}
  /\ UNCHANGED <<wire, serverVars, session, taken, cb, callVars, processed, replies>>

\* The client's goroutine takes the next message, unless unsubscribed.  What
\* cannot be decoded is dropped; the rest goes to the handler.
Take(s) ==
  /\ session[s] \in Listening
  /\ cb[s] = None
  /\ taken[s] < Len(log[s])
  /\ taken' = [taken EXCEPT ![s] = @ + 1]
  /\ \E m \in {None, log[s][taken[s] + 1]} : cb' = [cb EXCEPT ![s] = m]
  /\ UNCHANGED <<wire, serverVars, session, cancelled, callVars, processed, replies>>

\* The handler returns, perhaps after Unsubscribe.  An error is only logged.  A
\* Responder answers when its handler returned nil and the response can be
\* encoded; a message that was published and not requested has no inbox.
HandlerReturn(s) ==
  /\ cb[s] # None
  /\ cb' = [cb EXCEPT ![s] = None]
  /\ \/ UNCHANGED <<processed, replies>>
     \/ /\ s \in Servers
        /\ processed' = processed \cup {cb[s]}
        /\ \/ UNCHANGED replies
           \/ cb[s] \in Requests /\ replies' = replies \cup {cb[s]}
  /\ UNCHANGED <<wire, serverVars, session, cancelled, taken, callVars>>

-----------------------------------------------------------------------------
(* Publisher.Publish and Requester.Request *)

\* The frame is buffered; Publish returns, Request waits for its answer.
Send(m) ==
  /\ call[m] = "idle"
  /\ call' = [call EXCEPT ![m] = IF m \in Requests THEN "waiting" ELSE "ok"]
  /\ Write(ConnOf[m], F("PUB", m))
  /\ sent' = Append(sent, m)
  /\ due' = [due EXCEPT ![m] = {s \in Sessions : session[s] = "ready"}]
  /\ UNCHANGED <<serverVars, sessionVars, processed, replies>>

SendFails(m) ==
  /\ call[m] = "idle"
  /\ call' = [call EXCEPT ![m] = "failed"]
  /\ UNCHANGED <<wire, serverVars, sessionVars, sent, due, processed, replies>>

\* The answer is there; decoding it may fail.
Receive(m) ==
  /\ call[m] = "waiting"
  /\ m \in replies
  /\ \E to \in {"ok", "failed"} : call' = [call EXCEPT ![m] = to]
  /\ UNCHANGED <<wire, serverVars, sessionVars, sent, due, processed, replies>>

\* The caller's context ends the wait, or the server has no responder for it.
GiveUp(m) ==
  /\ call[m] = "waiting"
  /\ call' = [call EXCEPT ![m] = "failed"]
  /\ UNCHANGED <<wire, serverVars, sessionVars, sent, due, processed, replies>>

-----------------------------------------------------------------------------
(* The NATS server processes the next frame of a connection *)

\* A published message goes to every plain subscription that covers its
\* subject and to one member of every queue group that does.
Audiences(m) ==
  LET all == {s \in interest : Covers(s, m)}
  IN  {A \in SUBSET all :
         \A s \in all :
           IF Group[s] = None THEN s \in A
           ELSE \E t \in A : {u \in A : Group[u] = Group[s]} = {t}}

Process(c) ==
  LET f == Head(wire[c])
  IN
  /\ wire[c] # <<>>
  /\ wire' = [wire EXCEPT ![c] = Tail(@)]
  /\ \/ /\ f.type = "SUB"
        /\ interest' = interest \cup {f.of}
        /\ UNCHANGED <<flushed, log>>
     \/ /\ f.type = "UNSUB"
        /\ interest' = interest \ {f.of}
        /\ UNCHANGED <<flushed, log>>
     \/ /\ f.type = "PING"
        /\ flushed' = flushed \cup {f.of}
        /\ UNCHANGED <<interest, log>>
     \/ /\ f.type = "PUB"
        /\ \E A \in Audiences(f.of) :
             log' = [s \in Sessions |-> IF s \in A THEN Append(log[s], f.of) ELSE log[s]]
        /\ UNCHANGED <<interest, flushed>>
  /\ UNCHANGED <<sessionVars, callVars, processed, replies>>

SessionStep(s) ==
  \/ Subscribe(s) \/ SubscribeFails(s)
  \/ Flush(s) \/ SignalReady(s) \/ FlushFails(s)
  \/ Unsubscribe(s) \/ Take(s) \/ HandlerReturn(s)

Next ==
  \/ \E s \in Sessions : SessionStep(s) \/ Cancel(s)
  \/ \E m \in Messages : Send(m) \/ SendFails(m) \/ Receive(m) \/ GiveUp(m)
  \/ \E c \in Conns : Process(c)

Spec == Init /\ [][Next]_vars

-----------------------------------------------------------------------------
(* Properties *)

\* Every variable holds a value of its type (subscriber.go:51-127,
\* responder.go:65-121).
TypeOK ==
  /\ wire \in [Conns -> Seq(Frame)]
  /\ interest \subseteq Sessions /\ flushed \subseteq Sessions
  /\ session \in [Sessions -> {"idle", "returned", "failed"} \cup Listening]
  /\ cancelled \subseteq Sessions
  /\ log \in [Sessions -> Seq(Messages)]
  /\ taken \in [Sessions -> Nat]
  /\ cb \in [Sessions -> Messages \cup {None}]
  /\ call \in [Messages -> {"idle", "waiting", "ok", "failed"}]
  /\ processed \subseteq Messages /\ replies \subseteq Messages
  /\ sent \in Seq(Messages)
  /\ due \in [Messages -> SUBSET Sessions]

Has(s, m) == \E i \in 1 .. Len(log[s]) : log[s][i] = m

OnWire(m) == \E c \in Conns : \E i \in 1 .. Len(wire[c]) : wire[c][i] = F("PUB", m)

\* The subjects a session means to have: all below its path, or its path.
Wants(s, m) ==
  IF s \in Whole THEN Below(Path[s], SubjectOf[m]) ELSE SubjectOf[m] = Path[s]

\* The promise of ready(): a message sent after it, on whatever connection,
\* reaches the session, or a member of its queue group, once the server has
\* processed it, unless the session was cancelled (subscriber.go:110-127).
ReadyReceives ==
  \A m \in Messages : \A s \in due[m] \ cancelled :
    Wants(s, m) /\ ~ OnWire(m) =>
      \E t \in Sessions : Has(t, m) /\ (t = s \/ (Group[s] # None /\ Group[t] = Group[s]))

SentBefore(m, n) == \E i, j \in 1 .. Len(sent) : i < j /\ sent[i] = m /\ sent[j] = n

\* A session is given the messages of one connection in the order of the Publish
\* calls, none twice, and its handler takes them one by one in that order
\* (publisher.go:63, subscriber.go:51-93).
InOrderOnce ==
  \A s \in Sessions :
    /\ \A i, j \in 1 .. Len(log[s]) :
         i < j /\ ConnOf[log[s][i]] = ConnOf[log[s][j]] => SentBefore(log[s][i], log[s][j])
    /\ cb[s] # None => taken[s] > 0 /\ cb[s] = log[s][taken[s]]

\* A Request that returns a response has been processed by the handler of a
\* Responder, not only by that of some Subscriber on its subject, whatever times
\* out meanwhile (responder.go:90-103).
Contract == INSTANCE Exchange WITH
  Calls <- Requests,
  call <- [m \in Requests |-> call[m]],
  processed <- processed \cap Requests
ImplementsExchange == Contract!Spec
=============================================================================
