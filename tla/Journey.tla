------------------------------ MODULE Journey ------------------------------
(***************************************************************************)
(* What becomes of a message's metadata on its way over several            *)
(* transports: its header, its message ID and its trace.  The header is    *)
(* part of the Message, the ID and the span are part of the context, and   *)
(* every transport carries them in its own way (header.go, contextkeys.go, *)
(* telemetry.go, the publishers and subscribers).  Between two hops a pipe *)
(* forwards the message, or a handler publishes or requests on its own, or *)
(* a goflow stream carries it (bridge).                                    *)
(***************************************************************************)
EXTENDS Integers, Sequences, FiniteSets, SequencesExt

CONSTANTS
  Hops,        \* the transports of this deployment, Publishes and Requests
  Keys,        \* header keys, as the application writes them
  Canon,       \* Canon[k]: k in MIME canonical form, a key too
  IDKey,       \* MessageIDHeader as a key of a goflux.Header
  Values,      \* header values; IDs are some of them
  Senders,     \* the contexts the first publisher may have
  SubscribeCtx,  \* the context Subscribe is called with
  Chains,      \* the middleware chains a handler may be wrapped in
  None,        \* no ID, or the nil Header
  MaxHops      \* bound on the length of the journey

Publishes == {"channel", "nats", "jetstream", "http"}
Requests == {"nats request", "http request"}

Middlewares == {"InjectHeader", "InjectMessageID", "ForwardMessageID"}

\* A key may hold no value: <<>> also stands for an absent key.
Headers == {None} \cup [Keys -> Seq(Values)]

\* A span is the first sender's or a child of it ("same" trace), is "linked" to
\* it over some span link, or has nothing to do with it ("none").
Contexts == [id : Values \cup {None}, header : Headers, span : {"same", "linked", "none"}]

ASSUME JourneyAssumption ==
  /\ Hops \subseteq Publishes \cup Requests
  /\ IsFiniteSet(Keys)
  /\ Canon \in [Keys -> Keys] /\ \A k \in Keys : Canon[Canon[k]] = Canon[k]
  /\ IDKey \in Keys /\ Canon[IDKey] # IDKey   \* "X-Message-ID"
  /\ None \notin Values /\ None \notin [Keys -> Seq(Values)]
  /\ Senders \subseteq Contexts /\ SubscribeCtx \in Contexts
  /\ Chains \subseteq Seq(Middlewares)

VARIABLES
  at,      \* where the message is: with a "sender", on the "wire", in a
           \* "middleware" or in the "handler"
  ctx,     \* the context of the sender or the handler: its ID, header and span
  header,  \* Message.Header as the handler sees it
  chain,   \* the middlewares still between the message and the handler
  wire,    \* what is on the wire: transport, ID, header and span
  sent,    \* the context of the first sender
  used,    \* the hops and relays of the journey so far
  hops     \* number of hops

vars == <<at, ctx, header, chain, wire, sent, used, hops>>

Nothing == [id |-> None, header |-> None, span |-> "none"]

ValuesOf(h, k) == IF h = None THEN <<>> ELSE h[k]
Has(h, k) == ValuesOf(h, k) # <<>>

\* Header.Get
Get(h, k) == IF Has(h, k) THEN ValuesOf(h, k)[1] ELSE None

Init ==
  /\ at = "sender"
  /\ sent \in Senders
  /\ ctx = sent
  /\ header = None
  /\ chain = <<>>
  /\ wire = [on |-> None, id |-> None, header |-> None, span |-> "none"]
  /\ used = {}
  /\ hops = 0

-----------------------------------------------------------------------------
(* The wire *)

\* Where the values stand whose keys have the canonical form k.
Slots(h, k) ==
  UNION {{j} \X DOMAIN ValuesOf(h, j) : j \in {j \in Keys : Canon[j] = k}}

At(h, slot) == ValuesOf(h, slot[1])[slot[2]]

\* http.Header.Add canonicalises: the values of keys that become one are
\* appended in the order the map is iterated in, those of a key together and in
\* their order.
Appended(h, k) ==
  {order \in SetToSeqs(Slots(h, k)) :
     \A a, b \in DOMAIN order :
       order[a][1] = order[b][1] => order[b][2] - order[a][2] = b - a}

Merged(h, k) ==
  {[n \in DOMAIN order |-> At(h, order[n])] : order \in Appended(h, k)}

\* What the X-Goflux- headers of transport t hold for h.
OnWire(t, h) ==
  CASE t = "http" -> {g \in [Keys -> UNION {Merged(h, k) : k \in Keys}] :
                        \A k \in Keys : g[k] \in Merged(h, k)}
    [] t \in {"nats", "jetstream"} -> {[k \in Keys |-> ValuesOf(h, k)]}
    [] t = "channel" -> {h}

\* extractGofluxHeaders: nil when there is none.
Extracted(g) == IF \A k \in Keys : ~ Has(g, k) THEN None ELSE g

InContext(t) == t \in {"http", "http request"}   \* ExtractContext
AsLink(t) == t \in {"nats", "jetstream", "nats request"}   \* WithRemoteSpanContext

\* Plausible bugs, used by the mutation runs only.
HandlerCtxNoID(w) ==   \* the callbacks of NATS keep the context of Subscribe
  CASE InContext(w.on) -> [Nothing EXCEPT !.id = w.id, !.span = w.span]
    [] AsLink(w.on) -> [SubscribeCtx EXCEPT !.span = IF w.span = "none" THEN @ ELSE "linked"]
    [] OTHER -> SubscribeCtx

HandlerCtxRawKeys(w) ==   \* the trace headers are looked up in their raw case
  CASE InContext(w.on) -> [Nothing EXCEPT !.id = w.id]
    [] AsLink(w.on) -> [SubscribeCtx EXCEPT !.id = IF w.id = None THEN @ ELSE w.id,
                                            !.span = IF w.span = "none" THEN @ ELSE "linked"]
    [] OTHER -> SubscribeCtx

WithHeaderIfAny(c, h) == IF h = None THEN c ELSE [c EXCEPT !.header = h]

\* The context a transport calls the handler with.  HTTP goes on from the
\* request's, the others from the one Subscribe was called with.
HandlerCtx(w) ==
  CASE InContext(w.on) -> [Nothing EXCEPT !.id = w.id, !.span = w.span]
    [] AsLink(w.on) -> [SubscribeCtx EXCEPT !.id = IF w.id = None THEN @ ELSE w.id,
                                            !.span = IF w.span = "none" THEN @ ELSE "linked"]
    [] OTHER -> SubscribeCtx

-----------------------------------------------------------------------------
(* Middlewares *)

WithHeader(c, h) == [c EXCEPT !.header = h]
WithMessageID(c, id) == [c EXCEPT !.id = id]

InjectHeader(c, h) == IF h # None THEN WithHeader(c, h) ELSE c
InjectMessageID(c, h) == IF Has(h, IDKey) THEN WithMessageID(c, Get(h, IDKey)) ELSE c
ForwardMessageID(c) == IF c.id # None THEN WithMessageID(c, c.id) ELSE c

Through(middleware, c, h) ==
  CASE middleware = "InjectHeader" -> InjectHeader(c, h)
    [] middleware = "InjectMessageID" -> InjectMessageID(c, h)
    [] middleware = "ForwardMessageID" -> ForwardMessageID(c)

-----------------------------------------------------------------------------
(* Steps *)

Travel(t) ==
  /\ at = "sender" /\ hops < MaxHops
  /\ at' = "wire"
  /\ used' = used \cup {t}
  /\ hops' = hops + 1
  /\ UNCHANGED <<ctx, header, chain, sent>>

\* Publisher.Publish: RecordPublish opens a child of the context's span, which
\* InjectContext puts on the wire beside the ID and the header.  On a Go channel
\* there is but the Message.
Publish(t) ==
  /\ Travel(t)
  /\ \E g \in OnWire(t, ctx.header) :
       wire' = IF t = "channel"
               THEN [on |-> t, id |-> None, header |-> g, span |-> "none"]
               ELSE [on |-> t, id |-> ctx.id, header |-> g, span |-> ctx.span]

\* Requester.Request, with RecordRequest, sends no header.
Request(t) ==
  /\ Travel(t)
  /\ wire' = [on |-> t, id |-> ctx.id, header |-> None, span |-> ctx.span]

\* A subscriber hands the message to the outermost middleware.
Process(mws) ==
  /\ at = "wire" /\ wire.on \in Publishes
  /\ header' = IF wire.on = "channel" THEN wire.header ELSE Extracted(wire.header)
  /\ ctx' = HandlerCtx(wire)
  /\ chain' = mws
  /\ at' = "middleware"
  /\ UNCHANGED <<wire, sent, used, hops>>

\* Chain: the first middleware is the outermost, each calls the next ...
Chain ==
  /\ at = "middleware" /\ chain # <<>>
  /\ ctx' = Through(Head(chain), ctx, header)
  /\ used' = used \cup {Head(chain)}
  /\ chain' = Tail(chain)
  /\ UNCHANGED <<at, header, wire, sent, hops>>

\* ... and the last the handler.
Handle ==
  /\ at = "middleware" /\ chain = <<>>
  /\ at' = "handler"
  /\ UNCHANGED <<ctx, header, chain, wire, sent, used, hops>>

\* A responder's handler is given the request and no Message.
Respond ==
  /\ at = "wire" /\ wire.on \in Requests
  /\ header' = None
  /\ ctx' = HandlerCtx(wire)
  /\ at' = "handler"
  /\ UNCHANGED <<chain, wire, sent, used, hops>>

\* pipe.New, NewMap and NewFlatMap forward with the message's header.
Pipe ==
  /\ at = "handler"
  /\ wire.on \in Publishes
  /\ ctx' = WithHeader(ctx, header)
  /\ at' = "sender"
  /\ used' = used \cup {"pipe"}
  /\ UNCHANGED <<header, chain, wire, sent, hops>>

\* A handler publishes or requests with its context.
PublishOwn ==
  /\ at = "handler"
  /\ at' = "sender"
  /\ used' = used \cup {"own"}
  /\ UNCHANGED <<ctx, header, chain, wire, sent, hops>>

\* bridge.ToStream and FromStream: the stream has a context of its own.
Stream ==
  /\ at = "handler"
  /\ wire.on \in Publishes
  /\ ctx' = SubscribeCtx
  /\ at' = "sender"
  /\ used' = used \cup {"stream"}
  /\ UNCHANGED <<header, chain, wire, sent, hops>>

Next ==
  \/ \E t \in Hops \cap Publishes : Publish(t)
  \/ \E t \in Hops \cap Requests : Request(t)
  \/ Respond \/ \E mws \in Chains : Process(mws)
  \/ Chain \/ Handle
  \/ Pipe \/ PublishOwn \/ Stream

Spec == Init /\ [][Next]_vars

-----------------------------------------------------------------------------
(* Properties *)

Handled == at = "handler"

\* How often value v stands under keys with the canonical form k.
Occurrences(h, k, v) == Cardinality({s \in Slots(h, k) : At(h, s) = v})

\* Over any number of pipes and transports a handler sees the header the first
\* publisher attached and nothing of the contexts in between, and none when
\* none was attached: key by key, or, after an HTTP hop, the same values under
\* the canonical key (pipe.go:35, publisher.go:84-90, extractGofluxHeaders).
HeaderSurvives ==
  Handled /\ used \cap (Requests \cup {"own", "stream"}) = {} =>
    IF "http" \in used
    THEN \A k \in Keys, v \in Values :
           Occurrences(header, k, v) = Occurrences(sent.header, k, v)
    ELSE \A k \in Keys : ValuesOf(header, k) = ValuesOf(sent.header, k)

\* A message ID reaches every handler and responder the message comes to over
\* NATS, JetStream and HTTP, whether pipes forward it or handlers publish and
\* request on their own; no header and no middleware replaces it unless a header
\* the message can have got names another (contextkeys.go:16-28, publisher.go:51-53,
\* subscriber.go:68-71).
IdSurvives ==
  Handled /\ used \cap {"channel", "stream"} = {} /\ sent.id # None =>
    \/ ctx.id = sent.id
    \/ /\ "InjectMessageID" \in used
       /\ \E h \in {sent.header, SubscribeCtx.header} : Has(h, IDKey)

\* On the same journeys the handler's span leads back to the first publisher's
\* span; over HTTP alone it is of the same trace (telemetry.go:241-247,
\* 404-424).
TraceSurvives ==
  Handled /\ used \cap {"channel", "stream"} = {} /\ sent.span = "same" =>
    IF used \cap {"nats", "jetstream", "nats request"} = {}
    THEN ctx.span = "same" ELSE ctx.span = "linked"

=============================================================================
