# goflux in TLA+

A verification project for goflux (Go, `github.com/foomo/goflux`): TLA+ modules
of the library's moving parts, TLC runs on small instances, and TLAPS proofs for
all instances. Line numbers are those of the repository's files.

## 1. The system

goflux gives applications one messaging interface over several transports.
`Publisher[T]`, `Subscriber[T]`, `Requester` and `Responder` are the interfaces;
everything else implements, wraps or connects them.

| part | state it keeps | operations | talks to |
|---|---|---|---|
| channel transport (`transport/channel`) | `Bus.subscribers` under an RWMutex; per `Subscriber` the current channel `ch` under a second RWMutex; per `Subscribe` call a Go channel and a position in its loop; per `Publish` call a copy of the list and a loop index | `Publish`, `SubscribeWithReady`, `Len` | application goroutines, by shared state and channels |
| core NATS transport (`transport/nats`) | the connection and its subscriptions (client library); telemetry | `Publish`, `SubscribeWithReady`, `Request`, `ServeWithReady` | the NATS client's callback goroutines, the server |
| JetStream transport (`transport/jetstream`) | none of its own: stream, consumer and redelivery state are the server's | `Publish`, `SubscribeWithReady`, the `jsAcker` | the client's callback goroutine, the server (ack, nak, term, in-progress) |
| HTTP transport (`transport/http`) | a `ServeMux` in each `Subscriber` and `Responder`; subscriptions are its routes | `Publish`, `Request`, `SubscribeWithReady`/`Handler`, `Serve` | `net/http` |
| acknowledgment core (`message.go`, `acker.go`, `errors.go`) | the message's acker | `Ack`, `Nak`, `NakWithDelay`, `Term`, `InProgress`, `Delivery` with fallbacks | transports' ackers |
| middleware (`middleware/*`) | KeepAlive: mutex, `stopped` flag and a heartbeat goroutine; the others none | `AutoAck`, `RetryAck` with its policies, `KeepAlive`, header and message-ID injection, `Chain` | the handler and the message's acker |
| `RetryPublisher` | attempt counter | `Publish` with backoff | an inner publisher, the context |
| `ToChan` | a Go channel and a goroutine that closes it | forward each message | any subscriber, `gofuncy` |
| pipes (`pipe`) and bridge (`bridge`) | none | `New`, `NewMap`, `NewFlatMap`, `FromStream`, `ToStream` | a subscriber's handler and a publisher |
| metadata (`header.go`, `contextkeys.go`, carriers) | context values, header maps | copy between context, message and wire | all transports |
| telemetry (`telemetry.go`, `semconv`) | OTel instruments | `Record*`, `RegisterLag` | all transports |
| subject builder (`subject/nats`) | immutable values | `Subject`, `Domain`, `Entity`, `Event`, `All` | applications |

### What is hard, and what makes each part correct

- **Channel transport.** `publish` copies the subscriber list under a read lock
  (`bus.go:47-51`) and then sends to one channel after the other without it
  (53-61), while subscriptions come, leave and shift the shared array in place
  (31-41). A `Subscribe` chooses at random between a cancelled context and a
  message that is there (`subscriber.go:76-91`). Correct means: every session is
  listed once, a `Publish` reaches exactly the channels it says it has reached, a
  subscription that has called `ready()` misses nothing, order per publisher, at
  most once, the backlog gauge, and that cancelled calls return.
- **JetStream and the acknowledging middleware.** Settlements are fire-and-forget
  messages that can be late, lost or refused; AckWait can end while the handler
  still runs, so several workers hold one message; a process can die at any step;
  the middleware and the subscriber may both want to settle. Correct means: an ack
  follows the handler's nil, a term follows a rejection and not before its time, no
  message lost, none retried for ever, each settled in the end.
- **KeepAlive.** A goroutine with a ticker runs beside the handler and sends
  through the same acker. Correct means: nothing follows the settlement, the
  message is not redelivered meanwhile, the goroutine goes away.
- **Core NATS.** Publishers and subscribers write to different connections, which
  the server reads as it likes; `ready()` rests on a `Flush`, `Unsubscribe` runs
  beside callbacks, members of a queue group come and go, a request can time out
  while its handler runs. Correct means: a publish after `ready()` is seen by
  the session or its group, order per connection, and a response is never an answer
  to something that no `Responder` processed.
- **HTTP.** A route outlives the subscription that made it, a second registration
  of a subject with one `Subscriber` panics, and a client may give up a call the server still handles.
  Correct means: the status codes say the truth about the handler, whole bodies
  only, and who called after `ready()` is served by the subscription that was ready.
- **RetryPublisher.** An attempt that failed may have been published, or may be
  later; a context and a timer meet in one `select`. Correct means: bounded copies,
  nil only for what got through.
- **Pipes and bridge.** A batch that fails in the middle, redelivery beside an
  earlier handler call, retries below. Correct means: a prefix of the batch is out,
  at-least-once from end to end, every handler call ends.
- **ToChan.** `close(ch)` in a deferred call, sends in callbacks. Correct means:
  never a send after the close, nothing acknowledged that was not forwarded, and
  what was forwarded is read.
- **Metadata and trace.** The header travels in the message, the ID and the span in
  the context; each transport carries them in its own way and pipes, handlers and
  streams relay them in theirs. Correct means: what the first publisher attached,
  and nothing else, is what the last handler sees.

## 2. The modules

| module | models | kind |
|---|---|---|
| `AtMostOnce` | what a fire-and-forget transport promises | abstract specification |
| `ChannelBus` | `bus.go`, `publisher.go`, `subscriber.go` of `transport/channel` | implements `AtMostOnce` |
| `AtLeastOnce` | what a transport with acknowledgments promises | abstract specification |
| `JetStreamConsumer` | `transport/jetstream/subscriber.go`, `acker.go`, `message.go`, `middleware/autoack.go`, `retryack.go`; the server and client as environment | implements `AtLeastOnce` |
| `KeepAlive` | `middleware/keepalive.go` with the server's AckWait timer | timed component |
| `Exchange` | what a caller may conclude from a synchronous call | abstract specification |
| `SubjectBuilder` | `subject/nats` and the wildcard rule of NATS | operators |
| `CoreNats` | `transport/nats`: publisher, subscriber, requester, responder, over connections to a server | implements `Exchange` |
| `HttpExchange` | `transport/http`: publisher, requester, subscriber, responder, each of the last two with a mux of its own | implements `Exchange` |
| `RetryPublisher` | `retrypublisher.go` over any publisher that keeps `Exchange` | implements `Exchange` |
| `Pipe` | `pipe/pipe.go` between a redelivering source and `RetryPublisher` | extends `RetryPublisher`, implements `AtLeastOnce` |
| `ToChan` | `tochan.go` and `bridge/tostream.go` over four kinds of transports | component |
| `Journey` | `header.go`, `contextkeys.go`, the propagation part of `telemetry.go`, the header code of all transports, `injectheader.go`, `middleware.go`, `bridge/fromstream.go` | composition of transports and relays |
| `ChannelBusProofs`, `JetStreamProofs`, `KeepAliveProofs`, `NatsProofs`, `HttpProofs`, `PipeProofs` (with those of `RetryPublisher`), `ToChanProofs`, `JourneyProofs` | | proofs |
| `MCChannelBus`, `MCJetStream`, `MCKeepAlive`, `MCNats`, `MCHttp`, `MCPipe`, `MCToChan`, `MCJourney` | | constants of the runs |

A component module has a section "Plausible bugs": alternative forms of its
actions that the runs are tried against. No specification uses them.

### ChannelBus

A *session* is one call of `SubscribeWithReady` and, because that call makes its
own Go channel, also that channel. `pc[s]` walks through the call: `Open` (make
the channel and set `s.ch`, 61-64), `Register` (65), `SignalReady` (67), `Receive`
and `HandlerReturn` (78-86), and, on cancellation, `Stop` (88), `Unregister` (the
deferred `unsubscribe`, which removes the first entry equal to the channel) and
`Clear` (the deferred reset of `s.ch`, 69-74, in this order). A *publisher* is a
goroutine calling `Publish`: `Call`, `Snapshot` (the copy under the lock), `Send`
(a buffered send), `HandOver` (a send and a receive in one step, an unbuffered
channel), `Abort` (`ctx.Done`), `Return`. A critical section of a mutex never
blocks inside, so it is one step; everything between two of them interleaves.

A channel is the append-only sequence `log[s]` with a read index `taken[s]`. This
keeps the history the properties need: what was accepted is `log`, what was handed
to the handler is its prefix of length `taken`. `due[p]` is a history variable: the
sessions that were ready when `Publish` was called. `Exclusive` are the
`Subscriber` objects whose callers run one `Subscribe` at a time; `LenMatches` is
claimed for those only.

`AtMostOnce` knows only calls, acceptances and handled prefixes; a session of it
is new, open or closed. The refinement mapping `Status` closes a session with
`Stop`, before it leaves the bus: a publisher may still put a message into its
channel (`Accept` has no guard on that), which is then never handled.

### JetStreamConsumer

A *worker* is a process that calls `SubscribeWithReady` on a shared durable
consumer. `inbox[w]` is what the client has prefetched; the client calls the
callback for one delivery at a time (`Take`). `pc` then follows the callback:
`RejectUndecodable` (decode error: `Term`, 71-79), `Handle` (the application's
handler: nil, an error, or a non-retryable one), one of `PassThrough`, `AutoAck`
and `RetryAck` (the middleware chosen for this worker), and `Finish` (the
subscriber's own settlement unless `WithManualAck`, 110-125). `Sends` and `Refuses`
are the two results of `jetstream.Msg`'s methods, to which `jsAcker` delegates: the
first settlement of a delivery is sent (`settled` is the client library's flag), later
calls and calls on a dead connection return errors; the code drops some of these and
turns others into an error of the handler (`AckSuccess`). `RetryAck` naks with a delay
or, as a policy of the application may choose, without. `Subscribe` succeeds or
returns the error of `Consume`. `OnWire` is the fallback of `Message`'s methods when the
acker lacks an optional interface.

The server delivers (`Deliver`), processes settlements in any order (`Arrive`),
loses them (`Lose`), ends AckWait (`AckWait`, while somebody still holds the message
at the cost of a fault) and the delay of a delayed nak (`DelayOver`). It accepts a
late settlement of an older delivery. `Crash` loses everything a worker has in
memory; the process starts again. `Stop` is the cancelled context: the prefetched
deliveries are dropped, the running callback goes on. The amount of a delay is left
out: only that it ends.

### KeepAlive

The call (`Start`, `HandlerReturn`, `StopFlag`, `CallStop`, `Settle` by the
middleware around it) and the heartbeat goroutine (`Begin`, `ReceiveTick`, `Lock`,
`CheckStopped`, `Beat`, `Unlock`, `End`) share the mutex and the flag. `Tick` is one
unit of time: it moves the ticker, whose channel has room for one tick, and the
server's age of the delivery. Three constants bound what the surroundings do:
`Waited`, how old the delivery is when its handler starts, `Latency`, how late
the goroutine may be in all from a tick to the end of its beat, and `MaxLost`, how
many beats in a row may be lost. A delivery without an acker and an interval that
is not positive are passed through by the code (23-25) and have no states here.

### CoreNats

`wire[c]` is the FIFO of frames (`SUB`, `UNSUB`, `PING`, `PUB`) a connection has
written and the server has not read; `Process(c)` reads one. `interest` is the
server's table of subscriptions, and `flushed` says whose `PING` it has answered.
A *session* is a call of `SubscribeWithReady` or `ServeWithReady`: `Subscribe` writes
`SUB` (100-104) and `Flush` the `PING` (117), with frames of other callers of the
connection between them; `SignalReady` (123) waits for the answer,
`FlushFails` unsubscribes and returns the error; `Unsubscribe` follows the context.
The client's goroutine takes (`Take`: the decoder may refuse) and calls the handler
(`HandlerReturn`), which may return long after `Unsubscribe`. A *message* is a call of
`Publish` or `Request`. `Send` buffers the frame; a request then waits for an answer
in `replies`, for its context (`GiveUp`), or fails to decode (`Receive`). A failed
handler answers nothing. `processed` and `replies` are about `Responder`s: what a plain
`Subscriber` on the same subject handles does not count as an answer to a request. `Audiences` is the server's rule for a message: every plain
subscription that covers the subject and one member of each queue group that does.
`Covers` compares the subject a session is built with, `All()` of a path or the path
itself (`SubjectBuilder`), with the message's; `Wants`, in the property, says in other
words what the application means by it.

### HttpExchange

A *route* is a subject on one `Subscriber` or `Responder`, each of which makes its own
`ServeMux` (`subscriber.go:80`, `responder.go:46`); `mux` says which subscription has
registered it. Only two subscriptions of one object can want the same route
(`Subscribe`; the second panics, as `ServeMux` does). A subscription keeps its route
for ever: `Return` leaves it there. A *call* goes through `Send`, then on the server
through the decisions of the handler function in their order: `NoRoute`,
`WrongMethod`, `Accept` (body read through a `LimitReader` of `maxBodySize + 1`, too
large, undecodable, or handed to the handler) and `Finish` of a `Subscriber` or
`Reply` of a `Responder`, which also has to encode a response; the client sees it
with `Receive` or is gone (`GiveUp`). `Dispatch` is what the mux finds: clients escape
the subject, the pattern is registered as it is, so a subject with a slash
(`Slashed`) is not found. Bodies are lengths. A handler runs under the request's
context, so `Cancel` changes nothing for it. `due[c]` is a history variable: the subscription of a
`Subscriber` that was ready when the call was made; `Responder.Serve` has no
`ready()`. The refinement of `Exchange` needs no mapping: `call` and `processed` are
its variables.

### RetryPublisher and Pipe

A *call* of `RetryPublisher.Publish` is at `"calling"`, in `"backoff"` or has its
timer `"expired"`; `arrived[c]` are the numbers of the attempts whose message got
through, during the attempt or later (`Arrive`): that is all `Exchange` says of the
inner publisher. `Retry` and `Abort` are the two ready cases of the `select`.

`Pipe` extends it. A *run* is the handler's call for one delivery, which may overlap
runs for other deliveries of the message. `Skip` (the filter), `MapFails`, `Expand`,
then for each item `PublishItem`, `NextItem` or `PublishFails`, and `Finish`; the source
acknowledges (`Ack`, which may be lost) or redelivers. The dead-letter observer
watches and changes nothing, so it is not a step. `New` and `NewMap` are the case of
one item.

### ToChan

One subscription, its handler calls and the consumer. A *handler call* is in its
`select` until `Put`, `HandOver` (an unbuffered channel), `Refuse` or, on the closed
channel, `SendOnClosed`; `Close` is the deferred `close(ch)`. `RegistrationFails` is an
error before `ready()`: a failed `Flush` of NATS, when callbacks may be running
already, or a failed `Consume` of JetStream. What differs between transports is in three operators: `Waits`
(the channel transport returns only when its handler has), `Stops` (HTTP does not:
the route stays) and `OwnCtx` (HTTP handlers run under the request's context).

### Journey

A message goes through up to `MaxHops` hops. `ctx` is the context of whoever sends or
handles it, reduced to ID, header and span; `wire` is what a transport carries:
`Publish` puts the context's header and ID on it, over HTTP under canonicalised keys,
whose values are merged in the order a Go map is iterated in (`Merged`: an order of
the `Slots` of one canonical key in which the values of a key stay together); over a
Go channel there is but the message. `HandlerCtx` is the context the handler is called
with: the request's for HTTP (`ExtractContext`), that of `Subscribe` otherwise, with
the sender's span as a link for NATS and JetStream. `Process` hands the message to the
outermost middleware; with each step of `Chain` one middleware changes the context
and calls the next, and `Handle` is the call of the handler itself. Between hops `Pipe` forwards with the message's header,
`PublishOwn` publishes with the handler's context, `Stream` with a stream's.

## 3. What the runs check

| run | instance | properties | what it shows |
|---|---|---|---|
| `bus` | 3 overlapping sessions of 2 `Subscriber`s (one used for two subjects in turn), buffered and not, one publisher with 2 calls | `ListedOnce`, `ReadyReceives`, `DeliveredPrefix`, `LenMatches`, `ImplementsContract` | in-place removal, the copied list and `ready()` work together; a cut-short `Publish` reached exactly a prefix; the bus refines `AtMostOnce` |
| `bus_live` | 2 publishers with 2 calls each, one buffered session | `TypeOK`, `InOrderOnce`, `AcceptedIsHandled`, `CancelledReturns`, `PublishReturns` | order; accepted messages are handled or their session closes; calls return |
| `bus_stale_channel` | one session, 2 calls | `BlocksOnlyOnSubscribers` violated | finding 1 |
| `js_safe` | 3 workers with different middleware, 1 message, 3 deliveries, 2 faults, 2 handler errors | `TypeOK`, `SettledAsHandled`, `TermIsDue`, `ImplementsContract` | nothing given up early, double settlement, late and lost settlements, crashes |
| `js_live` | one worker with `RetryAck`, a message that may always fail and one that cannot be decoded | `AttemptsBounded`, `EventuallySettled` | the retry loop ends |
| `ka_beats` | interval 2, AckWait 8, waited 1, latency 1, 1 beat lost, cancellation | `TypeOK`, `SettlementIsLast`, `KeptAlive`, `EndsClean` | no beat after the settlement, no redelivery, no goroutine left |
| `nats` | a queue group of two on `orders.>`, a `Responder` on `orders.item.price`, a publish and a request; 3 connections; one member may leave or fail | `TypeOK`, `ReadyReceives`, `InOrderOnce`, `ImplementsExchange` | readiness across connections, groups in flux, order, answers |
| `http` | two subscriptions of one `Subscriber` for one subject and a `Responder`; a publisher, a requester and a client that does not POST; bodies of 0, 1 and 2 bytes, limit 1 | `RefusedUnhandled`, `WholeBody`, `ReadyIsServed`, `ImplementsExchange` | what a status code and a nil say |
| `pipe` | one message of 2 items, 2 deliveries, 2 attempts | `PrefixPublished`, `CopiesBounded`, `ForwardsAtLeastOnce`, `RunsEnd` | partial batches, duplicates, end to end at-least-once, no stuck handler |
| `tochan` | 3 handler calls, buffers of 0 and 1, all four transports, registration may fail | `ChannelNeverPanics`, `ForwardedIsNil`, `NilIsConsumed` | where closing is safe; nil, forwarded and read agree |
| `tochan_close` | NATS, a buffer of 1, registration succeeds | `NeverPanics` violated | finding 2 |
| `journey` | up to 3 hops over the 4 transports and both kinds of requests, relays of all three kinds, 4 middleware chains, keys that differ in case, 0 to 2 values | `HeaderSurvives`, `IdSurvives`, `TraceSurvives` | which metadata survives which combination |

`PROJECT.json` lists for each property of a passing run a plausible bug that makes
it fail.

### Bounds, and why they are enough

- `MaxCalls` bounds the calls of a publisher, so that numbers stay finite. Beside
  three sessions every position of joining and leaving relative to copy and sends
  occurs; two calls are needed for order and for a second call that finds a full
  channel. Because traffic ends, `CancelledReturns` says nothing of a select that
  never picks `ctx.Done` under endless traffic; the strong fairness of `Stop` is
  that assumption made explicit. Buffers have room for 1 or 0: full, empty and
  unbuffered are all reached.
- `MaxDeliver`, `Prefetch`, `MaxFailures`, `MaxFaults` bound JetStream. `js_safe`
  has three deliveries of one message, hence two stale ones beside the latest, and
  two faults, hence one on top of another. `js_live` lets a handler fail more often
  than the policy's limit of 2; with `MaxDeliver = 6` the server's own limit is not
  reached, since 2 faults cost at most 2 deliveries more for a message.
  Its 6 errors are two more than the 4 that `AttemptsBounded` allows with both faults;
  `AttemptsAreBounded` is about any number of workers.
- `KeepAlive`'s numbers satisfy `WellBelow` with nothing to spare:
  1 + 2*1 + 2*2 = 7 < 8.
- `nats`: a session subscribes once (a member that comes back is a session of its
  own), so two members give joining, leaving and both at once; the publisher has a
  connection of its own, because readiness is only interesting across connections,
  and two messages are enough for order. `Fragile` names the sessions that may be
  cancelled or fail; with one of two members fragile, a group shrinks to one and to
  none before its second member has come.
- `http`: limit 1 and bodies up to 2 are below, at and above it. Calls of three
  kinds and two subscriptions of one route suffice, since a step concerns one
  call and one route; the theorems cover the rest. `s1` and `s2` are symmetric: no
  property names them, and all are invariants or a step-wise refinement.
- `pipe`: two items are a batch with a middle, two deliveries overlap, two attempts
  are one retry. A third of either adds no kind of step.
- `tochan`: a buffer of one with three calls is full with one blocked and one more
  to begin; a buffer of 0 takes the other way, from handler to consumer. In
  `tochan_close` `Unreliable` is empty, so that its trace is the cancelled one.
- `journey`: three hops are enough for a relay between two different transports on
  each side; a fourth repeats a pair.

### Fairness

`Spec` of `ChannelBus`: weak fairness for a goroutine's next step, as Go's
scheduler and handlers that return give it; strong fairness for `Stop` and
`Abort`, since `select` picks uniformly among ready cases; strong fairness for
sends, since senders blocked on a channel queue up first in, first out.
Opening, calling and cancelling are the application's choice and have none.
`JetStreamConsumer`: weak fairness for callbacks, timers (AckWait only if nobody
holds the message), arrivals and the restart of a dead process; strong fairness of
the delivery of each message, since the server starves none that stays ready. No
fairness for `Stop`, faults and errors. `KeepAlive`: weak fairness for the call and
the goroutine, strong fairness for taking the mutex (`sync.Mutex` hands over after
a millisecond of starvation) and for the done case of the `select`.
`Pipe`: weak fairness for the handler's goroutine and for the publish it waits for:
an attempt returns in the end, with or without error, and a timer expires. None for
deliveries, arrivals and cancellation. `ToChan`: weak fairness for the three
goroutines as long as the program has not crashed; none for `Begin`, `Cancel` and
`Quit`. `CoreNats`, `HttpExchange` and `Journey` make no liveness claim: core NATS
promises no answer, and what a client of HTTP waits for is its own timeout.

### Deadlock

All configurations turn the deadlock check off, because each system may stop: all
sessions have returned and the calls are used up; a publisher waits for ever on the
channel of an ended subscription (finding 1); every message is settled or all
workers have stopped; the delivery is settled; every frame is processed and every
call answered; a handler has crashed the program; the last hop is handled. That
nobody waits for anybody without need is stated by the liveness properties.

## 4. What is proved

All theorems are about the safety part of the specification, for every value of the
constants that the assumptions of the module admit.

**ChannelBusProofs.** `TypeCorrect`, then `EachListedOnce`, which is inductive with
the types; its core is that removing the first entry of a list without repetitions
removes the session and keeps the others in order. On it rests `DeliveryInv`:
`SnapshotsOK` (a copied list has registered sessions of the right subject without
repetition), `CallsOK` and `LogsOK` (what is in a channel belongs to a call made so
far), `AllDelivered` (a message is in exactly the channels the loop has passed) and
`DueOK` (a session that was ready at the call is in the copy). From it follow
`DeliversPrefix`, `ReadySessionsReceive` and, with the order of the logs,
`AtMostOnceInOrder`. None of these properties is inductive alone: that a channel
has a message once needs that the snapshot has the channel once, which needs
that the bus lists it once. `GaugeIsBacklog` rests on `GaugeOK` (with exclusive
callers `ch` is the channel of the active session), `BusImplementsContract` on
`TakenOK` and a case for each action: initial states map to initial states, each
step to a step of `AtMostOnce` or to a stutter.

**JetStreamProofs.** `TypeCorrect`; `AcksFollowHandlers` from `HandledInv`
(`ResultOK`: the error the callback has come to is that of the handler, until a
failed ack changes success to failure; `WireOK`: only sent settlements travel).
`JetStreamImplementsContract` maps `Arrive` to the contract's `Settle`, `Handle` and
the rejections to `Attempt`, everything else to a stutter. It assumes that the acker
can terminate, as the one of `transport/jetstream` does (`acker.go`); without,
`Term` becomes an ack and a dropped message would count as done. `NothingLost` is
the contract's own invariant, obtained through the refinement. `NothingGivenUpEarly`
rests on `ResultOK` as well: the error the policy looks at is an outcome of this very
delivery, and so is the number it compares with the limit. The lemma `OnceInv`: the server counts
deliveries (`Counted`), and a delivery is in one place only, an inbox, a callback, or
among the settled (`OnePlace`), with at most one settlement (`SettlesOnce`, the client
library's doing, hence a lemma and no result). With `HandledOnce` (an outcome's delivery is in no inbox, and in a callback only behind
its handler) follows `OneOutcome`.

`AttemptsAreBounded` assumes `RetriesAreBounded`, what the guide to pull consumers
sets up: `RetryAck` with a positive limit around every handler, and an acker that
reports the delivery count. Without any of the three the bound does not hold: an
`AutoAck` naks for ever, and without a count the policy never sees the limit.
`ManualAck`, `Terminator`, numbers of workers and messages are free. The argument is
an account kept for each message. Its `Tokens` are: what the server owes (the
message is ready, delayed, or pending and nowhere in play), each chance (a delivery
in an inbox, in a callback that has not given it up, or with its nak on the way),
and each *late* attempt (an error at or beyond the limit). The invariant `Lives` is
`Cardinality(Tokens(m)) <= 1 + faults`. A delivery exchanges what is owed for a
chance, a nak that arrives a chance for what is owed, a late attempt uses up its
delivery's chance, since the policy then gives up; only a fault adds a token. Each
attempt before the limit has a delivery number of its own below `MaxDeliveries`, so
the errors are at most `MaxDeliveries - 1` early ones and `1 + faults` late ones. The
invariants `OnceInv` and `HandledOnce` are needed throughout: a second
settlement or a second handling of a delivery would be a token nobody paid for.

**KeepAliveProofs.** `TypeCorrect`; `NothingAfterSettlement` from `Synchronised` (who
holds the mutex, and that the goroutine is at a beat only while the flag is not
set). `HandlerKeepsMessage` from `OnTime`: the age of the delivery is bounded by its
wait, the latency of the goroutine's start, the time into the ticker's cycle and
one interval for each lost beat, with one more interval while a beat is owed. It
makes "well below the timeout" precise:
`Waited + 2*Latency + (MaxLost+1)*Interval < AckWait`.

**NatsProofs.** A group of lemmas says what writing a frame and reading one do to the
positions of frames (`At`). `FreshInv` (a message that was not sent is nowhere; a handler
runs on the message its session has taken last; answers were processed) gives
`NatsImplementsExchange`. `ListenInv` gives `ReadySessionsReceive`: a session that has
subscribed is in the server's table or its `SUB` is under way, ahead of its `PING`; there
is no `UNSUB` before it ends, so a flushed session that has not ended is in the table
when any later message is read; that the table then covers the message is
`WantedIsCovered`, about `All()` and the wildcard rule. `OrderInv` (frames are in the
order of the calls, behind what was delivered from their connection) gives
`InOrderAtMostOnce`.

**HttpProofs.** All from one invariant, `HttpInv`: a route is registered by a subscription
of it that did not panic, each call has the answer and the reading that the server's
decisions leave it with, and a call that a subscription was ready for still finds that
subscription on its route. `ReadyIsAnswered` is this last part together with `Dispatch`.
`HttpImplementsExchange` maps every action to a step or a stutter.

**PipeProofs.** `BoundedCopies` from `AttemptInRange` (a backoff
starts only when one more attempt is allowed); `RetryKeepsContract`: around a
publisher that keeps `Exchange` the retrying one does. `PipeRetries` shows that the
calls of a pipe are calls of a `RetryPublisher`, so these facts hold in a pipe
(`PipeCopies`). `PipeInv` (items below the loop's index are out, those above it have
not been begun; a handler call that returns nil was skipped or is through) gives
`PipePublishesPrefix` and the refinement `PipeForwards`: at-least-once from the
source to the target, for any batches, deliveries, attempts and failures.

**ToChanProofs.** `ChannelDoesNotPanic` (no handler call of the channel transport is
in its `select` after the subscription has returned), `ForwardsWhatIsNil`, and from it
`ClosingLosesNothing`, the safety half of `NilIsConsumed`: whoever reads the channel to
its end has read every message that was answered with nil.

**JourneyProofs.** For any hops, keys, chains and length. `TracesSurvive`: a context has
the span that the journey so far has carried, and a link is made on reception
(`TraceInv`). `IDsSurvive`: `IDInv` follows the ID from context to wire and back,
`HeaderIDInv` says that a header with an ID is one of two, the message's own or that of
`Subscribe`'s context, because NATS and channels carry keys as they are and the key
`X-Message-ID` is not canonical, so that it never comes back from HTTP; this is the
assumption `Canon[IDKey] # IDKey`. `HeadersSurvive`: `HeaderInv` holds the values fast
wherever the message is, in the sender's context, on the wire or with the receiver.
Its core is `MergingKeepsOccurrences`: an order that visits every slot once is a
bijection (`OrderIsBijection`, by cardinality), so each value is under the canonical
key as often as before; a key that is not canonical holds nothing afterwards
(`NothingMerged`).

**Only model-checked**: all liveness (`AcceptedIsHandled`, `CancelledReturns`,
`PublishReturns`, `EventuallySettled`, `EndsClean`, `RunsEnd`, `NilIsConsumed`), because the
proof system treats neither fairness nor `ENABLED`. Every invariant and every
refinement that a run checks is stated by a theorem.

## 5. Findings

Shown by a run:

1. `bus.go:43` says that publish blocks until every subscriber has accepted. It
   ranges over a copy: a session that leaves between the copy and the send leaves the
   publisher waiting on a channel nobody reads, with no subscriber left
   (`bus_stale_channel`). Only its own context gets it out.
2. `tochan.go:9-12` says that messages are forwarded and the channel closes with the
   context. `close(ch)` runs as soon as `SubscribeWithReady` returns, which on NATS and
   JetStream does not wait for the running callback: after the cancellation its `select`
   has both cases ready and may send on the closed channel, a panic (`tochan_close`).
   There are two more ways to it, both in the model: when the `Flush` of
   `nats/subscriber.go:117` fails, the subscription returns with the context alive and
   callbacks possibly running, and only the send is ready; and over HTTP the handler
   outlives the subscription for good. `ChannelDoesNotPanic` is the transport where this
   is safe.

Met while modelling; the models have the code's behaviour:

- `channel/subscriber.go:34-35` says that `Len` is the number of buffered messages:
  overlapping subscriptions of one `Subscriber` share the field it reads, and it is that
  of the last one, or 0 after either has ended. `LenMatches` states what holds for one
  `Subscribe` at a time.
- `keepalive.go:12-14` says that long-running handlers are not redelivered: the
  heartbeat ends with the subscription's context, not with the handler. `KeptAlive`
  states what holds while the context lives.
- `http/publisher.go:45` and `subscriber.go:94` speak of one subject; clients escape it
  and the mux gets it raw, so a call to a subject with a slash is a 404 although its
  subscription is ready. `ReadyIsServed` excepts these.
- `http/subscriber.go:96` says that the context is the base of all handler
  invocations: handlers run under the request's.
- `retrypublisher.go:28` says that a cancelled context aborts immediately: when the
  timer has fired too, the `select` may make one more attempt.
- `bus.go:44` says that no messages are dropped: a cancelled `Subscribe` returns
  with accepted messages in its buffer.
- `keepalive.go:14-15` advises an interval well below AckWait: the first beat comes an
  interval after the handler starts, and AckWait runs from the delivery.
  `HandlerKeepsMessage` states what is enough.
- `http/subscriber.go:132` reads `maxBodySize+1` bytes, which wraps for
  `math.MaxInt64`.
- `docs/guide/patterns/headers.md:92,104-105,112`: keys are canonicalised by HTTP, only
  `X-Goflux-` headers become a message's, and the channel transport carries no ID.
- `injectheader.go:12,51` says that push-based transports inject header and ID into
  the context: none injects the header, and the ID they carry is not in the
  message's header, where `InjectMessageID` looks for it.

## 6. Not modelled

- **Stream set-up** (`transport/jetstream` management functions): single calls to a
  management API, no state of their own. `ConsumerConfig` is called durable and sets
  only `Name`; what the server makes of it is outside.
- **JetStream's `Publisher`** beyond its headers: a publish with an acknowledgment that
  may be lost is what `RetryPublisher` is modelled over.
- **Backoff arithmetic** (`retryack.go:99-107`): floating point, of which neither tool
  has any. Delays are "some time" in `JetStreamConsumer` and `RetryPublisher`.
- **Metrics and span attributes** (`telemetry.go`, `semconv`): recorded, never read.
- **goflow streams** between `ToStream` and `FromStream`: another library.
- **Bound publishers and subscribers**, `Header.Set/Add/Del/Clone`, options, `Close`:
  they fix an argument, edit a map, or do nothing.
- **Handlers that publish to a bus from inside a `Subscribe`** of the channel transport:
  publishers of `ChannelBus` are goroutines of their own, so a cycle of bounded
  channels that wait for each other is outside the model.

The JetStream and NATS servers and clients, `net/http`, timers and the scheduler are
environment. Payloads are identities: a message is its publisher and number, or a
model value; a body is its length. A connection of `CoreNats` is not lost: what
reconnecting resends is the client library's.

## 7. Plan

The components above have their contracts, runs and proofs. What is left, in order of
worth: reconnection in `CoreNats` (which subscriptions and frames the client resends);
pipes over `ChannelBus` with handlers as publishers, for the cycle of full channels;
subjects with several slashes and `{`wildcards`}` in the patterns of `HttpExchange`.
