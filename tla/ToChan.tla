------------------------------- MODULE ToChan -------------------------------
(***************************************************************************)
(* goflux.ToChan (tochan.go), and bridge.ToStream on top of it: a          *)
(* subscription whose handler puts each message into a Go channel, which   *)
(* is closed when SubscribeWithReady returns, and a consumer that reads    *)
(* the channel until it is closed.                                         *)
(*                                                                         *)
(* The transports differ in how they call the handler.  The channel        *)
(* transport's session calls it between two looks at its context and       *)
(* returns after it.  NATS and JetStream call it from a goroutine of their *)
(* client, which Unsubscribe and Stop do not wait for.  HTTP calls it from *)
(* every request, with the request's context, and keeps its route.         *)
(***************************************************************************)
EXTENDS Integers, Sequences

CONSTANTS
  Calls,       \* the handler calls, each for a message of its own
  BufSizes,    \* what ToChan's bufSize may be; 0 is an unbuffered channel
  Transports,  \* the transports the subscriber may be of
  Unreliable   \* those of them whose registration may fail

ASSUME ToChanAssumption ==
  /\ BufSizes \subseteq Nat
  /\ Transports \subseteq {"channel", "nats", "jetstream", "http"}
  /\ Unreliable \subseteq {"nats", "jetstream"}

VARIABLES
  transport,  \* the subscriber's; never changes
  bufSize,    \* of the channel; never changes
  sub,        \* "starting", "ready", "returned" or "closed" (the deferred close)
  cancelled,  \* ctx is done
  cb,         \* per handler call: "none", "select", "nil", "error" or "panic"
  buffer,     \* the channel's buffer
  consumed,   \* what the consumer has read
  consumer    \* "reading", "ended" by the closed channel, or "gone"

vars == <<transport, bufSize, sub, cancelled, cb, buffer, consumed, consumer>>

\* SubscribeWithReady returns only when no handler call is running.
Waits == transport = "channel"

\* No handler call begins once SubscribeWithReady has returned.
Stops == transport # "http"

\* Handler calls run under the context given to ToChan.
OwnCtx == transport # "http"

\* ToChan returns the channel when its subscription is ready or has failed.
Reading == consumer = "reading" /\ sub # "starting"

\* A panic in a handler ends the program, but net/http recovers it.
Crashed == transport # "http" /\ \E c \in Calls : cb[c] = "panic"

Init ==
  /\ transport \in Transports
  /\ bufSize \in BufSizes
  /\ sub = "starting"
  /\ cancelled = FALSE
  /\ cb = [c \in Calls |-> "none"]
  /\ buffer = <<>>
  /\ consumed = <<>>
  /\ consumer = "reading"

\* Plausible bugs, used by the mutation runs only.
ReturnAtOnce ==   \* the subscription does not wait for its handler
  /\ sub = "ready" /\ cancelled
  /\ sub' = "returned"
  /\ UNCHANGED <<transport, bufSize, cancelled, cb, buffer, consumed, consumer>>

RefuseWithNil(c) ==   \* the context's error is swallowed
  /\ cb[c] = "select"
  /\ OwnCtx => cancelled
  /\ cb' = [cb EXCEPT ![c] = "nil"]
  /\ UNCHANGED <<transport, bufSize, sub, cancelled, buffer, consumed, consumer>>

EndOnCancel ==   \* the consumer looks at the context and leaves the rest
  /\ consumer = "reading" /\ cancelled
  /\ consumer' = "ended"
  /\ UNCHANGED <<transport, bufSize, sub, cancelled, cb, buffer, consumed>>

-----------------------------------------------------------------------------
(* The goroutine of ToChan *)

\* SubscribeWithReady calls ready(), and ToChan returns the channel.
Ready ==
  /\ sub = "starting"
  /\ sub' = "ready"
  /\ UNCHANGED <<transport, bufSize, cancelled, cb, buffer, consumed, consumer>>

\* SubscribeWithReady returns an error before ready().  The Flush of NATS fails
\* with the subscription already there, so that callbacks may be running;
\* Consume of JetStream fails before there are any.
RegistrationFails ==
  /\ sub = "starting"
  /\ transport \in Unreliable
  /\ transport = "jetstream" => \A c \in Calls : cb[c] = "none"
  /\ sub' = "returned"
  /\ UNCHANGED <<transport, bufSize, cancelled, cb, buffer, consumed, consumer>>

\* SubscribeWithReady returns: the context is done.
Return ==
  /\ sub = "ready" /\ cancelled
  /\ Waits => \A c \in Calls : cb[c] # "select"
  /\ sub' = "returned"
  /\ UNCHANGED <<transport, bufSize, cancelled, cb, buffer, consumed, consumer>>

\* defer close(ch)
Close ==
  /\ sub = "returned"
  /\ sub' = "closed"
  /\ UNCHANGED <<transport, bufSize, cancelled, cb, buffer, consumed, consumer>>

Cancel ==
  /\ ~ cancelled
  /\ cancelled' = TRUE
  /\ UNCHANGED <<transport, bufSize, sub, cb, buffer, consumed, consumer>>

-----------------------------------------------------------------------------
(* The handler: one select between ctx.Done() and the send *)

Begin(c) ==
  /\ cb[c] = "none"
  /\ Stops => sub \in {"starting", "ready"}
  /\ cb' = [cb EXCEPT ![c] = "select"]
  /\ UNCHANGED <<transport, bufSize, sub, cancelled, buffer, consumed, consumer>>

\* case ch <- msg: return nil.
Put(c) ==
  /\ cb[c] = "select"
  /\ sub # "closed"
  /\ Len(buffer) < bufSize
  /\ buffer' = Append(buffer, c)
  /\ cb' = [cb EXCEPT ![c] = "nil"]
  /\ UNCHANGED <<transport, bufSize, sub, cancelled, consumed, consumer>>

\* The same case on an unbuffered channel: the consumer takes the message from
\* the handler.
HandOver(c) ==
  /\ cb[c] = "select"
  /\ sub # "closed"
  /\ bufSize = 0 /\ Reading
  /\ consumed' = Append(consumed, c)
  /\ cb' = [cb EXCEPT ![c] = "nil"]
  /\ UNCHANGED <<transport, bufSize, sub, cancelled, buffer, consumer>>

\* case <-ctx.Done(): return ctx.Err().  The context of an HTTP request may be
\* done at any time.
Refuse(c) ==
  /\ cb[c] = "select"
  /\ OwnCtx => cancelled
  /\ cb' = [cb EXCEPT ![c] = "error"]
  /\ UNCHANGED <<transport, bufSize, sub, cancelled, buffer, consumed, consumer>>

\* The send case is ready on a closed channel as well: taking it panics.
SendOnClosed(c) ==
  /\ cb[c] = "select"
  /\ sub = "closed"
  /\ cb' = [cb EXCEPT ![c] = "panic"]
  /\ UNCHANGED <<transport, bufSize, sub, cancelled, buffer, consumed, consumer>>

-----------------------------------------------------------------------------
(* The consumer: for msg := range ch *)

Consume ==
  /\ Reading
  /\ buffer # <<>>
  /\ consumed' = Append(consumed, Head(buffer))
  /\ buffer' = Tail(buffer)
  /\ UNCHANGED <<transport, bufSize, sub, cancelled, cb, consumer>>

\* A closed channel is read to its end first.
End ==
  /\ consumer = "reading"
  /\ sub = "closed" /\ buffer = <<>>
  /\ consumer' = "ended"
  /\ UNCHANGED <<transport, bufSize, sub, cancelled, cb, buffer, consumed>>

\* The application stops reading.
Quit ==
  /\ consumer = "reading"
  /\ consumer' = "gone"
  /\ UNCHANGED <<transport, bufSize, sub, cancelled, cb, buffer, consumed>>

Step ==
  \/ Ready \/ RegistrationFails \/ Return \/ Close \/ Cancel
  \/ \E c \in Calls :
       Begin(c) \/ Put(c) \/ HandOver(c) \/ Refuse(c) \/ SendOnClosed(c)
  \/ Consume \/ End \/ Quit

Next == ~ Crashed /\ Step

\* Goroutines that can run do run; Begin, Cancel and Quit are up to others.
Fairness ==
  /\ WF_vars(~ Crashed /\ (Ready \/ RegistrationFails \/ Return \/ Close))
  /\ \A c \in Calls :
       WF_vars(~ Crashed /\ (Put(c) \/ HandOver(c) \/ Refuse(c) \/ SendOnClosed(c)))
  /\ WF_vars(~ Crashed /\ (Consume \/ End))

SafeSpec == Init /\ [][Next]_vars
Spec == SafeSpec /\ Fairness

-----------------------------------------------------------------------------
(* Properties *)

\* Every variable holds a value of its type (tochan.go:21-36).
TypeOK ==
  /\ transport \in Transports
  /\ bufSize \in BufSizes
  /\ sub \in {"starting", "ready", "returned", "closed"}
  /\ cancelled \in BOOLEAN
  /\ cb \in [Calls -> {"none", "select", "nil", "error", "panic"}]
  /\ buffer \in Seq(Calls) /\ Len(buffer) <= bufSize
  /\ consumed \in Seq(Calls)
  /\ consumer \in {"reading", "ended", "gone"}

\* "forwards each message ... into a buffered channel. The returned channel
\* closes when ctx is cancelled" (tochan.go:9-12): forwarding and closing do
\* not meet in a send on the closed channel.
NeverPanics == \A c \in Calls : cb[c] # "panic"

\* On the channel transport they never do: its session calls the handler in the
\* goroutine that closes the channel (channel/subscriber.go:76-91).
ChannelNeverPanics == transport = "channel" => NeverPanics

\* The channel and its consumer hold exactly the messages whose handler call
\* returned nil, each once: no message that was refused, and so is delivered
\* again, has also been forwarded (tochan.go:27-33).
ForwardedIsNil ==
  LET forwarded == consumed \o buffer
  IN
  /\ \A c \in Calls : cb[c] = "nil" <=> \E i \in 1 .. Len(forwarded) : forwarded[i] = c
  /\ \A i, j \in 1 .. Len(forwarded) : forwarded[i] = forwarded[j] => i = j

\* nil is an acknowledgment on JetStream: what is acknowledged is read in the
\* end, after the close too, unless the consumer goes away (tochan.go:24-33).
NilIsConsumed ==
  \A c \in Calls :
    cb[c] = "nil" ~>
      \/ \E i \in 1 .. Len(consumed) : consumed[i] = c
      \/ consumer = "gone" \/ Crashed
=============================================================================
