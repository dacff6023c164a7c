---------------------------- MODULE HttpExchange ----------------------------
(***************************************************************************)
(* transport/http: Publisher and Requester as clients, and the routes that *)
(* Subscriber.SubscribeWithReady and Responder.Serve register.  Each       *)
(* Subscriber and each Responder has a ServeMux of its own, so a route is  *)
(* a subject on one such object.  The server, its connections and the      *)
(* other clients are net/http's.                                           *)
(*                                                                         *)
(* A call is one HTTP request: of a Publisher, of a Requester, or of some  *)
(* other client that does not POST.  Bodies are known by their length.     *)
(***************************************************************************)
EXTENDS Integers

CONSTANTS
  Calls,
  Routes,         \* the subjects of each Subscriber and of each Responder
  Serves,         \* the routes that are a Responder's
  Slashed,        \* the routes whose subject has a slash in it
  Subscriptions,  \* calls of SubscribeWithReady or Serve
  RouteOf, To,    \* the route each subscription registers, and each call is for
  Requesters,     \* the calls made by Requester.Request
  Strangers,      \* the calls whose method is not POST
  MaxBody,        \* maxBodySize, below math.MaxInt64: maxBodySize+1 would wrap
  MaxSize,        \* bound: the longest body sent
  None

ASSUME HttpAssumption ==
  /\ Serves \subseteq Routes /\ Slashed \subseteq Routes
  /\ Requesters \subseteq Calls /\ Strangers \subseteq Calls
  /\ RouteOf \in [Subscriptions -> Routes]
  /\ To \in [Calls -> Routes]
  /\ None \notin Subscriptions
  /\ MaxBody \in Nat /\ MaxSize \in Nat

VARIABLES
  session,    \* "idle", "serving", "returned" or "panicked"
  mux,        \* the subscription whose handler is registered for each route
  cancelled,  \* subscriptions whose context is done
  call,       \* client side: "idle", "waiting", "ok" or "failed"
  size,       \* length of the body it sends
  phase,      \* server side: "none", "sent", "handling" or "answered"
  server,     \* the subscription whose handler is invoked for it
  read,       \* length of the body the server has read
  status,     \* status code of the answer, 0 before
  processed,  \* history: calls a handler returned nil for
  due         \* history: the subscription that was ready for each call when it was made

clientVars == <<call, size, due>>
exchangeVars == <<phase, server, read, status, processed>>
muxVars == <<session, mux, cancelled>>
vars == <<clientVars, exchangeVars, muxVars>>

Codes == {0, 200, 204, 400, 404, 405, 413, 500}

Init ==
  /\ session = [s \in Subscriptions |-> "idle"]
  /\ mux = [x \in Routes |-> None]
  /\ cancelled = {}
  /\ call = [c \in Calls |-> "idle"]
  /\ size = [c \in Calls |-> 0]
  /\ phase = [c \in Calls |-> "none"]
  /\ server = [c \in Calls |-> None]
  /\ read = [c \in Calls |-> 0]
  /\ status = [c \in Calls |-> 0]
  /\ processed = {}
  /\ due = [c \in Calls |-> None]

\* http.Error or WriteHeader, and the end of the exchange.
Answer(c, code) ==
  /\ status' = [status EXCEPT ![c] = code]
  /\ phase' = [phase EXCEPT ![c] = "answered"]

-----------------------------------------------------------------------------
\* Plausible bugs, used by the mutation runs only.
AcceptTruncated(c) ==   \* LimitReader(r.Body, maxBodySize): no room for one more
  /\ phase[c] = "sent"
  /\ mux[To[c]] # None
  /\ read' = [read EXCEPT ![c] = IF size[c] < MaxBody THEN size[c] ELSE MaxBody]
  /\ server' = [server EXCEPT ![c] = mux[To[c]]]
  /\ phase' = [phase EXCEPT ![c] = "handling"]
  /\ UNCHANGED <<status, processed, clientVars, muxVars>>

FinishAs400(c) ==   \* the handler's error is reported like a decode error
  /\ phase[c] = "handling"
  /\ To[c] \notin Serves
  /\ \/ processed' = processed \cup {c} /\ Answer(c, 204)
     \/ UNCHANGED processed /\ Answer(c, 400)
  /\ UNCHANGED <<server, read, clientVars, muxVars>>

ReplyUnwritten(c) ==   \* no http.Error: net/http answers 200 on its own
  /\ phase[c] = "handling"
  /\ To[c] \in Serves
  /\ \/ processed' = processed \cup {c} /\ Answer(c, 200)
     \/ UNCHANGED processed /\ Answer(c, 200)
  /\ UNCHANGED <<server, read, clientVars, muxVars>>

ReturnAndRemove(s) ==   \* a handler that answers 404 once its subscription is over
  /\ session[s] = "serving"
  /\ s \in cancelled
  /\ session' = [session EXCEPT ![s] = "returned"]
  /\ mux' = [mux EXCEPT ![RouteOf[s]] = None]
  /\ UNCHANGED <<cancelled, clientVars, exchangeVars>>

-----------------------------------------------------------------------------
(* Subscriber.SubscribeWithReady and Responder.Serve *)

\* Handle(basePath/subject), and ready() of a Subscriber: a second registration
\* of a subject with the same object panics in its ServeMux.
Subscribe(s) ==
  /\ session[s] = "idle"
  /\ \/ /\ mux[RouteOf[s]] = None
        /\ mux' = [mux EXCEPT ![RouteOf[s]] = s]
        /\ session' = [session EXCEPT ![s] = "serving"]
     \/ /\ mux[RouteOf[s]] # None
        /\ session' = [session EXCEPT ![s] = "panicked"]
        /\ UNCHANGED mux
  /\ UNCHANGED <<cancelled, clientVars, exchangeVars>>

\* <-ctx.Done(): return nil.  The route stays on the mux.
Return(s) ==
  /\ session[s] = "serving"
  /\ s \in cancelled
  /\ session' = [session EXCEPT ![s] = "returned"]
  /\ UNCHANGED <<mux, cancelled, clientVars, exchangeVars>>

Cancel(s) ==
  /\ s \notin cancelled
  /\ cancelled' = cancelled \cup {s}
  /\ UNCHANGED <<session, mux, clientVars, exchangeVars>>

-----------------------------------------------------------------------------
(* Publisher.post and Requester.Request up to the send *)

\* The value is encoded and the request is sent ...
Send(c) ==
  /\ call[c] = "idle"
  /\ call' = [call EXCEPT ![c] = "waiting"]
  /\ \E n \in IF c \in Strangers THEN {0} ELSE 0 .. MaxSize :
       size' = [size EXCEPT ![c] = n]
  /\ due' = [due EXCEPT ![c] = IF To[c] \in Serves THEN None ELSE mux[To[c]]]
  /\ phase' = [phase EXCEPT ![c] = "sent"]
  /\ UNCHANGED <<server, read, status, processed, muxVars>>

\* ... or encoding, or building the request, fails.
SendFails(c) ==
  /\ call[c] = "idle"
  /\ call' = [call EXCEPT ![c] = "failed"]
  /\ UNCHANGED <<size, due, exchangeVars, muxVars>>

-----------------------------------------------------------------------------
(* The HandlerFunc of a route *)

\* What the mux finds for the path of a call.  Clients escape the subject
\* (url.PathEscape), the pattern is registered as it is, and ServeMux compares
\* segment by segment: "a%2Fb" is one segment and does not match "/a/b".
Dispatch(c) == IF To[c] \in Slashed THEN None ELSE mux[To[c]]

NoRoute(c) ==
  /\ phase[c] = "sent"
  /\ Dispatch(c) = None
  /\ Answer(c, 404)
  /\ UNCHANGED <<server, read, processed, clientVars, muxVars>>

WrongMethod(c) ==
  /\ phase[c] = "sent"
  /\ Dispatch(c) # None
  /\ c \in Strangers
  /\ Answer(c, 405)
  /\ UNCHANGED <<server, read, processed, clientVars, muxVars>>

\* io.ReadAll of at most maxBodySize + 1 bytes: a broken body is a 400, one
\* byte too many a 413.  What is left is decoded, with a 400 or the handler.
Accept(c) ==
  /\ phase[c] = "sent"
  /\ Dispatch(c) # None
  /\ c \notin Strangers
  /\ \/ Answer(c, 400) /\ UNCHANGED <<server, read>>
     \/ /\ read' = [read EXCEPT ![c] =
                      IF size[c] < MaxBody + 1 THEN size[c] ELSE MaxBody + 1]
        /\ \/ read'[c] > MaxBody /\ Answer(c, 413) /\ UNCHANGED server
           \/ read'[c] <= MaxBody /\ Answer(c, 400) /\ UNCHANGED server
           \/ /\ read'[c] <= MaxBody
              /\ server' = [server EXCEPT ![c] = Dispatch(c)]
              /\ phase' = [phase EXCEPT ![c] = "handling"]
              /\ UNCHANGED status
  /\ UNCHANGED <<processed, clientVars, muxVars>>

\* A Subscriber's handler returns: 500 for an error, else 204.
Finish(c) ==
  /\ phase[c] = "handling"
  /\ To[c] \notin Serves
  /\ \/ UNCHANGED processed /\ Answer(c, 500)
     \/ processed' = processed \cup {c} /\ Answer(c, 204)
  /\ UNCHANGED <<server, read, clientVars, muxVars>>

\* A Responder's handler returns: 500 for an error, or when the response cannot
\* be encoded, else 200.
Reply(c) ==
  /\ phase[c] = "handling"
  /\ To[c] \in Serves
  /\ \/ UNCHANGED processed /\ Answer(c, 500)
     \/ processed' = processed \cup {c} /\ \E code \in {200, 500} : Answer(c, code)
  /\ UNCHANGED <<server, read, clientVars, muxVars>>

-----------------------------------------------------------------------------
(* Publisher.post and Requester.Request after the send *)

Success(code) == code >= 200 /\ code < 300

\* Any 2xx is a success; a Requester must also decode the response.
Receive(c) ==
  /\ call[c] = "waiting"
  /\ phase[c] = "answered"
  /\ \/ Success(status[c]) /\ call' = [call EXCEPT ![c] = "ok"]
     \/ /\ ~ Success(status[c]) \/ c \in Requesters
        /\ call' = [call EXCEPT ![c] = "failed"]
  /\ UNCHANGED <<size, due, exchangeVars, muxVars>>

\* The client's timeout, the caller's context or the connection ends the wait.
\* What has reached the server goes on there.
GiveUp(c) ==
  /\ call[c] = "waiting"
  /\ call' = [call EXCEPT ![c] = "failed"]
  /\ UNCHANGED <<size, due, exchangeVars, muxVars>>

Next ==
  \/ \E s \in Subscriptions : Subscribe(s) \/ Return(s) \/ Cancel(s)
  \/ \E c \in Calls :
       \/ Send(c) \/ SendFails(c) \/ Receive(c) \/ GiveUp(c)
       \/ NoRoute(c) \/ WrongMethod(c) \/ Accept(c) \/ Finish(c) \/ Reply(c)

Spec == Init /\ [][Next]_vars

-----------------------------------------------------------------------------
(* Properties *)

\* Every variable holds a value of its type (subscriber.go:111-176,
\* publisher.go:92-104).
TypeOK ==
  /\ session \in [Subscriptions -> {"idle", "serving", "returned", "panicked"}]
  /\ mux \in [Routes -> Subscriptions \cup {None}]
  /\ cancelled \subseteq Subscriptions
  /\ call \in [Calls -> {"idle", "waiting", "ok", "failed"}]
  /\ size \in [Calls -> Nat]
  /\ phase \in [Calls -> {"none", "sent", "handling", "answered"}]
  /\ server \in [Calls -> Subscriptions \cup {None}]
  /\ read \in [Calls -> Nat]
  /\ status \in [Calls -> Codes]
  /\ processed \subseteq Calls
  /\ due \in [Calls -> Subscriptions \cup {None}]

\* A client that is told 4xx may send again without risk of processing twice:
\* no handler was invoked (subscriber.go:126-149).
RefusedUnhandled ==
  \A c \in Calls : status[c] \in {400, 404, 405, 413} => server[c] = None

\* A handler is given the whole body or is not invoked, at the limit too:
\* never the first maxBodySize bytes of a longer one (subscriber.go:132-142).
WholeBody ==
  \A c \in Calls : server[c] # None => read[c] = size[c] /\ size[c] <= MaxBody

\* A call made after ready() is served by the subscription that was ready or
\* refused for what it is, never 404 and never by another, also when the
\* subscription has long returned or others tried to take its place
\* (subscriber.go:110-119).
ReadyIsServed ==
  \A c \in Calls :
    due[c] # None /\ To[c] \notin Slashed =>
      status[c] # 404 /\ server[c] \in {None, due[c]}

\* A nil from Publish, or a response from Request, means that a handler has
\* processed the call (publisher.go:92-104, requester.go:84-108).
Contract == INSTANCE Exchange
ImplementsExchange == Contract!Spec
=============================================================================
