----------------------------- MODULE HttpProofs -----------------------------
(***************************************************************************)
(* Theorems about HttpExchange, proved with TLAPS for any number of calls, *)
(* subscriptions and routes and any limit: types, what an answer says,     *)
(* which subscription serves a call, and the contract of Publisher and     *)
(* Requester.                                                              *)
(***************************************************************************)
EXTENDS HttpExchange, TLAPS

\* Every variable keeps its type.
THEOREM TypeCorrect == Spec => []TypeOK
<1> USE HttpAssumption
<1>1. Init => TypeOK
  BY DEF Init, TypeOK, Codes
<1>2. TypeOK /\ [Next]_vars => TypeOK'
  <2> SUFFICES ASSUME TypeOK, [Next]_vars PROVE TypeOK'
    OBVIOUS
  <2> USE DEF TypeOK, Codes, clientVars, exchangeVars, muxVars
  <2>1. ASSUME NEW s \in Subscriptions, Subscribe(s) PROVE TypeOK'
    BY <2>1 DEF Subscribe
  <2>2. ASSUME NEW s \in Subscriptions, Return(s) \/ Cancel(s) PROVE TypeOK'
    BY <2>2 DEF Return, Cancel
  <2>3. ASSUME NEW c \in Calls, Send(c) PROVE TypeOK'
    BY <2>3 DEF Send
  <2>4. ASSUME NEW c \in Calls, SendFails(c) \/ Receive(c) \/ GiveUp(c) PROVE TypeOK'
    BY <2>4 DEF SendFails, Receive, GiveUp
  <2>5. ASSUME NEW c \in Calls, NoRoute(c) \/ WrongMethod(c) PROVE TypeOK'
    BY <2>5 DEF NoRoute, WrongMethod, Answer
  <2>6. ASSUME NEW c \in Calls, Accept(c) PROVE TypeOK'
    BY <2>6 DEF Accept, Answer, Dispatch
  <2>7. ASSUME NEW c \in Calls, Finish(c) \/ Reply(c) PROVE TypeOK'
    BY <2>7 DEF Finish, Reply, Answer
  <2>8. CASE UNCHANGED vars
    BY <2>8 DEF vars
  <2> QED
    BY <2>1, <2>2, <2>3, <2>4, <2>5, <2>6, <2>7, <2>8 DEF Next
<1> QED
  BY <1>1, <1>2, PTL DEF Spec

-----------------------------------------------------------------------------
(* The inductive invariant *)

\* A route on a mux is its subscription's, whose registration did not panic.
Registered(x) ==
  mux[x] # None =>
    /\ RouteOf[mux[x]] = x
    /\ session[mux[x]] \in {"serving", "returned"}

\* What the server knows of a call, from its arrival to its answer.
ServerSide(c) ==
  /\ phase[c] # "answered" => status[c] = 0
  /\ phase[c] = "handling" => server[c] # None
  /\ server[c] # None =>
       /\ phase[c] \in {"handling", "answered"}
       /\ server[c] = mux[To[c]]
       /\ read[c] = size[c]
       /\ size[c] <= MaxBody
  /\ status[c] \in {400, 404, 405, 413} => server[c] = None
  /\ Success(status[c]) => c \in processed

\* What the client's side adds to it.
ClientSide(c) ==
  /\ call[c] = "idle" => phase[c] = "none"
  /\ phase[c] = "none" => due[c] = None
  /\ due[c] # None => mux[To[c]] = due[c]
  /\ due[c] # None /\ To[c] \notin Slashed => status[c] # 404

HttpInv ==
  /\ \A x \in Routes : Registered(x)
  /\ \A c \in Calls : ServerSide(c) /\ ClientSide(c)

\* Nothing is registered and no request is out at the start.
LEMMA InitHolds == Init => HttpInv
  BY HttpAssumption DEF Init, HttpInv, Registered, ServerSide, ClientSide, Success

\* Registration touches one route, which had no owner.
LEMMA MuxSteps ==
  ASSUME TypeOK, HttpInv, NEW s \in Subscriptions,
         Subscribe(s) \/ Return(s) \/ Cancel(s)
  PROVE  HttpInv'
<1> USE HttpAssumption DEF TypeOK, HttpInv, clientVars, exchangeVars
<1>1. \A x \in Routes : Registered(x)'
  BY DEF Subscribe, Return, Cancel, Registered
<1>2. \A x \in Routes : mux[x] # None => mux'[x] = mux[x]
  BY DEF Subscribe, Return, Cancel
<1>3. UNCHANGED <<clientVars, exchangeVars>>
  BY DEF Subscribe, Return, Cancel
<1>4. ASSUME NEW c \in Calls PROVE ServerSide(c)'
  BY <1>2, <1>3 DEF ServerSide, Success
<1>5. ASSUME NEW c \in Calls PROVE ClientSide(c)'
  BY <1>2, <1>3 DEF ClientSide
<1> QED
  BY <1>1, <1>4, <1>5

\* A step of one call leaves the routes and the other calls alone.
LEMMA CallSteps ==
  ASSUME TypeOK, HttpInv, NEW c \in Calls,
         \/ Send(c) \/ SendFails(c) \/ Receive(c) \/ GiveUp(c)
         \/ NoRoute(c) \/ WrongMethod(c) \/ Accept(c)
         \/ Finish(c) \/ Reply(c)
  PROVE  HttpInv'
<1> USE HttpAssumption DEF TypeOK, clientVars, exchangeVars, muxVars
<1>1. UNCHANGED muxVars
  BY DEF Send, SendFails, Receive, GiveUp, NoRoute, WrongMethod, Accept, Finish,
         Reply
<1>2. \A x \in Routes : Registered(x)'
  BY <1>1 DEF Registered, HttpInv
<1>3. ASSUME NEW d \in Calls, d # c PROVE ServerSide(d)' /\ ClientSide(d)'
  <2>1. /\ UNCHANGED <<call[d], size[d], phase[d], server[d], read[d], status[d]>>
        /\ d \in processed' <=> d \in processed
        /\ UNCHANGED due[d]
    BY <1>3 DEF Send, SendFails, Receive, GiveUp, NoRoute, WrongMethod, Accept, Finish,
           Reply, Answer
  <2> QED
    BY <2>1, <1>1 DEF HttpInv, ServerSide, ClientSide, Success
<1>4. ServerSide(c) /\ ClientSide(c)
  BY DEF HttpInv
<1>5. ServerSide(c)' /\ ClientSide(c)'
  <2> USE <1>4 DEF ServerSide, ClientSide, Success
  <2>1. CASE Send(c)
    BY <2>1 DEF Send
  <2>2. CASE SendFails(c) \/ Receive(c) \/ GiveUp(c)
    BY <2>2 DEF SendFails, Receive, GiveUp
  <2>3. CASE NoRoute(c) \/ WrongMethod(c)
    BY <2>3 DEF NoRoute, WrongMethod, Answer, Dispatch
  <2>4. CASE Accept(c)
    BY <2>4 DEF Accept, Answer, Dispatch
  <2>5. CASE Finish(c) \/ Reply(c)
    BY <2>5 DEF Finish, Reply, Answer
  <2> QED
    BY <2>1, <2>2, <2>3, <2>4, <2>5
<1> QED
  BY <1>2, <1>3, <1>5 DEF HttpInv

\* HttpInv holds in every reachable state.
THEOREM Inductive == Spec => []HttpInv
<1>1. TypeOK /\ HttpInv /\ UNCHANGED vars => HttpInv'
  BY DEF HttpInv, Registered, ServerSide, ClientSide, Success, vars, clientVars, exchangeVars,
         muxVars
<1>2. TypeOK /\ HttpInv /\ [Next]_vars => HttpInv'
  BY <1>1, MuxSteps, CallSteps DEF Next
<1> QED
  BY <1>2, InitHolds, TypeCorrect, PTL DEF Spec

-----------------------------------------------------------------------------
(* The properties *)

\* A 4xx answer means that no handler was invoked.
THEOREM RefusalIsSafe == Spec => []RefusedUnhandled
<1>1. HttpInv => RefusedUnhandled
  BY DEF HttpInv, ServerSide, RefusedUnhandled
<1> QED
  BY <1>1, Inductive, PTL

\* A handler is only ever given a whole body.
THEOREM BodiesAreWhole == Spec => []WholeBody
<1>1. HttpInv => WholeBody
  BY DEF HttpInv, ServerSide, WholeBody
<1> QED
  BY <1>1, Inductive, PTL

\* A call made after ready() is answered by the subscription that was ready, or
\* refused for what it is, for ever.
THEOREM ReadyIsAnswered == Spec => []ReadyIsServed
<1>1. TypeOK /\ HttpInv => ReadyIsServed
  BY DEF TypeOK, HttpInv, ServerSide, ClientSide, ReadyIsServed
<1> QED
  BY <1>1, Inductive, TypeCorrect, PTL

\* Publisher and Requester keep the contract of Exchange: no error means that
\* a handler has processed the call.
THEOREM HttpImplementsExchange == Spec => ImplementsExchange
<1>1. Init => Contract!Init
  BY DEF Init, Contract!Init
<1>2. TypeOK /\ HttpInv /\ [Next]_vars => [Contract!Next]_<<call, processed>>
  <2> SUFFICES ASSUME TypeOK, HttpInv, [Next]_vars, ~ UNCHANGED <<call, processed>>
               PROVE  Contract!Next
    OBVIOUS
  <2> USE DEF TypeOK, clientVars, exchangeVars, muxVars
  <2>1. ASSUME NEW s \in Subscriptions, Subscribe(s) \/ Return(s) \/ Cancel(s) PROVE FALSE
    BY <2>1 DEF Subscribe, Return, Cancel
  <2>2. ASSUME NEW c \in Calls, Send(c) \/ SendFails(c) PROVE Contract!Start(c)
    BY <2>2 DEF Send, SendFails, Contract!Start
  <2>3. ASSUME NEW c \in Calls, Receive(c) \/ GiveUp(c) PROVE Contract!Return(c)
    <3>1. Success(status[c]) => c \in processed
      BY DEF HttpInv, ServerSide
    <3> QED
      BY <2>3, <3>1 DEF Receive, GiveUp, Contract!Return
  <2>4. ASSUME NEW c \in Calls, NoRoute(c) \/ WrongMethod(c) \/ Accept(c)
       PROVE  FALSE
    BY <2>4 DEF NoRoute, WrongMethod, Accept
  <2>5. ASSUME NEW c \in Calls, Finish(c) \/ Reply(c) PROVE Contract!Process(c)
    <3>1. call[c] # "idle" /\ UNCHANGED call
      BY <2>5 DEF Finish, Reply, HttpInv, ClientSide
    <3> QED
      BY <2>5, <3>1 DEF Finish, Reply, Contract!Process
  <2> QED
    BY <2>1, <2>2, <2>3, <2>4, <2>5 DEF Next, Contract!Next, vars
<1> QED
  BY <1>1, <1>2, Inductive, TypeCorrect, PTL DEF Spec, ImplementsExchange, Contract!Spec
=============================================================================
