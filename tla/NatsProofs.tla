----------------------------- MODULE NatsProofs -----------------------------
(***************************************************************************)
(* Theorems about CoreNats, proved with TLAPS for any number of sessions,  *)
(* queue groups, messages and connections: types, request/reply, the       *)
(* promise of ready(), and order.                                          *)
(***************************************************************************)
EXTENDS CoreNats, SequenceTheorems, TLAPS

-----------------------------------------------------------------------------
(* Frames on a connection *)

At(c, i, f) == i \in 1 .. Len(wire[c]) /\ wire[c][i] = f

\* Every session and every message uses one of the connections.
LEMMA ConnTypes ==
  /\ \A s \in Sessions : ConnOf[s] \in Conns
  /\ \A m \in Messages : ConnOf[m] \in Conns
  BY DEF Conns

\* What F builds for a session or a message is a frame.
LEMMA FrameTypes ==
  /\ \A s \in Sessions : \A t \in {"SUB", "UNSUB", "PING"} : F(t, s) \in Frame
  /\ \A m \in Messages : F("PUB", m) \in Frame
  BY DEF F, Frame

\* Two frames are equal when type and owner are.
LEMMA FramesDiffer ==
  ASSUME NEW t, NEW u, NEW x, NEW y
  PROVE  F(t, x) = F(u, y) <=> t = u /\ x = y
  BY DEF F

\* A frame is rebuilt from its fields.
LEMMA FrameFields ==
  ASSUME NEW f \in Frame
  PROVE  /\ f = F(f.type, f.of)
         /\ f.type \in {"SUB", "UNSUB", "PING", "PUB"}
         /\ f.type = "PUB" => f.of \in Messages
         /\ f.type # "PUB" => f.of \in Sessions
  BY DEF F, Frame

\* Writing a frame puts it behind what is on the connection.
LEMMA WriteOne ==
  ASSUME wire \in [Conns -> Seq(Frame)], NEW c \in Conns, NEW g \in Frame, Write(c, g)
  PROVE  /\ wire' \in [Conns -> Seq(Frame)]
         /\ \A d \in Conns : \A i \in Nat : \A f :
              At(d, i, f)' <=> At(d, i, f) \/ (d = c /\ i = Len(wire[c]) + 1 /\ f = g)
<1>1. wire' = [wire EXCEPT ![c] = Append(@, g)]
  BY DEF Write
<1>2. /\ wire'[c] \in Seq(Frame)
      /\ Len(wire'[c]) = Len(wire[c]) + 1
      /\ \A i \in 1 .. Len(wire[c]) : wire'[c][i] = wire[c][i]
      /\ wire'[c][Len(wire[c]) + 1] = g
  BY <1>1
<1>3. \A d \in Conns \ {c} : wire'[d] = wire[d]
  BY <1>1
<1>4. Len(wire[c]) \in Nat
  OBVIOUS
<1> QED
  BY <1>1, <1>2, <1>3, <1>4 DEF At

\* Reading a frame takes the first and moves the others up one place.
LEMMA ReadOne ==
  ASSUME wire \in [Conns -> Seq(Frame)], NEW c \in Conns, wire[c] # <<>>,
         wire' = [wire EXCEPT ![c] = Tail(@)]
  PROVE  /\ wire' \in [Conns -> Seq(Frame)]
         /\ Head(wire[c]) \in Frame
         /\ At(c, 1, Head(wire[c]))
         /\ \A d \in Conns : \A i \in Nat \ {0} : \A f :
              At(d, i, f)' <=> At(d, IF d = c THEN i + 1 ELSE i, f)
<1>1. /\ wire'[c] \in Seq(Frame)
      /\ Len(wire'[c]) = Len(wire[c]) - 1
      /\ \A i \in 1 .. Len(wire'[c]) : wire'[c][i] = wire[c][i + 1]
      /\ Head(wire[c]) \in Frame
      /\ Head(wire[c]) = wire[c][1]
  OBVIOUS
<1>2. \A d \in Conns \ {c} : wire'[d] = wire[d]
  OBVIOUS
<1>3. Len(wire[c]) \in Nat \ {0}
  OBVIOUS
<1>4. ASSUME NEW i \in Nat \ {0}, NEW f PROVE At(c, i, f)' <=> At(c, i + 1, f)
  BY <1>1, <1>3 DEF At
<1>5. ASSUME NEW d \in Conns \ {c}, NEW i \in Nat \ {0}, NEW f
      PROVE  At(d, i, f)' <=> At(d, i, f)
  BY <1>2 DEF At
<1> QED
  BY <1>1, <1>3, <1>4, <1>5 DEF At

\* A frame that is on a connection has a position there.
LEMMA AtIsPosition ==
  ASSUME wire \in [Conns -> Seq(Frame)], NEW c \in Conns, NEW i, NEW f, At(c, i, f)
  PROVE  i \in Nat \ {0} /\ i <= Len(wire[c]) /\ Len(wire[c]) \in Nat
  BY DEF At

-----------------------------------------------------------------------------
(* Types *)

\* Every variable keeps its type.
THEOREM TypeCorrect == Spec => []TypeOK
<1> USE DEF serverVars, sessionVars, callVars
<1>1. Init => TypeOK
  <2> SUFFICES ASSUME Init PROVE TypeOK
    OBVIOUS
  <2>1. wire \in [Conns -> Seq(Frame)]
    BY DEF Init
  <2>2. log \in [Sessions -> Seq(Messages)] /\ sent \in Seq(Messages)
    BY DEF Init
  <2> QED
    BY <2>1, <2>2 DEF Init, TypeOK
<1>2. TypeOK /\ [Next]_vars => TypeOK'
  <2> SUFFICES ASSUME TypeOK, [Next]_vars PROVE TypeOK'
    OBVIOUS
  <2> USE DEF TypeOK, Listening
  <2>1. ASSUME NEW s \in Sessions, Subscribe(s) \/ Flush(s) PROVE TypeOK'
    <3>1. wire' \in [Conns -> Seq(Frame)]
      BY <2>1, WriteOne, ConnTypes, FrameTypes DEF Subscribe, Flush
    <3> QED
      BY <2>1, <3>1 DEF Subscribe, Flush
  <2>2. ASSUME NEW s \in Sessions, FlushFails(s) \/ Unsubscribe(s) PROVE TypeOK'
    <3>1. wire' \in [Conns -> Seq(Frame)]
      BY <2>2, WriteOne, ConnTypes, FrameTypes DEF FlushFails, Unsubscribe
    <3> QED
      BY <2>2, <3>1 DEF FlushFails, Unsubscribe
  <2>3. ASSUME NEW s \in Sessions, SubscribeFails(s) \/ SignalReady(s) \/ Cancel(s)
        PROVE  TypeOK'
    BY <2>3 DEF SubscribeFails, Flush, SignalReady, Cancel
  <2>4. ASSUME NEW s \in Sessions, Take(s) PROVE TypeOK'
    <3>1. log[s][taken[s] + 1] \in Messages
      BY <2>4 DEF Take
    <3> QED
      BY <2>4, <3>1 DEF Take
  <2>5. ASSUME NEW s \in Sessions, HandlerReturn(s) PROVE TypeOK'
    BY <2>5 DEF HandlerReturn
  <2>6. ASSUME NEW m \in Messages, Send(m) PROVE TypeOK'
    <3>1. wire' \in [Conns -> Seq(Frame)]
      BY <2>6, WriteOne, ConnTypes, FrameTypes DEF Send
    <3> QED
      BY <2>6, <3>1 DEF Send
  <2>7. ASSUME NEW m \in Messages, SendFails(m) \/ Receive(m) \/ GiveUp(m) PROVE TypeOK'
    BY <2>7 DEF SendFails, Receive, GiveUp
  <2>8. ASSUME NEW c \in Conns, Process(c) PROVE TypeOK'
    <3> DEFINE f == Head(wire[c])
    <3>1. wire' \in [Conns -> Seq(Frame)] /\ f \in Frame
      BY <2>8, ReadOne DEF Process
    <3>2. f.type = "PUB" => f.of \in Messages
      BY <3>1, FrameFields
    <3>3. f.type # "PUB" => f.of \in Sessions
      BY <3>1, FrameFields
    <3>4. CASE f.type = "PUB"
      <4>1. PICK A : log' = [s \in Sessions |-> IF s \in A THEN Append(log[s], f.of) ELSE log[s]]
        BY <2>8, <3>4 DEF Process
      <4>2. \A s \in Sessions : Append(log[s], f.of) \in Seq(Messages)
        BY <3>2, <3>4, AppendProperties
      <4>3. log' \in [Sessions -> Seq(Messages)]
        BY <4>1, <4>2
      <4>4. UNCHANGED <<interest, flushed>>
        BY <2>8, <3>4 DEF Process
      <4> QED
        BY <2>8, <3>1, <4>3, <4>4 DEF Process
    <3>5. CASE f.type # "PUB"
      <4>1. log' = log
        BY <2>8, <3>5 DEF Process
      <4> QED
        BY <2>8, <3>1, <3>3, <3>5, <4>1 DEF Process
    <3> QED
      BY <3>4, <3>5
  <2>9. CASE UNCHANGED vars
    BY <2>9 DEF vars
  <2> QED
    BY <2>1, <2>2, <2>3, <2>4, <2>5, <2>6, <2>7, <2>8, <2>9 DEF Next, SessionStep
<1> QED
  BY <1>1, <1>2, PTL DEF Spec

-----------------------------------------------------------------------------
(* Published messages on the wire and in the logs *)

LEMMA OnWireAt ==
  ASSUME TypeOK, NEW m
  PROVE  OnWire(m) <=> \E c \in Conns : \E i \in Nat \ {0} : At(c, i, F("PUB", m))
  BY DEF OnWire, At, TypeOK

\* After a step too, a message is on the wire when its frame has a position.
LEMMA OnWireAtNext ==
  ASSUME TypeOK', NEW m
  PROVE  OnWire(m)' <=> \E c \in Conns : \E i \in Nat \ {0} : At(c, i, F("PUB", m))'
  BY DEF OnWire, At, TypeOK

\* A session writes its own frames only, and a message is one frame.
LEMMA SessionFrames ==
  ASSUME TypeOK, NEW s \in Sessions, SessionStep(s) \/ Cancel(s)
  PROVE  \A d \in Conns : \A i \in Nat : \A f :
           f \notin {F("SUB", s), F("PING", s), F("UNSUB", s)} =>
             (At(d, i, f)' <=> At(d, i, f))
<1> USE DEF TypeOK
<1>1. CASE Subscribe(s) \/ Flush(s)
  BY <1>1, WriteOne, ConnTypes, FrameTypes DEF Subscribe, Flush
<1>2. CASE FlushFails(s) \/ Unsubscribe(s)
  BY <1>2, WriteOne, ConnTypes, FrameTypes DEF FlushFails, Unsubscribe
<1>3. CASE SubscribeFails(s) \/ SignalReady(s) \/ Cancel(s) \/ Take(s) \/ HandlerReturn(s)
  BY <1>3 DEF SubscribeFails, Flush, SignalReady, Cancel, Take, HandlerReturn, At
<1> QED
  BY <1>1, <1>2, <1>3 DEF SessionStep

\* A step of a session leaves the published frames where they are.
LEMMA PublishedFrames ==
  ASSUME TypeOK, NEW s \in Sessions, SessionStep(s) \/ Cancel(s)
  PROVE  \A d \in Conns : \A i \in Nat : \A m :
           At(d, i, F("PUB", m))' <=> At(d, i, F("PUB", m))
<1>1. \A m : F("PUB", m) \notin {F("SUB", s), F("PING", s), F("UNSUB", s)}
  BY FramesDiffer
<1> QED
  BY <1>1, SessionFrames

\* Sending a message appends its one frame to its connection.
LEMMA SendFrames ==
  ASSUME TypeOK, NEW m \in Messages, Send(m)
  PROVE  \A d \in Conns : \A i \in Nat : \A f :
           At(d, i, f)' <=>
             \/ At(d, i, f)
             \/ d = ConnOf[m] /\ i = Len(wire[ConnOf[m]]) + 1 /\ f = F("PUB", m)
  BY WriteOne, ConnTypes, FrameTypes DEF TypeOK, Send

\* What a published message's frame becomes when the server processes it.
LEMMA Processing ==
  ASSUME TypeOK, NEW c \in Conns, Process(c)
  PROVE  \/ log' = log /\ \A m : ~ At(c, 1, F("PUB", m))
         \/ \E m \in Messages : \E A \in Audiences(m) :
              /\ At(c, 1, F("PUB", m))
              /\ log' = [s \in Sessions |-> IF s \in A THEN Append(log[s], m) ELSE log[s]]
              /\ UNCHANGED <<interest, flushed>>
<1> DEFINE f == Head(wire[c])
<1>1. f \in Frame /\ At(c, 1, f)
  BY ReadOne DEF Process, TypeOK
<1>2. f = F(f.type, f.of) /\ (f.type = "PUB" => f.of \in Messages)
  BY <1>1, FrameFields
<1>3. CASE f.type = "PUB"
  <2>1. \E A \in Audiences(f.of) :
          /\ log' = [s \in Sessions |-> IF s \in A THEN Append(log[s], f.of) ELSE log[s]]
          /\ UNCHANGED <<interest, flushed>>
    BY <1>3 DEF Process
  <2>2. At(c, 1, F("PUB", f.of))
    BY <1>1, <1>2, <1>3
  <2> HIDE DEF f
  <2> QED
    BY <1>2, <1>3, <2>1, <2>2
<1>4. CASE f.type # "PUB"
  <2>1. log' = log
    BY <1>4 DEF Process
  <2>2. ASSUME NEW m, At(c, 1, F("PUB", m)) PROVE FALSE
    <3>1. f = F("PUB", m)
      BY <1>1, <2>2 DEF At
    <3> QED
      BY <3>1, <1>4 DEF F
  <2> QED
    BY <2>1, <2>2
<1> QED
  BY <1>3, <1>4

\* Delivering a message extends the chosen logs by it, and no other log.
LEMMA Delivering ==
  ASSUME log \in [Sessions -> Seq(Messages)], NEW m \in Messages, NEW A,
         log' = [s \in Sessions |-> IF s \in A THEN Append(log[s], m) ELSE log[s]],
         NEW s \in Sessions
  PROVE  /\ Len(log[s]) \in Nat
         /\ Len(log'[s]) = IF s \in A THEN Len(log[s]) + 1 ELSE Len(log[s])
         /\ \A i \in 1 .. Len(log[s]) : log'[s][i] = log[s][i]
         /\ s \in A => log'[s][Len(log[s]) + 1] = m
         /\ \A n : Has(s, n)' <=> Has(s, n) \/ (s \in A /\ n = m)
<1>1. Len(log[s]) \in Nat
  OBVIOUS
<1>2. CASE s \in A
  <2>1. log'[s] = Append(log[s], m)
    BY <1>2
  <2>2. /\ Len(log'[s]) = Len(log[s]) + 1
        /\ \A i \in 1 .. Len(log[s]) : log'[s][i] = log[s][i]
        /\ log'[s][Len(log[s]) + 1] = m
    BY <2>1
  <2> QED
    BY <1>1, <1>2, <2>2 DEF Has
<1>3. CASE s \notin A
  BY <1>1, <1>3 DEF Has
<1> QED
  BY <1>2, <1>3

\* The messages on the wire in the next state.
LEMMA OnWireSteps ==
  ASSUME TypeOK, TypeOK', NEW n
  PROVE  /\ \A s \in Sessions : SessionStep(s) \/ Cancel(s) => (OnWire(n)' <=> OnWire(n))
         /\ \A m \in Messages : Send(m) => (OnWire(n)' <=> OnWire(n) \/ n = m)
         /\ \A c \in Conns : Process(c) => (OnWire(n)' => OnWire(n))
<1>1. ASSUME NEW s \in Sessions, SessionStep(s) \/ Cancel(s) PROVE OnWire(n)' <=> OnWire(n)
  BY <1>1, PublishedFrames, OnWireAt, OnWireAtNext
<1>2. ASSUME NEW m \in Messages, Send(m) PROVE OnWire(n)' <=> OnWire(n) \/ n = m
  <2>1. ConnOf[m] \in Conns /\ Len(wire[ConnOf[m]]) + 1 \in Nat \ {0}
    BY ConnTypes DEF TypeOK
  <2> QED
    BY <1>2, <2>1, SendFrames, FramesDiffer, OnWireAt, OnWireAtNext
<1>3. ASSUME NEW c \in Conns, Process(c), OnWire(n)' PROVE OnWire(n)
  <2>1. PICK d \in Conns, i \in Nat \ {0} : At(d, i, F("PUB", n))'
    BY <1>3, OnWireAtNext
  <2>2. At(d, IF d = c THEN i + 1 ELSE i, F("PUB", n))
    BY <1>3, <2>1, ReadOne DEF Process, TypeOK
  <2>3. (IF d = c THEN i + 1 ELSE i) \in Nat \ {0}
    OBVIOUS
  <2> QED
    BY <2>2, <2>3, OnWireAt
<1> QED
  BY <1>1, <1>2, <1>3

-----------------------------------------------------------------------------
(* Request and reply *)

\* A message that has not been sent is nowhere, and handlers are called with
\* messages their session was given.
Fresh(m) ==
  call[m] = "idle" =>
    /\ ~ OnWire(m)
    /\ \A s \in Sessions : ~ Has(s, m)
    /\ m \notin processed
    /\ due[m] = {}
    /\ \A i \in 1 .. Len(sent) : sent[i] # m

Handling(s) ==
  /\ taken[s] <= Len(log[s])
  /\ cb[s] # None => taken[s] > 0 /\ cb[s] = log[s][taken[s]]

FreshInv ==
  /\ \A m \in Messages : Fresh(m)
  /\ \A s \in Sessions : Handling(s)
  /\ replies \subseteq processed

\* A session takes what its log holds and invents no message.
LEMMA SessionsKeepFresh ==
  ASSUME TypeOK, TypeOK', FreshInv, NEW s \in Sessions, SessionStep(s) \/ Cancel(s)
  PROVE  FreshInv'
<1> USE NatsAssumption DEF serverVars, sessionVars, callVars
<1>1. UNCHANGED <<log, call, sent, due>>
  BY DEF SessionStep, Cancel, Subscribe, SubscribeFails, Flush, SignalReady, FlushFails,
         Unsubscribe, Take, HandlerReturn
<1>2. \A t \in Sessions : Handling(t)'
  <2>1. CASE Take(s)
    <3>1. UNCHANGED log /\ \A t \in Sessions \ {s} : taken'[t] = taken[t] /\ cb'[t] = cb[t]
      BY <2>1 DEF Take, TypeOK
    <3>2. /\ taken[s] \in Nat /\ Len(log[s]) \in Nat
          /\ taken[s] < Len(log[s])
          /\ taken'[s] = taken[s] + 1
          /\ cb'[s] \in {None, log[s][taken[s] + 1]}
      BY <2>1 DEF Take, TypeOK
    <3>3. Handling(s)'
      BY <3>1, <3>2 DEF Handling
    <3> QED
      BY <3>1, <3>3 DEF FreshInv, Handling
  <2>2. CASE HandlerReturn(s)
    BY <2>2 DEF HandlerReturn, TypeOK, FreshInv, Handling
  <2>3. CASE UNCHANGED <<taken, cb>>
    BY <1>1, <2>3 DEF FreshInv, Handling
  <2> QED
    BY <2>1, <2>2, <2>3 DEF SessionStep, Cancel, Subscribe, SubscribeFails, Flush, SignalReady,
                            FlushFails, Unsubscribe
<1>3. /\ replies' \subseteq processed'
      /\ processed' = processed \/ (cb[s] # None /\ processed' = processed \cup {cb[s]})
  <2>1. CASE HandlerReturn(s)
    BY <2>1 DEF HandlerReturn, FreshInv
  <2>2. CASE UNCHANGED <<processed, replies>>
    BY <2>2 DEF FreshInv
  <2> QED
    BY <2>1, <2>2 DEF SessionStep, Cancel, Subscribe, SubscribeFails, Flush, SignalReady,
                      FlushFails, Unsubscribe, Take
<1>4. cb[s] # None => Has(s, cb[s])
  <2>1. taken[s] \in Nat /\ Len(log[s]) \in Nat /\ Handling(s)
    BY DEF FreshInv, TypeOK
  <2> QED
    BY <2>1 DEF Handling, Has
<1>5. ASSUME NEW m \in Messages PROVE Fresh(m)'
  <2>1. OnWire(m)' <=> OnWire(m)
    BY OnWireSteps
  <2>2. \A t \in Sessions : Has(t, m)' <=> Has(t, m)
    BY <1>1 DEF Has
  <2>3. Fresh(m)
    BY DEF FreshInv
  <2> QED
    BY <1>1, <1>3, <1>4, <2>1, <2>2, <2>3 DEF Fresh
<1> QED
  BY <1>2, <1>3, <1>5 DEF FreshInv

\* A call touches its own message only, and leaves "idle" by sending it.
LEMMA CallsKeepFresh ==
  ASSUME TypeOK, TypeOK', FreshInv, NEW m \in Messages,
         Send(m) \/ SendFails(m) \/ Receive(m) \/ GiveUp(m)
  PROVE  FreshInv'
<1> USE DEF serverVars, sessionVars
<1>1. UNCHANGED <<log, taken, cb, processed, replies>>
  BY DEF Send, SendFails, Receive, GiveUp
<1>2. ASSUME NEW n \in Messages PROVE Fresh(n)'
  <2>1. \A t \in Sessions : Has(t, n)' <=> Has(t, n)
    BY <1>1 DEF Has
  <2>2. Fresh(n)
    BY DEF FreshInv
  <2>3. CASE Send(m)
    <3>1. OnWire(n)' <=> OnWire(n) \/ n = m
      BY <2>3, OnWireSteps
    <3>2. CASE n = m
      BY <2>3, <3>2 DEF Send, TypeOK, Fresh
    <3>3. CASE n # m
      <4>1. call'[n] = call[n] /\ due'[n] = due[n]
        BY <2>3, <3>3 DEF Send, TypeOK
      <4>2. sent' = Append(sent, m)
        BY <2>3 DEF Send
      <4>3. (\A i \in 1 .. Len(sent) : sent[i] # n) =>
              \A i \in 1 .. Len(sent') : sent'[i] # n
        <5>1. sent \in Seq(Messages) /\ Len(sent) \in Nat
          BY DEF TypeOK
        <5>2. /\ Len(sent') = Len(sent) + 1
              /\ sent'[Len(sent) + 1] = m
              /\ \A i \in 1 .. Len(sent) : sent'[i] = sent[i]
          BY <4>2, <5>1
        <5> QED
          BY <3>3, <5>1, <5>2
      <4> QED
        BY <1>1, <2>1, <2>2, <3>1, <3>3, <4>1, <4>3 DEF Fresh
    <3> QED
      BY <3>2, <3>3
  <2>4. CASE SendFails(m) \/ Receive(m) \/ GiveUp(m)
    <3>1. /\ UNCHANGED <<wire, sent, due>>
          /\ call'[n] = "idle" => call[n] = "idle"
      BY <2>4 DEF SendFails, Receive, GiveUp, TypeOK
    <3>2. OnWire(n)' <=> OnWire(n)
      BY <3>1 DEF OnWire
    <3> QED
      BY <1>1, <2>1, <2>2, <3>1, <3>2 DEF Fresh
  <2> QED
    BY <2>3, <2>4
<1> QED
  BY <1>1, <1>2 DEF FreshInv, Handling

\* The server delivers only what was on a connection, hence sent.
LEMMA ServerKeepsFresh ==
  ASSUME TypeOK, TypeOK', FreshInv, NEW c \in Conns, Process(c)
  PROVE  FreshInv'
<1> USE DEF sessionVars, callVars
<1>1. UNCHANGED <<taken, cb, call, processed, replies, sent, due>>
  BY DEF Process
<1>2. \A m \in Messages : OnWire(m)' => OnWire(m)
  BY OnWireSteps
<1>3. CASE log' = log
  <2>1. \A t \in Sessions : \A m \in Messages : Has(t, m)' <=> Has(t, m)
    BY <1>3 DEF Has
  <2> QED
    BY <1>1, <1>2, <1>3, <2>1 DEF FreshInv, Fresh, Handling
<1>4. ASSUME NEW m \in Messages, NEW A, At(c, 1, F("PUB", m)),
             log' = [s \in Sessions |-> IF s \in A THEN Append(log[s], m) ELSE log[s]]
      PROVE  FreshInv'
  <2>1. OnWire(m)
    BY <1>4, OnWireAt
  <2>2. call[m] # "idle"
    BY <2>1 DEF FreshInv, Fresh
  <2>3. ASSUME NEW n \in Messages PROVE Fresh(n)'
    <3>1. \A t \in Sessions : Has(t, n)' => Has(t, n) \/ n = m
      <4>1. log \in [Sessions -> Seq(Messages)]
        BY DEF TypeOK
      <4>2. ASSUME NEW t \in Sessions
            PROVE  \A k : Has(t, k)' <=> Has(t, k) \/ (t \in A /\ k = m)
        BY <1>4, <4>1, Delivering
      <4> QED
        BY <4>2
    <3> QED
      BY <1>1, <1>2, <2>2, <3>1 DEF FreshInv, Fresh
  <2>4. ASSUME NEW s \in Sessions PROVE Handling(s)'
    <3>1. /\ Len(log[s]) \in Nat
          /\ Len(log'[s]) >= Len(log[s])
          /\ \A i \in 1 .. Len(log[s]) : log'[s][i] = log[s][i]
      <4>1. /\ Len(log[s]) \in Nat
            /\ Len(log'[s]) = IF s \in A THEN Len(log[s]) + 1 ELSE Len(log[s])
            /\ \A i \in 1 .. Len(log[s]) : log'[s][i] = log[s][i]
        <5>1. log \in [Sessions -> Seq(Messages)]
          BY DEF TypeOK
        <5> QED
          BY <1>4, <5>1, Delivering
      <4> QED
        BY <4>1
    <3>2. Handling(s) /\ taken[s] \in Nat
      BY DEF FreshInv, TypeOK
    <3>3. Len(log'[s]) \in Nat
      BY DEF TypeOK
    <3> QED
      BY <1>1, <3>1, <3>2, <3>3 DEF Handling
  <2> QED
    BY <1>1, <2>3, <2>4 DEF FreshInv
<1> QED
  BY <1>3, <1>4, Processing

\* A message that Publish or Request was not called with is nowhere: not on a
\* connection, not in a log, not handled, not replied to; and a callback runs on
\* the last message taken from its subscription.
THEOREM NothingUnsent == Spec => []FreshInv
<1>1. Init => FreshInv
  BY DEF Init, FreshInv, Fresh, Handling, OnWire, Has
<1>2. TypeOK /\ TypeOK' /\ FreshInv /\ [Next]_vars => FreshInv'
  <2>1. TypeOK /\ FreshInv /\ UNCHANGED vars => FreshInv'
    BY DEF vars, serverVars, sessionVars, callVars, FreshInv, Fresh, Handling, OnWire, Has
  <2> QED
    BY <2>1, SessionsKeepFresh, CallsKeepFresh, ServerKeepsFresh DEF Next
<1> QED
  BY <1>1, <1>2, TypeCorrect, PTL DEF Spec

\* A response means that a Responder's handler has processed the request.
THEOREM NatsImplementsExchange == Spec => ImplementsExchange
<1>1. Init => Contract!Init
  BY NatsAssumption DEF Init, Contract!Init
<1>2. TypeOK /\ FreshInv /\ [Next]_vars
        => [Contract!Next]_<<[m \in Requests |-> call[m]], processed \cap Requests>>
  <2> SUFFICES ASSUME TypeOK, FreshInv, [Next]_vars,
                      ~ UNCHANGED <<[m \in Requests |-> call[m]], processed \cap Requests>>
               PROVE  Contract!Next
    OBVIOUS
  <2> USE NatsAssumption DEF TypeOK, serverVars, sessionVars, callVars
  <2>1. ASSUME NEW m \in Messages, Send(m) \/ SendFails(m) PROVE Contract!Next
    <3>1. m \in Requests
      BY <2>1 DEF Send, SendFails
    <3>2. Contract!Start(m)
      BY <2>1, <3>1 DEF Send, SendFails, Contract!Start
    <3> QED
      BY <3>1, <3>2 DEF Contract!Next
  <2>2. ASSUME NEW m \in Messages, Receive(m) \/ GiveUp(m) PROVE Contract!Next
    <3>1. m \in Requests
      BY <2>2 DEF Receive, GiveUp
    <3>2. m \in replies => m \in processed
      BY DEF FreshInv
    <3>3. Contract!Return(m)
      <4>1. CASE Receive(m)
        <5>1. PICK to \in {"ok", "failed"} : call' = [call EXCEPT ![m] = to]
          BY <4>1 DEF Receive
        <5>2. [n \in Requests |-> call'[n]] = [[n \in Requests |-> call[n]] EXCEPT ![m] = to]
          BY <3>1, <5>1
        <5>3. call[m] = "waiting" /\ m \in processed /\ UNCHANGED processed
          BY <4>1, <3>2 DEF Receive
        <5> QED
          BY <3>1, <5>1, <5>2, <5>3 DEF Contract!Return
      <4>2. CASE GiveUp(m)
        BY <4>2, <3>1 DEF GiveUp, Contract!Return
      <4> QED
        BY <2>2, <4>1, <4>2
    <3> QED
      BY <3>1, <3>3 DEF Contract!Next
  <2>3. ASSUME NEW s \in Sessions, HandlerReturn(s) PROVE Contract!Next
    <3>1. cb[s] \in Messages /\ Has(s, cb[s])
      <4>1. cb[s] # None /\ Handling(s)
        BY <2>3 DEF HandlerReturn, FreshInv
      <4>2. taken[s] \in Nat /\ Len(log[s]) \in Nat
        OBVIOUS
      <4> QED
        BY <4>1, <4>2 DEF Handling, Has
    <3>2. call[cb[s]] # "idle"
      BY <3>1 DEF FreshInv, Fresh
    <3>3. cb[s] \in Requests
      BY <2>3 DEF HandlerReturn
    <3>4. Contract!Process(cb[s])
      BY <2>3, <3>2, <3>3 DEF HandlerReturn, Contract!Process
    <3> QED
      BY <3>3, <3>4 DEF Contract!Next
  <2>4. ASSUME NEW s \in Sessions,
               \/ Subscribe(s) \/ SubscribeFails(s) \/ Flush(s) \/ SignalReady(s) \/ FlushFails(s)
               \/ Unsubscribe(s) \/ Take(s) \/ Cancel(s)
        PROVE  FALSE
    BY <2>4 DEF Subscribe, SubscribeFails, Flush, SignalReady, FlushFails, Unsubscribe, Take,
                Cancel
  <2>5. ASSUME NEW c \in Conns, Process(c) PROVE FALSE
    BY <2>5 DEF Process
  <2> QED
    BY <2>1, <2>2, <2>3, <2>4, <2>5 DEF Next, SessionStep, vars
<1> QED
  BY <1>1, <1>2, NothingUnsent, TypeCorrect, PTL DEF Spec, ImplementsExchange, Contract!Spec

-----------------------------------------------------------------------------
(* Readiness *)

\* The frame that the server has processed is gone; those behind it move up.
LEMMA FramesMoveUp ==
  ASSUME TypeOK, NEW c \in Conns, Process(c)
  PROVE  \A d \in Conns : \A i \in Nat \ {0} : \A f :
           At(d, i, f)' <=> At(d, IF d = c THEN i + 1 ELSE i, f)
  BY ReadOne DEF TypeOK, Process

\* A session's SUB is on its way or in the server's table; its PING is behind
\* it, and its UNSUB comes only when it ends.  So what a flushed session has
\* asked for is in the table.
HasSub(s) ==
  s \in interest \/ \E i \in Nat \ {0} : At(ConnOf[s], i, F("SUB", s))

PingAfterSub(s) ==
  \A d \in Conns : \A i \in Nat \ {0} :
    At(d, i, F("PING", s)) =>
      s \in interest \/ \E j \in 1 .. i - 1 : At(d, j, F("SUB", s))

NotAt(s, type) == \A d \in Conns : \A i \in Nat \ {0} : ~ At(d, i, F(type, s))

Informed(s) ==
  /\ session[s] \in {"idle", "subscribed"} => NotAt(s, "PING") /\ s \notin flushed
  /\ session[s] = "subscribed" => HasSub(s)
  /\ session[s] \in {"idle", "subscribed", "flushing", "ready"} => NotAt(s, "UNSUB")
  /\ session[s] \in {"flushing", "ready"} =>
       /\ PingAfterSub(s)
       /\ s \in flushed => s \in interest
  /\ session[s] = "ready" => s \in flushed
  /\ session[s] = "returned" => s \in cancelled
  /\ \A m \in Messages : s \in due[m] => session[s] \in {"ready", "returned"}

ListenInv == \A s \in Sessions : Informed(s)

\* What a session wants, its subscription covers.
LEMMA WantedIsCovered ==
  ASSUME NEW s \in Sessions, NEW m \in Messages, Wants(s, m)
  PROVE  Covers(s, m)
<1> DEFINE p == Path[s]
           x == SubjectOf[m]
<1>1. p \in Seq(Tokens) /\ x \in Seq(Tokens) /\ Len(p) \in Nat /\ Len(x) \in Nat
  BY NatsAssumption
<1>2. CASE s \in Whole
  <2>1. Len(x) > Len(p) /\ \A i \in 1 .. Len(p) : x[i] = p[i]
    BY <1>2 DEF Wants, Below
  <2>2. /\ Len(Append(p, ">")) = Len(p) + 1
        /\ Append(p, ">")[Len(p) + 1] = ">"
        /\ \A i \in 1 .. Len(p) : Append(p, ">")[i] = p[i]
    BY <1>1
  <2>3. Matches(Append(p, ">"), x)
    <3> HIDE DEF p, x
    <3>1. Len(x) >= Len(p) + 1
      BY <1>1, <2>1
    <3>2. \A i \in 1 .. (Len(p) + 1) - 1 : Append(p, ">")[i] = x[i]
      BY <1>1, <2>1, <2>2
    <3> QED
      BY <1>1, <2>2, <3>1, <3>2 DEF Matches
  <2> QED
    BY <1>2, <2>3 DEF Covers, Subject, All
<1>3. CASE s \notin Whole
  BY <1>3 DEF Wants, Covers, Subject, Matches
<1> QED
  BY <1>2, <1>3

\* What processing a frame does to the server's table and to the flushes.
LEMMA Serving ==
  ASSUME TypeOK, NEW c \in Conns, Process(c)
  PROVE  \/ \E u \in Sessions : /\ At(c, 1, F("SUB", u))
                                /\ interest' = interest \cup {u} /\ flushed' = flushed
         \/ \E u \in Sessions : /\ At(c, 1, F("UNSUB", u))
                                /\ interest' = interest \ {u} /\ flushed' = flushed
         \/ \E u \in Sessions : /\ At(c, 1, F("PING", u))
                                /\ interest' = interest /\ flushed' = flushed \cup {u}
         \/ \E m \in Messages : /\ At(c, 1, F("PUB", m))
                                /\ interest' = interest /\ flushed' = flushed
<1> DEFINE f == Head(wire[c])
<1>1. f \in Frame /\ At(c, 1, f)
  BY ReadOne DEF Process, TypeOK
<1>2. /\ f = F(f.type, f.of)
      /\ f.type = "PUB" => f.of \in Messages
      /\ f.type # "PUB" => f.of \in Sessions
  BY <1>1, FrameFields
<1>3. \/ f.type = "SUB" /\ interest' = interest \cup {f.of} /\ flushed' = flushed
      \/ f.type = "UNSUB" /\ interest' = interest \ {f.of} /\ flushed' = flushed
      \/ f.type = "PING" /\ interest' = interest /\ flushed' = flushed \cup {f.of}
      \/ f.type = "PUB" /\ interest' = interest /\ flushed' = flushed
  BY DEF Process
<1> HIDE DEF f
<1> QED
  BY <1>1, <1>2, <1>3

\* The server registers a session as its SUB frame comes off the connection.
LEMMA ServerKeepsListening ==
  ASSUME TypeOK, ListenInv, NEW c \in Conns, Process(c), NEW s \in Sessions
  PROVE  Informed(s)'
<1> USE DEF sessionVars, callVars
<1>1. UNCHANGED <<session, cancelled, due>>
  BY DEF Process
<1>2. Informed(s)
  BY DEF ListenInv
<1>3. ASSUME NEW type, NotAt(s, type) PROVE NotAt(s, type)'
  <2>1. ASSUME NEW d \in Conns, NEW i \in Nat \ {0}, At(d, i, F(type, s))' PROVE FALSE
    <3>1. At(d, IF d = c THEN i + 1 ELSE i, F(type, s))
      BY <2>1, FramesMoveUp
    <3>2. (IF d = c THEN i + 1 ELSE i) \in Nat \ {0}
      OBVIOUS
    <3> QED
      BY <1>3, <3>1, <3>2 DEF NotAt
  <2> QED
    BY <2>1 DEF NotAt
<1>4. s \in flushed' => s \in flushed \/ At(c, 1, F("PING", s))
  BY Serving
<1>5. session[s] \in {"subscribed", "flushing", "ready"} /\ s \in interest => s \in interest'
  <2>1. ASSUME NEW u \in Sessions, At(c, 1, F("UNSUB", u)),
               session[u] \in {"subscribed", "flushing", "ready"}
        PROVE  FALSE
    BY <2>1 DEF ListenInv, Informed, NotAt
  <2> QED
    BY <2>1, Serving
<1>6. At(c, 1, F("SUB", s)) => s \in interest'
  <2>1. ASSUME NEW t, NEW u, At(c, 1, F("SUB", s)), At(c, 1, F(t, u))
        PROVE  t = "SUB" /\ u = s
    <3>1. F("SUB", s) = F(t, u)
      BY <2>1 DEF At
    <3> QED
      BY <3>1, FramesDiffer
  <2> QED
    BY <2>1, Serving
<1>7. ASSUME session[s] \in {"flushing", "ready"} PROVE PingAfterSub(s)'
  <2> SUFFICES ASSUME NEW d \in Conns, NEW i \in Nat \ {0}, At(d, i, F("PING", s))',
                      s \notin interest'
               PROVE  \E j \in 1 .. i - 1 : At(d, j, F("SUB", s))'
    BY DEF PingAfterSub
  <2> DEFINE k == IF d = c THEN i + 1 ELSE i
  <2>1. At(d, k, F("PING", s)) /\ k \in Nat \ {0}
    BY FramesMoveUp
  <2>2. s \notin interest
    BY <1>5, <1>7
  <2>3. PICK j \in 1 .. k - 1 : At(d, j, F("SUB", s))
    BY <1>2, <1>7, <2>1, <2>2 DEF Informed, PingAfterSub
  <2>4. CASE d = c
    <3>1. j # 1
      BY <1>6, <2>3, <2>4
    <3>2. j - 1 \in 1 .. i - 1 /\ j - 1 \in Nat \ {0} /\ (j - 1) + 1 = j
      BY <2>4, <3>1
    <3>3. At(d, j - 1, F("SUB", s))'
      BY <2>3, <2>4, <3>2, FramesMoveUp
    <3> QED
      BY <3>2, <3>3
  <2>5. CASE d # c
    <3>1. j \in 1 .. i - 1 /\ j \in Nat \ {0}
      BY <2>5
    <3>2. At(d, j, F("SUB", s))'
      BY <2>3, <2>5, <3>1, FramesMoveUp
    <3> QED
      BY <3>1, <3>2
  <2> QED
    BY <2>4, <2>5
<1>8. session[s] \in {"flushing", "ready"} /\ At(c, 1, F("PING", s)) => s \in interest
  BY <1>2 DEF Informed, PingAfterSub
<1>9. s \in flushed => s \in flushed'
  BY Serving
<1>10. session[s] \in {"idle", "subscribed"} => ~ At(c, 1, F("PING", s))
  BY <1>2 DEF Informed, NotAt
<1>11. ASSUME session[s] = "subscribed" PROVE HasSub(s)'
  <2>1. CASE s \in interest
    BY <1>5, <1>11, <2>1 DEF HasSub
  <2>2. CASE s \notin interest
    <3>1. PICK i \in Nat \ {0} : At(ConnOf[s], i, F("SUB", s))
      BY <1>2, <1>11, <2>2 DEF Informed, HasSub
    <3>2. CASE ConnOf[s] = c /\ i = 1
      BY <1>6, <3>1, <3>2 DEF HasSub
    <3>3. CASE ConnOf[s] # c
      <4>1. At(ConnOf[s], i, F("SUB", s))'
        BY <3>1, <3>3, ConnTypes, FramesMoveUp
      <4> QED
        BY <4>1 DEF HasSub
    <3>4. CASE ConnOf[s] = c /\ i # 1
      <4>1. i - 1 \in Nat \ {0} /\ (i - 1) + 1 = i
        BY <3>4
      <4>2. At(ConnOf[s], i - 1, F("SUB", s))'
        BY <3>1, <3>4, <4>1, ConnTypes, FramesMoveUp
      <4> QED
        BY <4>1, <4>2 DEF HasSub
    <3> QED
      BY <3>2, <3>3, <3>4
  <2> QED
    BY <2>1, <2>2
<1>12. CASE session[s] \in {"idle", "subscribed"}
  BY <1>1, <1>2, <1>3, <1>4, <1>10, <1>11, <1>12 DEF Informed
<1>13. CASE session[s] \in {"flushing", "ready"}
  BY <1>1, <1>2, <1>3, <1>4, <1>5, <1>7, <1>8, <1>9, <1>13 DEF Informed
<1>14. CASE session[s] \notin {"idle", "subscribed", "flushing", "ready"}
  BY <1>1, <1>2, <1>14 DEF Informed
<1> QED
  BY <1>12, <1>13, <1>14

\* A step of one session leaves what is said of the others.
LEMMA OtherSessionsListen ==
  ASSUME TypeOK, ListenInv, NEW s \in Sessions, SessionStep(s) \/ Cancel(s),
         NEW t \in Sessions, t # s
  PROVE  Informed(t)'
<1> USE DEF serverVars, sessionVars, callVars
<1>1. /\ UNCHANGED <<interest, flushed, due>>
      /\ session'[t] = session[t]
      /\ t \in cancelled => t \in cancelled'
  BY DEF SessionStep, Cancel, Subscribe, SubscribeFails, Flush, SignalReady, FlushFails,
         Unsubscribe, Take, HandlerReturn, TypeOK
<1>2. ASSUME NEW type
      PROVE  \A d \in Conns : \A i \in Nat : At(d, i, F(type, t))' <=> At(d, i, F(type, t))
  <2>1. F(type, t) \notin {F("SUB", s), F("PING", s), F("UNSUB", s)}
    BY FramesDiffer
  <2> QED
    BY <2>1, SessionFrames
<1>3. \A type : NotAt(t, type)' <=> NotAt(t, type)
  BY <1>2 DEF NotAt
<1>4. PingAfterSub(t) => PingAfterSub(t)'
  <2> SUFFICES ASSUME PingAfterSub(t), NEW d \in Conns, NEW i \in Nat \ {0},
                      At(d, i, F("PING", t))', t \notin interest
               PROVE  \E j \in 1 .. i - 1 : At(d, j, F("SUB", t))'
    BY <1>1 DEF PingAfterSub
  <2>1. PICK j \in 1 .. i - 1 : At(d, j, F("SUB", t))
    BY <1>2 DEF PingAfterSub
  <2> QED
    BY <1>2, <2>1
<1>5. HasSub(t) => HasSub(t)'
  BY <1>1, <1>2, ConnTypes DEF HasSub
<1>6. Informed(t)
  BY DEF ListenInv
<1> QED
  BY <1>1, <1>3, <1>4, <1>5, <1>6 DEF Informed

\* A session writes SUB before the PING it waits for, and is ready after the PONG.
LEMMA SessionListens ==
  ASSUME TypeOK, ListenInv, NEW s \in Sessions, SessionStep(s) \/ Cancel(s)
  PROVE  Informed(s)'
<1> USE DEF serverVars, sessionVars, callVars
<1>1. Informed(s)
  BY DEF ListenInv
<1> DEFINE c == ConnOf[s]
           n == Len(wire[c])
<1>2. c \in Conns /\ n \in Nat
  BY ConnTypes DEF TypeOK
<1>3. CASE Subscribe(s)
  <2>1. \A d \in Conns : \A i \in Nat : \A f :
          At(d, i, f)' <=> At(d, i, f) \/ (d = c /\ i = n + 1 /\ f = F("SUB", s))
    BY <1>2, <1>3, FrameTypes, WriteOne DEF Subscribe, TypeOK
  <2>2. NotAt(s, "PING")' /\ NotAt(s, "UNSUB")'
    BY <1>1, <1>3, <2>1, FramesDiffer DEF Subscribe, Informed, NotAt
  <2>3. HasSub(s)'
    BY <1>2, <2>1 DEF HasSub
  <2>4. session'[s] = "subscribed" /\ UNCHANGED <<flushed, due>>
    BY <1>3 DEF Subscribe, TypeOK
  <2>5. s \notin flushed /\ \A m \in Messages : s \notin due[m]
    BY <1>1, <1>3 DEF Subscribe, Informed
  <2> QED
    BY <2>2, <2>3, <2>4, <2>5 DEF Informed
<1>4. CASE Flush(s)
  <2>1. \A d \in Conns : \A i \in Nat : \A f :
          At(d, i, f)' <=> At(d, i, f) \/ (d = c /\ i = n + 1 /\ f = F("PING", s))
    BY <1>2, <1>4, FrameTypes, WriteOne DEF Flush, TypeOK
  <2>2. NotAt(s, "PING") /\ NotAt(s, "UNSUB") /\ s \notin flushed /\ HasSub(s)
    BY <1>1, <1>4 DEF Flush, Informed
  <2>3. NotAt(s, "UNSUB")'
    BY <2>1, <2>2, FramesDiffer DEF NotAt
  <2>4. PingAfterSub(s)'
    <3> SUFFICES ASSUME NEW d \in Conns, NEW i \in Nat \ {0}, At(d, i, F("PING", s))',
                        s \notin interest
                 PROVE  \E j \in 1 .. i - 1 : At(d, j, F("SUB", s))'
      BY <1>4 DEF PingAfterSub, Flush
    <3>1. d = c /\ i = n + 1
      BY <2>1, <2>2 DEF NotAt
    <3>2. PICK j \in Nat \ {0} : At(c, j, F("SUB", s))
      BY <2>2 DEF HasSub
    <3>3. j <= n
      BY <1>2, <3>2, AtIsPosition DEF TypeOK
    <3>4. At(c, j, F("SUB", s))'
      BY <1>2, <2>1, <3>2
    <3>5. j \in 1 .. i - 1
      BY <1>2, <3>1, <3>2, <3>3
    <3> QED
      BY <3>1, <3>4, <3>5
  <2>5. session'[s] = "flushing" /\ UNCHANGED <<flushed, due>>
    BY <1>4 DEF Flush, TypeOK
  <2>6. \A m \in Messages : s \notin due[m]
    BY <1>1, <1>4 DEF Flush, Informed
  <2> QED
    BY <2>2, <2>3, <2>4, <2>5, <2>6 DEF Informed
<1>5. CASE FlushFails(s) \/ Unsubscribe(s) \/ SubscribeFails(s)
  <2>1. \/ session'[s] = "failed" /\ session[s] \in {"idle", "flushing"}
        \/ session'[s] = "returned" /\ s \in cancelled
    BY <1>5 DEF FlushFails, Unsubscribe, SubscribeFails, TypeOK
  <2>2. UNCHANGED <<cancelled, due>>
    BY <1>5 DEF FlushFails, Unsubscribe, SubscribeFails
  <2> QED
    BY <1>1, <2>1, <2>2 DEF Informed
<1>6. CASE SignalReady(s) \/ Cancel(s) \/ Take(s) \/ HandlerReturn(s)
  <2>1. /\ UNCHANGED <<wire, interest, flushed, due>>
        /\ s \in cancelled => s \in cancelled'
        /\ \/ session'[s] = session[s]
           \/ session[s] = "flushing" /\ session'[s] = "ready" /\ s \in flushed
    BY <1>6 DEF SignalReady, Cancel, Take, HandlerReturn, TypeOK
  <2>2. \A type : NotAt(s, type)' <=> NotAt(s, type)
    BY <2>1 DEF NotAt, At
  <2>3. /\ PingAfterSub(s)' <=> PingAfterSub(s)
        /\ HasSub(s)' <=> HasSub(s)
    BY <2>1 DEF PingAfterSub, HasSub, At
  <2> QED
    BY <1>1, <2>1, <2>2, <2>3 DEF Informed
<1> QED
  BY <1>3, <1>4, <1>5, <1>6 DEF SessionStep

\* A publish writes behind what the sessions of its connection have written.
LEMMA CallsKeepListening ==
  ASSUME TypeOK, ListenInv, NEW m \in Messages,
         Send(m) \/ SendFails(m) \/ Receive(m) \/ GiveUp(m), NEW s \in Sessions
  PROVE  Informed(s)'
<1> USE DEF serverVars, sessionVars
<1>1. UNCHANGED <<interest, flushed, session, cancelled>>
  BY DEF Send, SendFails, Receive, GiveUp
<1>2. \A n \in Messages : s \in due'[n] => s \in due[n] \/ session[s] = "ready"
  <2>1. CASE Send(m)
    BY <2>1 DEF Send, TypeOK
  <2>2. CASE SendFails(m) \/ Receive(m) \/ GiveUp(m)
    BY <2>2 DEF SendFails, Receive, GiveUp
  <2> QED
    BY <2>1, <2>2
<1>3. ASSUME NEW type, type # "PUB"
      PROVE  \A d \in Conns : \A i \in Nat : At(d, i, F(type, s))' <=> At(d, i, F(type, s))
  <2>1. F(type, s) # F("PUB", m)
    BY <1>3, FramesDiffer
  <2>2. CASE Send(m)
    BY <2>1, <2>2, SendFrames
  <2>3. CASE UNCHANGED wire
    BY <2>3 DEF At
  <2> QED
    BY <2>2, <2>3 DEF SendFails, Receive, GiveUp
<1>4. /\ NotAt(s, "PING")' <=> NotAt(s, "PING")
      /\ NotAt(s, "UNSUB")' <=> NotAt(s, "UNSUB")
  BY <1>3 DEF NotAt
<1>5. PingAfterSub(s) => PingAfterSub(s)'
  <2> SUFFICES ASSUME PingAfterSub(s), NEW d \in Conns, NEW i \in Nat \ {0},
                      At(d, i, F("PING", s))', s \notin interest
               PROVE  \E j \in 1 .. i - 1 : At(d, j, F("SUB", s))'
    BY <1>1 DEF PingAfterSub
  <2>1. PICK j \in 1 .. i - 1 : At(d, j, F("SUB", s))
    BY <1>3 DEF PingAfterSub
  <2> QED
    BY <1>3, <2>1
<1>6. HasSub(s) => HasSub(s)'
  BY <1>1, <1>3, ConnTypes DEF HasSub
<1>7. Informed(s)
  BY DEF ListenInv
<1> QED
  BY <1>1, <1>2, <1>4, <1>5, <1>6, <1>7 DEF Informed

\* What a session has been told agrees with what the server knows of it.
LEMMA ListeningInductive == Spec => []ListenInv
<1>1. Init => ListenInv
  BY DEF Init, ListenInv, Informed, NotAt, At
<1>2. TypeOK /\ ListenInv /\ [Next]_vars => ListenInv'
  <2> SUFFICES ASSUME TypeOK, ListenInv, [Next]_vars, NEW s \in Sessions
               PROVE  Informed(s)'
    BY DEF ListenInv
  <2>1. CASE UNCHANGED vars
    BY <2>1 DEF vars, serverVars, sessionVars, callVars, ListenInv, Informed, NotAt,
                PingAfterSub, HasSub, At
  <2> QED
    BY <2>1, ServerKeepsListening, OtherSessionsListen, SessionListens, CallsKeepListening
       DEF Next
<1> QED
  BY <1>1, <1>2, TypeCorrect, PTL DEF Spec

\* Only the server's step takes a message off the wire, from the front.
LEMMA LeavesByFront ==
  ASSUME TypeOK, TypeOK', NEW c \in Conns, Process(c), NEW n \in Messages,
         OnWire(n), ~ OnWire(n)'
  PROVE  At(c, 1, F("PUB", n))
<1>1. PICK d \in Conns, i \in Nat \ {0} : At(d, i, F("PUB", n))
  BY OnWireAt
<1>2. CASE d = c /\ i = 1
  BY <1>1, <1>2
<1>3. CASE d # c
  <2>1. At(d, i, F("PUB", n))'
    BY <1>1, <1>3, FramesMoveUp
  <2> QED
    BY <2>1, OnWireAtNext
<1>4. CASE d = c /\ i # 1
  <2>1. i - 1 \in Nat \ {0} /\ (i - 1) + 1 = i
    BY <1>4
  <2>2. At(d, i - 1, F("PUB", n))'
    BY <1>1, <1>4, <2>1, FramesMoveUp
  <2> QED
    BY <2>1, <2>2, OnWireAtNext
<1> QED
  BY <1>2, <1>3, <1>4

\* A delivery reaches every ready session that the subject concerns.
LEMMA ServerKeepsPromise ==
  ASSUME TypeOK, TypeOK', ListenInv, ReadyReceives, NEW c \in Conns, Process(c)
  PROVE  ReadyReceives'
<1> USE DEF sessionVars, callVars
<1> SUFFICES ASSUME NEW n \in Messages, NEW s \in due'[n] \ cancelled', Wants(s, n),
                    ~ OnWire(n)'
             PROVE  \E t \in Sessions :
                      Has(t, n)' /\ (t = s \/ (Group[s] # None /\ Group[t] = Group[s]))
  BY DEF ReadyReceives, Wants
<1>1. UNCHANGED <<session, cancelled, due>>
  BY DEF Process
<1>2. s \in Sessions /\ s \in due[n] \ cancelled
  BY <1>1 DEF TypeOK
<1>3. log \in [Sessions -> Seq(Messages)]
  BY DEF TypeOK
<1>4. CASE ~ OnWire(n)
  <2>1. PICK t \in Sessions :
          Has(t, n) /\ (t = s \/ (Group[s] # None /\ Group[t] = Group[s]))
    BY <1>2, <1>4 DEF ReadyReceives
  <2>2. ASSUME log' = log PROVE Has(t, n)'
    BY <2>1, <2>2 DEF Has
  <2>3. ASSUME NEW m \in Messages, NEW A \in Audiences(m), At(c, 1, F("PUB", m)),
               log' = [u \in Sessions |-> IF u \in A THEN Append(log[u], m) ELSE log[u]]
        PROVE  Has(t, n)'
    BY <1>3, <2>1, <2>3, Delivering
  <2>4. Has(t, n)'
    BY <2>2, <2>3, Processing
  <2> QED
    BY <2>1, <2>4
<1>5. CASE OnWire(n)
  <2>1. At(c, 1, F("PUB", n))
    BY <1>5, LeavesByFront
  <2>2. PICK m \in Messages : \E A \in Audiences(m) :
          /\ At(c, 1, F("PUB", m))
          /\ log' = [u \in Sessions |-> IF u \in A THEN Append(log[u], m) ELSE log[u]]
    BY <2>1, Processing
  <2>3. PICK A \in Audiences(m) :
          log' = [u \in Sessions |-> IF u \in A THEN Append(log[u], m) ELSE log[u]]
    BY <2>2
  <2>4. m = n
    <3>1. F("PUB", m) = F("PUB", n)
      BY <2>1, <2>2 DEF At
    <3> QED
      BY <3>1, FramesDiffer
  <2>5. s \in interest
    BY <1>2 DEF ListenInv, Informed
  <2>6. Covers(s, n)
    BY <1>2, WantedIsCovered
  <2>7. PICK t \in A : t = s \/ (Group[s] # None /\ Group[t] = Group[s])
    <3>1. IF Group[s] = None THEN s \in A
          ELSE \E t \in A : {u \in A : Group[u] = Group[s]} = {t}
      BY <2>3, <2>4, <2>5, <2>6 DEF Audiences
    <3> QED
      BY <3>1
  <2>8. t \in Sessions
    BY <2>3, <2>7 DEF Audiences, TypeOK
  <2>9. Has(t, n)'
    BY <1>3, <2>3, <2>4, <2>7, <2>8, Delivering
  <2> QED
    BY <2>7, <2>8, <2>9
<1> QED
  BY <1>4, <1>5

\* Nothing else takes a message from a session that was promised it.
LEMMA OthersKeepPromise ==
  ASSUME TypeOK, TypeOK', ReadyReceives,
         \/ \E s \in Sessions : SessionStep(s) \/ Cancel(s)
         \/ \E m \in Messages : Send(m) \/ SendFails(m) \/ Receive(m) \/ GiveUp(m)
         \/ UNCHANGED vars
  PROVE  ReadyReceives'
<1> USE DEF serverVars, sessionVars, callVars
<1>1. log' = log /\ cancelled \subseteq cancelled'
  BY DEF SessionStep, Cancel, Subscribe, SubscribeFails, Flush, SignalReady, FlushFails,
         Unsubscribe, Take, HandlerReturn, Send, SendFails, Receive, GiveUp, vars
<1>2. \A s, m : Has(s, m)' <=> Has(s, m)
  BY <1>1 DEF Has
<1>3. ASSUME NEW n \in Messages, ~ OnWire(n)' PROVE due'[n] = due[n] /\ ~ OnWire(n)
  <2>1. CASE \E m \in Messages : Send(m)
    <3>1. PICK m \in Messages : Send(m)
      BY <2>1
    <3>2. n # m /\ ~ OnWire(n)
      BY <1>3, <3>1, OnWireSteps
    <3> QED
      BY <3>1, <3>2 DEF Send, TypeOK
  <2>2. CASE \E s \in Sessions : SessionStep(s) \/ Cancel(s)
    <3>1. ~ OnWire(n)
      BY <1>3, <2>2, OnWireSteps
    <3>2. due' = due
      BY <2>2 DEF SessionStep, Cancel, Subscribe, SubscribeFails, Flush, SignalReady,
                  FlushFails, Unsubscribe, Take, HandlerReturn
    <3> QED
      BY <3>1, <3>2
  <2>3. CASE UNCHANGED <<wire, due>>
    BY <1>3, <2>3 DEF OnWire
  <2> QED
    BY <2>1, <2>2, <2>3 DEF SendFails, Receive, GiveUp, vars
<1> QED
  BY <1>1, <1>2, <1>3 DEF ReadyReceives, Wants

\* The promise of ready(): the SUB of a ready session is processed, so a message
\* sent afterwards on any connection reaches it or a member of its group.
THEOREM ReadySessionsReceive == Spec => []ReadyReceives
<1>1. Init => ReadyReceives
  BY DEF Init, ReadyReceives
<1>2. TypeOK /\ TypeOK' /\ ListenInv /\ ReadyReceives /\ [Next]_vars => ReadyReceives'
  BY ServerKeepsPromise, OthersKeepPromise DEF Next
<1> QED
  BY <1>1, <1>2, TypeCorrect, ListeningInductive, PTL DEF Spec

-----------------------------------------------------------------------------
(* Order *)

IsSent(m) == \E k \in 1 .. Len(sent) : sent[k] = m

\* Messages are on their own connection, in the order they were sent in, behind
\* what was delivered from it.
FramesInOrder ==
  \A c \in Conns : \A i, j \in Nat \ {0} : \A m, n \in Messages :
    i < j /\ At(c, i, F("PUB", m)) /\ At(c, j, F("PUB", n)) => SentBefore(m, n)

OwnConn ==
  \A c \in Conns : \A i \in Nat \ {0} : \A m \in Messages :
    At(c, i, F("PUB", m)) => c = ConnOf[m] /\ IsSent(m)

LogsBeforeFrames ==
  \A s \in Sessions : \A m, n \in Messages :
    Has(s, m) /\ OnWire(n) /\ ConnOf[m] = ConnOf[n] => SentBefore(m, n)

LogsAreSent == \A s \in Sessions : \A m \in Messages : Has(s, m) => IsSent(m)

LogsInOrder ==
  \A s \in Sessions : \A i, j \in 1 .. Len(log[s]) :
    i < j /\ ConnOf[log[s][i]] = ConnOf[log[s][j]] => SentBefore(log[s][i], log[s][j])

OrderInv == FramesInOrder /\ OwnConn /\ LogsBeforeFrames /\ LogsAreSent /\ LogsInOrder

\* The server delivers in the order of the frames on a connection.
LEMMA ServerKeepsOrder ==
  ASSUME TypeOK, TypeOK', OrderInv, NEW c \in Conns, Process(c)
  PROVE  OrderInv'
<1> USE DEF callVars
<1>1. sent' = sent
  BY DEF Process
<1>2. /\ \A m, n : SentBefore(m, n)' <=> SentBefore(m, n)
      /\ \A m : IsSent(m)' <=> IsSent(m)
  BY <1>1 DEF SentBefore, IsSent
<1>3. FramesInOrder'
  <2> SUFFICES ASSUME NEW d \in Conns, NEW i \in Nat \ {0}, NEW j \in Nat \ {0},
                      NEW m \in Messages, NEW n \in Messages,
                      i < j, At(d, i, F("PUB", m))', At(d, j, F("PUB", n))'
               PROVE  SentBefore(m, n)
    BY <1>2 DEF FramesInOrder
  <2> DEFINE Old(k) == IF d = c THEN k + 1 ELSE k
  <2>1. At(d, Old(i), F("PUB", m)) /\ At(d, Old(j), F("PUB", n))
    BY FramesMoveUp
  <2>2. Old(i) \in Nat \ {0} /\ Old(j) \in Nat \ {0} /\ Old(i) < Old(j)
    OBVIOUS
  <2> HIDE DEF Old
  <2> QED
    BY <2>1, <2>2 DEF OrderInv, FramesInOrder
<1>4. OwnConn'
  <2> SUFFICES ASSUME NEW d \in Conns, NEW i \in Nat \ {0}, NEW m \in Messages,
                      At(d, i, F("PUB", m))'
               PROVE  d = ConnOf[m] /\ IsSent(m)
    BY <1>2 DEF OwnConn
  <2>1. At(d, IF d = c THEN i + 1 ELSE i, F("PUB", m))
    BY FramesMoveUp
  <2>2. (IF d = c THEN i + 1 ELSE i) \in Nat \ {0}
    OBVIOUS
  <2> QED
    BY <2>1, <2>2 DEF OrderInv, OwnConn
<1>5. \A n \in Messages : OnWire(n)' => OnWire(n)
  BY OnWireSteps
<1>6. CASE log' = log
  <2>1. \A s, m : Has(s, m)' <=> Has(s, m)
    BY <1>6 DEF Has
  <2> QED
    BY <1>2, <1>3, <1>4, <1>5, <1>6, <2>1
       DEF OrderInv, LogsBeforeFrames, LogsAreSent, LogsInOrder
<1>7. ASSUME NEW m \in Messages, NEW A \in Audiences(m), At(c, 1, F("PUB", m)),
             log' = [s \in Sessions |-> IF s \in A THEN Append(log[s], m) ELSE log[s]]
      PROVE  OrderInv'
  <2>1. log \in [Sessions -> Seq(Messages)]
    BY DEF TypeOK
  <2>2. ASSUME NEW s \in Sessions, NEW n \in Messages
        PROVE  Has(s, n)' <=> Has(s, n) \/ (s \in A /\ n = m)
    BY <1>7, <2>1, Delivering
  <2>3. OnWire(m) /\ ConnOf[m] = c /\ IsSent(m)
    BY <1>7, OnWireAt DEF OrderInv, OwnConn
  <2>4. ASSUME NEW n \in Messages, OnWire(n)', ConnOf[n] = c PROVE SentBefore(m, n)
    <3>1. PICK d \in Conns, i \in Nat \ {0} : At(d, i, F("PUB", n))'
      BY <2>4, OnWireAtNext
    <3>2. d = c
      BY <1>4, <2>4, <3>1 DEF OwnConn
    <3>3. At(c, i + 1, F("PUB", n)) /\ i + 1 \in Nat \ {0} /\ 1 < i + 1
      BY <3>1, <3>2, FramesMoveUp
    <3> QED
      BY <1>7, <3>3 DEF OrderInv, FramesInOrder
  <2>5. LogsBeforeFrames'
    BY <1>2, <1>5, <2>2, <2>3, <2>4 DEF OrderInv, LogsBeforeFrames
  <2>6. LogsAreSent'
    BY <1>2, <2>2, <2>3 DEF OrderInv, LogsAreSent
  <2>7. LogsInOrder'
    <3> SUFFICES ASSUME NEW s \in Sessions,
                        NEW i \in 1 .. Len(log'[s]), NEW j \in 1 .. Len(log'[s]),
                        i < j, ConnOf[log'[s][i]] = ConnOf[log'[s][j]]
                 PROVE  SentBefore(log'[s][i], log'[s][j])
      BY <1>2 DEF LogsInOrder
    <3>1. /\ Len(log[s]) \in Nat
          /\ Len(log'[s]) = IF s \in A THEN Len(log[s]) + 1 ELSE Len(log[s])
          /\ \A k \in 1 .. Len(log[s]) : log'[s][k] = log[s][k]
          /\ s \in A => log'[s][Len(log[s]) + 1] = m
      BY <1>7, <2>1, Delivering
    <3>2. i \in 1 .. Len(log[s]) /\ log'[s][i] = log[s][i]
      BY <3>1
    <3>3. CASE j \in 1 .. Len(log[s])
      BY <3>1, <3>2, <3>3 DEF OrderInv, LogsInOrder
    <3>4. CASE j \notin 1 .. Len(log[s])
      <4>1. log'[s][j] = m
        BY <3>1, <3>4
      <4>2. log[s][i] \in Messages /\ Has(s, log[s][i])
        BY <2>1, <3>2 DEF Has
      <4> QED
        BY <2>3, <3>2, <4>1, <4>2 DEF OrderInv, LogsBeforeFrames
    <3> QED
      BY <3>3, <3>4
  <2> QED
    BY <1>3, <1>4, <2>5, <2>6, <2>7 DEF OrderInv
<1> QED
  BY <1>6, <1>7, Processing

\* A new frame goes behind the older frames of its connection.
LEMMA SendKeepsOrder ==
  ASSUME TypeOK, TypeOK', OrderInv, NEW m \in Messages, Send(m)
  PROVE  OrderInv'
<1>1. PICK len \in Nat : len = Len(sent)
  BY DEF TypeOK
<1>2. /\ Len(sent') = len + 1
      /\ \A k \in 1 .. len : sent'[k] = sent[k]
      /\ sent'[len + 1] = m
  BY <1>1 DEF Send, TypeOK
<1>3. \A k, n : SentBefore(k, n) => SentBefore(k, n)'
  BY <1>1, <1>2 DEF SentBefore
<1>4. IsSent(m)' /\ \A n : IsSent(n) => IsSent(n)' /\ SentBefore(n, m)'
  <2>1. IsSent(m)'
    BY <1>2 DEF IsSent
  <2>2. ASSUME NEW n, IsSent(n) PROVE IsSent(n)' /\ SentBefore(n, m)'
    <3>1. PICK k \in 1 .. len : sent[k] = n
      BY <1>1, <2>2 DEF IsSent
    <3>2. k \in 1 .. Len(sent') /\ len + 1 \in 1 .. Len(sent') /\ k < len + 1 /\ sent'[k] = n
      BY <1>2, <3>1
    <3> QED
      BY <1>2, <3>2 DEF IsSent, SentBefore
  <2> QED
    BY <2>1, <2>2
<1>5. PICK w \in Nat : w = Len(wire[ConnOf[m]])
  <2>1. wire[ConnOf[m]] \in Seq(Frame)
    BY ConnTypes DEF TypeOK
  <2> QED
    BY <2>1
<1>6. \A d \in Conns : \A i \in Nat : \A f :
        At(d, i, f)' <=> At(d, i, f) \/ (d = ConnOf[m] /\ i = w + 1 /\ f = F("PUB", m))
  BY <1>5, SendFrames
<1>7. FramesInOrder'
  <2> SUFFICES ASSUME NEW d \in Conns, NEW i \in Nat \ {0}, NEW j \in Nat \ {0},
                      NEW k \in Messages, NEW n \in Messages,
                      i < j, At(d, i, F("PUB", k))', At(d, j, F("PUB", n))'
               PROVE  SentBefore(k, n)'
    BY DEF FramesInOrder
  <2>1. CASE At(d, i, F("PUB", k)) /\ At(d, j, F("PUB", n))
    BY <1>3, <2>1 DEF OrderInv, FramesInOrder
  <2>2. CASE ~ At(d, j, F("PUB", n))
    <3>1. d = ConnOf[m] /\ j = w + 1 /\ n = m
      BY <1>6, <2>2, FramesDiffer
    <3>2. At(d, i, F("PUB", k))
      BY <1>6, <3>1
    <3>3. IsSent(k)
      BY <3>2 DEF OrderInv, OwnConn
    <3> QED
      BY <1>4, <3>1, <3>3
  <2>3. CASE ~ At(d, i, F("PUB", k)) /\ At(d, j, F("PUB", n))
    <3>1. d = ConnOf[m] /\ i = w + 1
      BY <1>6, <2>3
    <3>2. j <= w
      BY <1>5, <2>3, <3>1, AtIsPosition DEF TypeOK
    <3> QED
      BY <3>1, <3>2
  <2> QED
    BY <2>1, <2>2, <2>3
<1>8. OwnConn'
  BY <1>4, <1>6, FramesDiffer DEF OrderInv, OwnConn
<1>9. \A s, n : Has(s, n)' <=> Has(s, n)
  BY DEF Send, serverVars, Has
<1>10. \A n : OnWire(n)' <=> OnWire(n) \/ n = m
  BY OnWireSteps
<1>11. LogsBeforeFrames' /\ LogsAreSent'
  BY <1>3, <1>4, <1>9, <1>10 DEF OrderInv, LogsBeforeFrames, LogsAreSent
<1>12. LogsInOrder'
  BY <1>3 DEF OrderInv, LogsInOrder, Send, serverVars
<1> QED
  BY <1>7, <1>8, <1>11, <1>12 DEF OrderInv

\* No other step moves a published frame or a log.
LEMMA OthersKeepOrder ==
  ASSUME TypeOK, TypeOK', OrderInv,
         \/ \E s \in Sessions : SessionStep(s) \/ Cancel(s)
         \/ \E m \in Messages : SendFails(m) \/ Receive(m) \/ GiveUp(m)
         \/ UNCHANGED vars
  PROVE  OrderInv'
<1> USE DEF serverVars, sessionVars, callVars
<1>1. log' = log /\ sent' = sent
  BY DEF SessionStep, Cancel, Subscribe, SubscribeFails, Flush, SignalReady, FlushFails,
         Unsubscribe, Take, HandlerReturn, SendFails, Receive, GiveUp, vars
<1>2. \A d \in Conns : \A i \in Nat : \A m : At(d, i, F("PUB", m))' <=> At(d, i, F("PUB", m))
  <2>1. CASE UNCHANGED wire
    BY <2>1 DEF At
  <2>2. CASE \E s \in Sessions : SessionStep(s) \/ Cancel(s)
    BY <2>2, PublishedFrames
  <2> QED
    BY <2>1, <2>2 DEF SendFails, Receive, GiveUp, vars
<1>3. \A m : OnWire(m)' <=> OnWire(m)
  BY <1>2, OnWireAt, OnWireAtNext
<1>4. /\ \A s, m : Has(s, m)' <=> Has(s, m)
      /\ \A m : IsSent(m)' <=> IsSent(m)
      /\ \A m, n : SentBefore(m, n)' <=> SentBefore(m, n)
  BY <1>1 DEF Has, IsSent, SentBefore
<1>5. FramesInOrder' /\ OwnConn'
  BY <1>2, <1>4 DEF OrderInv, FramesInOrder, OwnConn
<1>6. LogsBeforeFrames' /\ LogsAreSent' /\ LogsInOrder'
  BY <1>1, <1>3, <1>4 DEF OrderInv, LogsBeforeFrames, LogsAreSent, LogsInOrder
<1> QED
  BY <1>5, <1>6 DEF OrderInv

\* Frames and logs of one connection are in the order of the sends.
LEMMA OrderInductive == Spec => []OrderInv
<1>1. Init => OrderInv
  BY DEF Init, OrderInv, FramesInOrder, OwnConn, LogsBeforeFrames, LogsAreSent, LogsInOrder,
         At, Has
<1>2. TypeOK /\ TypeOK' /\ OrderInv /\ [Next]_vars => OrderInv'
  BY ServerKeepsOrder, SendKeepsOrder, OthersKeepOrder DEF Next
<1> QED
  BY <1>1, <1>2, TypeCorrect, PTL DEF Spec

\* Per connection, at most once and in the order of the Publish calls; and the
\* handler runs on the message that was taken last.
THEOREM InOrderAtMostOnce == Spec => []InOrderOnce
<1>1. OrderInv /\ FreshInv => InOrderOnce
  BY DEF OrderInv, LogsInOrder, FreshInv, Handling, InOrderOnce
<1> QED
  BY <1>1, OrderInductive, NothingUnsent, PTL
=============================================================================
