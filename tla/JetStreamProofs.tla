--------------------------- MODULE JetStreamProofs ---------------------------
(* Proofs about JetStreamConsumer, for every value of its constants. *)
EXTENDS JetStreamConsumer, FiniteSetTheorems, TLAPS

USE ConstantsAssumption

-----------------------------------------------------------------------------
(* Types *)

LEMMA TypeInit == Init => TypeOK
  BY DEF Init, TypeOK, Delivery

\* What Sends and Refuses may do.
LEMMA SendsType ==
  ASSUME TypeOK, NEW w \in Workers, NEW type \in {"ack", "nak", "nakDelay", "term"},
         Sends(w, type) \/ Refuses(w)
  PROVE  /\ wire' \in SUBSET Settlement
         /\ sent' \in SUBSET Settlement
         /\ settled' \in [Workers -> BOOLEAN]
         /\ faults' \in Nat
  <1>1. [type |-> type, m |-> job[w].m, dc |-> job[w].dc] \in Settlement
    BY DEF TypeOK, Settlement, Delivery
  <1>2. faults \in Nat /\ faults' \in Nat
    BY DEF TypeOK, Sends, Refuses, Fault, NoFault
  <1>3. CASE Refuses(w)
    BY <1>2, <1>3 DEF TypeOK, Refuses
  <1>4. CASE Sends(w, type)
    <2>1. /\ wire' = wire \cup {[type |-> type, m |-> job[w].m, dc |-> job[w].dc]}
          /\ sent' = sent \cup {[type |-> type, m |-> job[w].m, dc |-> job[w].dc]}
          /\ settled' = [settled EXCEPT ![w] = TRUE]
      BY <1>4 DEF Sends
    <2> QED
      BY <1>1, <1>2, <2>1 DEF TypeOK
  <1> QED
    BY <1>3, <1>4

LEMMA OnWireType ==
  ASSUME NEW method \in {"Ack", "Nak", "NakWithDelay", "Term"}
  PROVE  OnWire(method) \in {"ack", "nak", "nakDelay", "term"}
  BY DEF OnWire

LEMMA TypeStep ==
  ASSUME TypeOK, [Next]_vars
  PROVE  TypeOK'
  <1> USE DEF TypeOK, server, callback, bounds, history
  <1>1. ASSUME NEW w \in Workers, NEW m \in Messages, Deliver(w, m)
        PROVE  TypeOK'
    <2>1. [m |-> m, dc |-> count[m] + 1] \in Delivery
      BY DEF Delivery
    <2>2. inbox' \in [Workers -> Seq(Delivery)]
      BY <1>1, <2>1 DEF Deliver
    <2> QED
      BY <1>1, <2>2 DEF Deliver
  <1>2. ASSUME NEW a \in wire, Arrive(a)
        PROVE  TypeOK'
    <2>1. a.m \in Messages /\ a.type \in {"ack", "nak", "nakDelay", "term"}
      BY DEF Settlement
    <2> QED
      BY <1>2, <2>1 DEF Arrive, Settled
  <1>3. ASSUME NEW a \in wire, Lose(a)
        PROVE  TypeOK'
    BY <1>3 DEF Lose, Fault
  <1>4. ASSUME NEW m \in Messages, DelayOver(m) \/ AckWait(m)
        PROVE  TypeOK'
    <2>1. faults' \in Nat
      BY <1>4 DEF DelayOver, AckWait, Fault, NoFault
    <2>2. status' = [status EXCEPT ![m] = "ready"]
      BY <1>4 DEF DelayOver, AckWait
    <2> QED
      BY <1>4, <2>1, <2>2 DEF DelayOver, AckWait
  <1>5. ASSUME NEW w \in Workers, Subscribe(w) \/ Stop(w) \/ Crash(w)
        PROVE  TypeOK'
    <2>1. CASE Subscribe(w)
      BY <2>1 DEF Subscribe
    <2>2. CASE Stop(w)
      <3>1. inbox' \in [Workers -> Seq(Delivery)]
        BY <2>2 DEF Stop
      <3> QED
        BY <2>2, <3>1 DEF Stop
    <2>3. CASE Crash(w)
      <3>1. inbox' \in [Workers -> Seq(Delivery)]
        BY <2>3 DEF Crash
      <3> QED
        BY <2>3, <3>1 DEF Crash, Fault
    <2> QED
      BY <1>5, <2>1, <2>2, <2>3
  <1>6. ASSUME NEW w \in Workers, Take(w)
        PROVE  TypeOK'
    <2>1. Head(inbox[w]) \in Delivery /\ Tail(inbox[w]) \in Seq(Delivery)
      BY <1>6 DEF Take
    <2> QED
      BY <1>6, <2>1 DEF Take
  <1>7. ASSUME NEW w \in Workers, RejectUndecodable(w)
        PROVE  TypeOK'
    <2>1. job[w].m \in Messages
      BY DEF Delivery
    <2> QED
      BY <1>7, <2>1, SendsType DEF RejectUndecodable
  <1>8. ASSUME NEW w \in Workers, Handle(w)
        PROVE  TypeOK'
    <2>1. PICK out \in {"ok", "retry", "fatal"} :
            /\ failures' \in Nat
            /\ result' = [result EXCEPT ![w] = out]
            /\ ended' = ended \cup {[m |-> job[w].m, dc |-> job[w].dc, out |-> out]}
      <3>1. PICK out \in {"ok", "retry", "fatal"} :
              /\ IF out = "ok" THEN UNCHANGED failures
                               ELSE failures < MaxFailures /\ failures' = failures + 1
              /\ result' = [result EXCEPT ![w] = out]
              /\ ended' = ended \cup {[m |-> job[w].m, dc |-> job[w].dc, out |-> out]}
        BY <1>8 DEF Handle
      <3>2. failures' \in Nat
        BY <3>1
      <3> QED
        BY <3>1, <3>2
    <2>2. [m |-> job[w].m, dc |-> job[w].dc, out |-> out] \in Outcome
      BY DEF Outcome, Delivery
    <2> QED
      BY <1>8, <2>1, <2>2 DEF Handle
  <1>9. ASSUME NEW w \in Workers, PassThrough(w)
        PROVE  TypeOK'
    BY <1>9 DEF PassThrough, Returned
  <1>10. ASSUME NEW w \in Workers, AckSuccess(w), Returned(w)
         PROVE  TypeOK'
    <2>1. result' \in [Workers -> {"ok", "retry", "fatal"}]
      <3>1. result' = result \/ result' = [result EXCEPT ![w] = "retry"]
        BY <1>10 DEF AckSuccess
      <3> QED
        BY <3>1
    <2> QED
      BY <1>10, <2>1, SendsType DEF AckSuccess, Returned
  <1>11. ASSUME NEW w \in Workers, AutoAck(w)
         PROVE  TypeOK'
    BY <1>10, <1>11, SendsType DEF AutoAck, Returned
  <1>12. ASSUME NEW w \in Workers, RetryAck(w)
         PROVE  TypeOK'
    <2>1. job[w].m \in Messages
      BY DEF Delivery
    <2>2. \A method \in {"Term", "Nak", "NakWithDelay"} :
            OnWire(method) \in {"ack", "nak", "nakDelay", "term"}
      BY OnWireType
    <2>3. CASE AckSuccess(w)
      BY <1>10, <1>12, <2>3 DEF RetryAck
    <2>4. CASE ~ AckSuccess(w)
      <3>1. PICK type \in {"ack", "nak", "nakDelay", "term"} : Sends(w, type) \/ Refuses(w)
        BY <1>12, <2>2, <2>4 DEF RetryAck
      <3>2. rejected' \subseteq Messages /\ result' = result
        BY <1>12, <2>1, <2>4 DEF RetryAck
      <3> QED
        BY <1>12, <3>1, <3>2, SendsType DEF RetryAck, Returned
    <2> QED
      BY <2>3, <2>4
  <1>13. ASSUME NEW w \in Workers, Finish(w)
         PROVE  TypeOK'
    <2>1. CASE w \in ManualAck
      BY <1>13, <2>1 DEF Finish
    <2>2. CASE w \notin ManualAck
      <3>1. PICK type \in {"ack", "nak", "nakDelay", "term"} : Sends(w, type) \/ Refuses(w)
        BY <1>13, <2>2 DEF Finish
      <3> QED
        BY <1>13, <3>1, SendsType DEF Finish
    <2> QED
      BY <2>1, <2>2
  <1>14. CASE UNCHANGED vars
    BY <1>14 DEF vars
  <1> QED
    BY <1>1, <1>2, <1>3, <1>4, <1>5, <1>6, <1>7, <1>8, <1>9, <1>11, <1>12, <1>13, <1>14
    DEF Next, Callback

\* Every variable keeps its type: a settlement on the wire is one of the four
\* the acker sends, and belongs to a delivery of a message of the stream.
THEOREM TypeCorrect == SafeSpec => []TypeOK
  BY TypeInit, TypeStep, PTL DEF SafeSpec
-----------------------------------------------------------------------------
(* Settled as handled *)

OutcomeOf(w, out) == [m |-> job[w].m, dc |-> job[w].dc, out |-> out]

\* The error a callback carries is the one its handler call returned; a nil
\* error at the end of the callback is still the handler's.
ResultOK ==
  \A w \in Workers :
    /\ pc[w] = "handled" => OutcomeOf(w, result[w]) \in ended
    /\ pc[w] = "returned" /\ result[w] = "ok" => OutcomeOf(w, "ok") \in ended

WireOK == wire \subseteq sent

HandledInv == TypeOK /\ ResultOK /\ WireOK /\ SettledAsHandled

\* The reason there must be for a settlement of w's delivery.
Justified(w, type) ==
  /\ type = "ack" => \/ OutcomeOf(w, "ok") \in ended'
                     \/ "Terminator" \notin Implements /\ job[w].m \in rejected'
  /\ type = "term" => job[w].m \in rejected'

LEMMA SendsJustified ==
  ASSUME HandledInv, NEW w \in Workers,
         NEW type \in {"ack", "nak", "nakDelay", "term"},
         Sends(w, type) \/ Refuses(w), Justified(w, type),
         ended \subseteq ended', rejected \subseteq rejected'
  PROVE  WireOK' /\ SettledAsHandled'
  <1> DEFINE a == [type |-> type, m |-> job[w].m, dc |-> job[w].dc]
  <1>1. CASE Refuses(w)
    BY <1>1 DEF Refuses, HandledInv, WireOK, SettledAsHandled
  <1>2. CASE Sends(w, type)
    <2>1. wire' = wire \cup {a} /\ sent' = sent \cup {a}
      BY <1>2 DEF Sends
    <2>2. WireOK'
      BY <2>1 DEF HandledInv, WireOK
    <2>3. ASSUME NEW b \in sent'
          PROVE  /\ b.type = "ack" =>
                      \/ [m |-> b.m, dc |-> b.dc, out |-> "ok"] \in ended'
                      \/ "Terminator" \notin Implements /\ b.m \in rejected'
                 /\ b.type = "term" => b.m \in rejected'
      <3>1. CASE b \in sent
        BY <3>1 DEF HandledInv, SettledAsHandled
      <3>2. CASE b = a
        BY <3>2 DEF Justified, OutcomeOf
      <3> QED
        BY <2>1, <3>1, <3>2
    <2> QED
      BY <2>2, <2>3 DEF SettledAsHandled
  <1> QED
    BY <1>1, <1>2

LEMMA HandledStep ==
  ASSUME HandledInv, [Next]_vars
  PROVE  HandledInv'
  <1> USE DEF server, callback, bounds, history
  <1>0. TypeOK /\ TypeOK'
    BY TypeStep DEF HandledInv
  <1> SUFFICES ResultOK' /\ WireOK' /\ SettledAsHandled'
    BY <1>0 DEF HandledInv
  \* Steps that neither settle nor touch the callbacks.
  <1>1. ASSUME UNCHANGED <<callback, history>>, wire' \subseteq wire
        PROVE  ResultOK' /\ WireOK' /\ SettledAsHandled'
    BY <1>1 DEF HandledInv, ResultOK, WireOK, SettledAsHandled, OutcomeOf
  <1>2. ASSUME NEW w \in Workers, Crash(w)
        PROVE  ResultOK' /\ WireOK' /\ SettledAsHandled'
    BY <1>0, <1>2 DEF HandledInv, ResultOK, WireOK, SettledAsHandled, OutcomeOf, Crash, TypeOK
  <1>3. ASSUME NEW w \in Workers, Take(w)
        PROVE  ResultOK' /\ WireOK' /\ SettledAsHandled'
    BY <1>0, <1>3 DEF HandledInv, ResultOK, WireOK, SettledAsHandled, OutcomeOf, Take, TypeOK
  <1>4. ASSUME NEW w \in Workers, RejectUndecodable(w)
        PROVE  ResultOK' /\ WireOK' /\ SettledAsHandled'
    <2>1. ResultOK'
      BY <1>0, <1>4 DEF HandledInv, ResultOK, OutcomeOf, RejectUndecodable, TypeOK
    <2>2. Sends(w, "term") \/ Refuses(w)
      BY <1>4 DEF RejectUndecodable
    <2>3. Justified(w, "term") /\ ended \subseteq ended' /\ rejected \subseteq rejected'
      BY <1>4 DEF RejectUndecodable, Justified
    <2> QED
      BY <2>1, <2>2, <2>3, SendsJustified
  <1>5. ASSUME NEW w \in Workers, Handle(w)
        PROVE  ResultOK' /\ WireOK' /\ SettledAsHandled'
    <2>1. PICK out \in {"ok", "retry", "fatal"} :
            /\ result' = [result EXCEPT ![w] = out]
            /\ ended' = ended \cup {OutcomeOf(w, out)}
      BY <1>5 DEF Handle, OutcomeOf
    <2>2. UNCHANGED <<job, wire, sent, rejected>> /\ pc' = [pc EXCEPT ![w] = "handled"]
      BY <1>5 DEF Handle
    <2>3. ASSUME NEW v \in Workers
          PROVE  /\ pc'[v] = "handled" => OutcomeOf(v, result[v])' \in ended'
                 /\ pc'[v] = "returned" /\ result'[v] = "ok" => OutcomeOf(v, "ok")' \in ended'
      <3>1. CASE v = w
        BY <1>0, <2>1, <2>2, <3>1 DEF OutcomeOf, TypeOK
      <3>2. CASE v # w
        <4>1. pc'[v] = pc[v] /\ result'[v] = result[v]
          BY <1>0, <2>1, <2>2, <3>2 DEF TypeOK
        <4> QED
          BY <2>1, <2>2, <4>1 DEF HandledInv, ResultOK, OutcomeOf
      <3> QED
        BY <3>1, <3>2
    <2>4. ResultOK'
      BY <2>3 DEF ResultOK
    <2> QED
      BY <2>1, <2>2, <2>4 DEF HandledInv, WireOK, SettledAsHandled
  <1>6. ASSUME NEW w \in Workers, PassThrough(w)
        PROVE  ResultOK' /\ WireOK' /\ SettledAsHandled'
    <2>1. /\ UNCHANGED <<job, wire, sent, result, ended, rejected>>
          /\ pc[w] = "handled" /\ pc' = [pc EXCEPT ![w] = "returned"]
      BY <1>6 DEF PassThrough, Returned
    <2> QED
      BY <1>0, <2>1 DEF HandledInv, ResultOK, OutcomeOf, WireOK, SettledAsHandled, TypeOK
  \* What AutoAck and RetryAck have in common.
  <1>7. ASSUME NEW w \in Workers, Returned(w),
               \/ UNCHANGED result
               \/ result' = [result EXCEPT ![w] = "retry"]
        PROVE  ResultOK' /\ ended \subseteq ended'
    <2>1. /\ UNCHANGED <<job, ended>>
          /\ pc[w] = "handled" /\ pc' = [pc EXCEPT ![w] = "returned"]
      BY <1>7 DEF Returned
    <2> QED
      BY <1>0, <1>7, <2>1 DEF HandledInv, ResultOK, OutcomeOf, TypeOK
  <1>8. ASSUME NEW w \in Workers, Returned(w), AckSuccess(w)
        PROVE  ResultOK' /\ WireOK' /\ SettledAsHandled'
    <2>1. Sends(w, "ack") \/ Refuses(w)
      BY <1>8 DEF AckSuccess
    <2>2. /\ UNCHANGED result \/ result' = [result EXCEPT ![w] = "retry"]
          /\ UNCHANGED rejected
      BY <1>8 DEF AckSuccess
    <2>3. ResultOK' /\ ended \subseteq ended'
      BY <1>7, <1>8, <2>2
    <2>4. Justified(w, "ack")
      BY <1>8, <2>3 DEF AckSuccess, Justified, HandledInv, ResultOK, Returned
    <2> QED
      BY <2>1, <2>2, <2>3, <2>4, SendsJustified
  <1>9. ASSUME NEW w \in Workers, AutoAck(w)
        PROVE  ResultOK' /\ WireOK' /\ SettledAsHandled'
    <2>1. Returned(w)
      BY <1>9 DEF AutoAck
    <2>2. CASE AckSuccess(w)
      BY <1>8, <2>1, <2>2
    <2>3. CASE ~ AckSuccess(w)
      <3>1. (Sends(w, "nak") \/ Refuses(w)) /\ UNCHANGED <<result, rejected>>
        BY <1>9, <2>3 DEF AutoAck
      <3>2. ResultOK' /\ ended \subseteq ended'
        BY <1>7, <2>1, <3>1
      <3>3. Justified(w, "nak")
        BY DEF Justified
      <3> QED
        BY <3>1, <3>2, <3>3, SendsJustified
    <2> QED
      BY <2>2, <2>3
  <1>10. ASSUME NEW w \in Workers, RetryAck(w)
         PROVE  ResultOK' /\ WireOK' /\ SettledAsHandled'
    <2>1. Returned(w)
      BY <1>10 DEF RetryAck
    <2>2. CASE AckSuccess(w)
      BY <1>8, <2>1, <2>2
    <2>3. CASE ~ AckSuccess(w) /\ GivesUp(w) /\ result[w] # "ok"
      <3>1. /\ Sends(w, OnWire("Term")) \/ Refuses(w)
            /\ rejected' = rejected \cup {job[w].m} /\ UNCHANGED result
        BY <1>10, <2>3 DEF RetryAck
      <3>2. ResultOK' /\ ended \subseteq ended'
        BY <1>7, <2>1, <3>1
      <3>3. Justified(w, OnWire("Term")) /\ OnWire("Term") \in {"ack", "nak", "nakDelay", "term"}
        BY <3>1 DEF Justified, OnWire
      <3> QED
        BY <3>1, <3>2, <3>3, SendsJustified
    <2>4. CASE ~ AckSuccess(w) /\ ~ (GivesUp(w) /\ result[w] # "ok")
      <3>1. PICK method \in {"Nak", "NakWithDelay"} :
              /\ Sends(w, OnWire(method)) \/ Refuses(w)
              /\ UNCHANGED <<result, rejected>>
        BY <1>10, <2>4 DEF RetryAck
      <3>2. ResultOK' /\ ended \subseteq ended'
        BY <1>7, <2>1, <3>1
      <3>3. /\ Justified(w, OnWire(method))
            /\ OnWire(method) \in {"ack", "nak", "nakDelay", "term"}
        BY DEF Justified, OnWire
      <3> QED
        BY <3>1, <3>2, <3>3, SendsJustified
    <2> QED
      BY <2>2, <2>3, <2>4
  <1>11. ASSUME NEW w \in Workers, Finish(w)
         PROVE  ResultOK' /\ WireOK' /\ SettledAsHandled'
    <2>1. /\ UNCHANGED <<job, result, ended, rejected>>
          /\ pc[w] = "returned" /\ pc' = [pc EXCEPT ![w] = "idle"]
      BY <1>11 DEF Finish
    <2>2. ResultOK'
      BY <1>0, <2>1 DEF HandledInv, ResultOK, OutcomeOf, TypeOK
    <2>3. CASE w \in ManualAck /\ UNCHANGED <<wire, sent>>
      BY <2>1, <2>2, <2>3 DEF HandledInv, WireOK, SettledAsHandled
    <2>4. CASE Sends(w, IF result[w] = "ok" THEN "ack" ELSE "nak") \/ Refuses(w)
      <3>1. Justified(w, IF result[w] = "ok" THEN "ack" ELSE "nak")
        BY <2>1 DEF Justified, HandledInv, ResultOK
      <3> QED
        BY <2>1, <2>2, <2>4, <3>1, SendsJustified
    <2> QED
      BY <1>11, <2>3, <2>4 DEF Finish
  <1> QED
    BY <1>1, <1>2, <1>3, <1>4, <1>5, <1>6, <1>9, <1>10, <1>11
    DEF Next, Callback, vars, Deliver, Arrive, Lose, DelayOver, AckWait, Subscribe, Stop

LEMMA HandledInit == Init => HandledInv
  BY TypeInit DEF Init, HandledInv, ResultOK, WireOK, SettledAsHandled

\* An ack is sent only for a delivery whose own handler call returned nil, a
\* term only for a message that was given up, however the middleware's and the
\* subscriber's decisions, failed settlements and crashes interleave.
THEOREM AcksFollowHandlers == SafeSpec => []SettledAsHandled
  <1>1. SafeSpec => []HandledInv
    BY HandledInit, HandledStep, PTL DEF SafeSpec
  <1>2. HandledInv => SettledAsHandled
    BY DEF HandledInv
  <1> QED
    BY <1>1, <1>2, PTL

-----------------------------------------------------------------------------
(* Given up in time *)

\* The reason there must be for terminating w's delivery.
Due(w) ==
  \/ job[w].m \in Undecodable
  \/ OutcomeOf(w, "fatal") \in ended
  \/ OutcomeOf(w, "retry") \in ended /\ 0 < MaxDeliveries /\ MaxDeliveries <= job[w].dc

\* What is sent for a delivery is a term only if it is due.
LEMMA SendsDue ==
  ASSUME TermIsDue, NEW w \in Workers, NEW type, Sends(w, type) \/ Refuses(w),
         type = "term" => Due(w), ended \subseteq ended'
  PROVE  TermIsDue'
  <1> DEFINE a == [type |-> type, m |-> job[w].m, dc |-> job[w].dc]
  <1>1. sent' \subseteq sent \cup {a}
    BY DEF Sends, Refuses
  <1>2. ASSUME NEW b \in sent, b.type = "term"
        PROVE  \/ b.m \in Undecodable
               \/ [m |-> b.m, dc |-> b.dc, out |-> "fatal"] \in ended'
               \/ /\ [m |-> b.m, dc |-> b.dc, out |-> "retry"] \in ended'
                  /\ 0 < MaxDeliveries /\ MaxDeliveries <= b.dc
    BY <1>2 DEF TermIsDue
  <1>3. CASE type = "term"
    BY <1>1, <1>2, <1>3 DEF TermIsDue, Due, OutcomeOf
  <1>4. CASE type # "term"
    BY <1>1, <1>2, <1>4 DEF TermIsDue
  <1> QED
    BY <1>3, <1>4

\* The policy gives up at a fatal error, or at the last delivery.
LEMMA GivingUpIsDue ==
  ASSUME HandledInv, NEW w \in Workers, pc[w] = "handled", result[w] # "ok", GivesUp(w)
  PROVE  Due(w)
  <1>1. OutcomeOf(w, result[w]) \in ended /\ result[w] \in {"retry", "fatal"}
    BY DEF HandledInv, ResultOK, TypeOK
  <1>2. CASE result[w] = "fatal"
    BY <1>1, <1>2 DEF Due
  <1>3. CASE result[w] = "retry"
    <2>1. MaxDeliveries > 0 /\ NumDelivered(w) >= MaxDeliveries
      BY <1>3 DEF GivesUp
    <2>2. NumDelivered(w) = job[w].dc
      BY <2>1 DEF NumDelivered
    <2>3. job[w].dc \in Nat
      BY DEF HandledInv, TypeOK, Delivery
    <2> QED
      BY <1>1, <1>3, <2>1, <2>2, <2>3 DEF Due
  <1> QED
    BY <1>1, <1>2, <1>3

LEMMA DueStep ==
  ASSUME HandledInv, TermIsDue, [Next]_vars
  PROVE  TermIsDue'
  <1> USE DEF server, callback, bounds, history
  <1>1. ASSUME sent' = sent, ended \subseteq ended'
        PROVE  TermIsDue'
    BY <1>1 DEF TermIsDue
  <1>2. ASSUME NEW w \in Workers, RejectUndecodable(w)
        PROVE  TermIsDue'
    <2>1. Sends(w, "term") \/ Refuses(w)
      BY <1>2 DEF RejectUndecodable
    <2>2. Due(w) /\ ended' = ended
      BY <1>2 DEF RejectUndecodable, Due
    <2> QED
      BY <2>1, <2>2, SendsDue
  <1>3. ASSUME NEW w \in Workers, NEW type \in {"ack", "nak", "nakDelay"}, ended' = ended,
               Sends(w, type) \/ Refuses(w)
        PROVE  TermIsDue'
    BY <1>3, SendsDue
  <1>4. ASSUME NEW w \in Workers, AutoAck(w)
        PROVE  TermIsDue'
    <2>1. ended' = ended
      BY <1>4 DEF AutoAck, Returned
    <2>2. \E type \in {"ack", "nak"} : Sends(w, type) \/ Refuses(w)
      BY <1>4 DEF AutoAck, AckSuccess
    <2> QED
      BY <1>3, <2>1, <2>2
  <1>5. ASSUME NEW w \in Workers, RetryAck(w)
        PROVE  TermIsDue'
    <2>1. ended' = ended /\ pc[w] = "handled"
      BY <1>5 DEF RetryAck, Returned
    <2>2. CASE AckSuccess(w)
      <3>1. Sends(w, "ack") \/ Refuses(w)
        BY <2>2 DEF AckSuccess
      <3> QED
        BY <1>3, <2>1, <3>1
    <2>3. CASE result[w] # "ok" /\ GivesUp(w) /\ (Sends(w, OnWire("Term")) \/ Refuses(w))
      <3>1. Due(w)
        BY <2>1, <2>3, GivingUpIsDue
      <3> QED
        BY <2>1, <2>3, <3>1, SendsDue
    <2>4. CASE \E method \in {"Nak", "NakWithDelay"} : Sends(w, OnWire(method)) \/ Refuses(w)
      <3>1. PICK method \in {"Nak", "NakWithDelay"} : Sends(w, OnWire(method)) \/ Refuses(w)
        BY <2>4
      <3>2. OnWire(method) \in {"nak", "nakDelay"}
        BY DEF OnWire
      <3> QED
        BY <1>3, <2>1, <3>1, <3>2
    <2> QED
      BY <1>5, <2>2, <2>3, <2>4 DEF RetryAck
  <1>6. ASSUME NEW w \in Workers, Finish(w)
        PROVE  TermIsDue'
    <2>1. ended' = ended
      BY <1>6 DEF Finish
    <2>2. CASE w \in ManualAck
      BY <1>1, <1>6, <2>1, <2>2 DEF Finish
    <2>3. CASE w \notin ManualAck
      <3>1. \E type \in {"ack", "nak"} : Sends(w, type) \/ Refuses(w)
        BY <1>6, <2>3 DEF Finish
      <3> QED
        BY <1>3, <2>1, <3>1
    <2> QED
      BY <2>2, <2>3
  <1>7. ASSUME NEW w \in Workers, Handle(w)
        PROVE  TermIsDue'
    BY <1>1, <1>7 DEF Handle
  <1>8. ASSUME NEW w \in Workers, PassThrough(w)
        PROVE  TermIsDue'
    BY <1>1, <1>8 DEF PassThrough, Returned
  <1>9. CASE UNCHANGED history
    BY <1>1, <1>9
  <1> QED
    BY <1>2, <1>4, <1>5, <1>6, <1>7, <1>8, <1>9
    DEF Next, Callback, vars, Deliver, Arrive, Lose, DelayOver, AckWait, Subscribe, Stop, Crash,
        Take

\* No message is given up before its time, whatever the number of workers that
\* share its deliveries, crash with them or settle them late.
THEOREM NothingGivenUpEarly == SafeSpec => []TermIsDue
  <1>1. Init => TermIsDue
    BY DEF Init, TermIsDue
  <1>2. HandledInv /\ HandledInv' /\ TermIsDue /\ [Next]_vars => TermIsDue'
    BY DueStep
  <1>3. HandledInv /\ [Next]_vars => HandledInv'
    BY HandledStep
  <1> QED
    BY <1>1, <1>2, <1>3, HandledInit, PTL DEF SafeSpec

-----------------------------------------------------------------------------
(* The contract *)

Succeeded == {e.m : e \in {f \in ended : f.out = "ok"}}

OutcomeIn(outcomes, m) == \E e \in outcomes : e.m = m /\ e.out = "ok"

Abstract(st) ==
  CASE st = "acked" -> "done"
    [] st = "termed" -> "dropped"
    [] OTHER -> "open"

StatusOf == [m \in Messages |->
  CASE status[m] = "acked" -> "done"
    [] status[m] = "termed" -> "dropped"
    [] OTHER -> "open"]

LEMMA StatusOfIsAbstract ==
  ASSUME NEW m \in Messages
  PROVE  StatusOf[m] = Abstract(status[m]) /\ StatusOf'[m] = Abstract(status'[m])
  BY DEF StatusOf, Abstract

LEMMA SucceededHas ==
  ASSUME NEW m, OutcomeIn(ended, m)
  PROVE  m \in Succeeded
  BY DEF OutcomeIn, Succeeded

\* A settlement that arrives settles, or changes nothing the contract sees.
LEMMA ArriveRefines ==
  ASSUME HandledInv, "Terminator" \in Implements, NEW a \in wire, Arrive(a)
  PROVE  [Contract!Next]_Contract!vars
  <1> USE DEF server, callback, bounds, history
  <1>1. a.m \in Messages /\ a.type \in {"ack", "nak", "nakDelay", "term"} /\ a \in sent
    BY DEF HandledInv, TypeOK, WireOK, Settlement
  <1>2. UNCHANGED <<ended, rejected, Succeeded>>
    BY DEF Arrive, Succeeded
  <1>3. CASE status' = status
    BY <1>2, <1>3 DEF Contract!vars, Succeeded
  <1>4. CASE status' # status
    <2>1. ~ Settled(a.m)
      BY <1>4 DEF Arrive
    <2>2. PICK st : /\ status' = [status EXCEPT ![a.m] = st]
                    /\ a.type = "ack" => st = "acked"
                    /\ a.type = "term" => st = "termed"
                    /\ a.type \in {"nak", "nakDelay"} => st \in {"ready", "delayed", status[a.m]}
      BY <1>1, <2>1 DEF Arrive
    <2>3. StatusOf' = [StatusOf EXCEPT ![a.m] = Abstract(st)] /\ StatusOf[a.m] = "open"
      <3>1. StatusOf[a.m] = "open"
        BY <1>1, <2>1 DEF StatusOf, Settled
      <3>2. ASSUME NEW m \in Messages
            PROVE  StatusOf'[m] = [StatusOf EXCEPT ![a.m] = Abstract(st)][m]
        <4>1. StatusOf[m] = Abstract(status[m]) /\ StatusOf'[m] = Abstract(status'[m])
          BY StatusOfIsAbstract
        <4>2. status'[m] = IF m = a.m THEN st ELSE status[m]
          BY <2>2 DEF HandledInv, TypeOK
        <4>3. StatusOf \in [Messages -> {"open", "done", "dropped"}]
          BY DEF StatusOf
        <4> QED
          BY <4>1, <4>2, <4>3
      <3>3. /\ StatusOf' \in [Messages -> {"open", "done", "dropped"}]
            /\ StatusOf \in [Messages -> {"open", "done", "dropped"}]
        BY DEF StatusOf
      <3> QED
        BY <3>1, <3>2, <3>3
    <2>4. CASE a.type = "ack"
      <3>1. [m |-> a.m, dc |-> a.dc, out |-> "ok"] \in ended
        BY <1>1, <2>4 DEF HandledInv, SettledAsHandled
      <3>2. a.m \in Succeeded
        BY <3>1, SucceededHas DEF OutcomeIn
      <3>3. StatusOf' = [StatusOf EXCEPT ![a.m] = "done"]
        BY <2>2, <2>3, <2>4 DEF Abstract
      <3>4. Contract!Settle(a.m, "done")
        BY <1>2, <2>3, <3>2, <3>3 DEF Contract!Settle, StatusOf, Succeeded
      <3> QED
        BY <1>1, <3>4 DEF Contract!Next
    <2>5. CASE a.type = "term"
      <3>1. a.m \in rejected
        BY <1>1, <2>5 DEF HandledInv, SettledAsHandled
      <3>2. StatusOf' = [StatusOf EXCEPT ![a.m] = "dropped"]
        BY <2>2, <2>3, <2>5 DEF Abstract
      <3>3. Contract!Settle(a.m, "dropped")
        BY <1>2, <2>3, <3>1, <3>2 DEF Contract!Settle, StatusOf, Succeeded
      <3> QED
        BY <1>1, <3>3 DEF Contract!Next
    <2>6. CASE a.type \in {"nak", "nakDelay"}
      <3>1. Abstract(st) = "open"
        BY <2>1, <2>2, <2>6 DEF Abstract, Settled
      <3>2. StatusOf' = StatusOf
        BY <1>1, <2>3, <3>1 DEF StatusOf
      <3> QED
        BY <1>2, <3>2 DEF Contract!vars, StatusOf, Succeeded
    <2> QED
      BY <1>1, <2>4, <2>5, <2>6
  <1> QED
    BY <1>3, <1>4

\* Steps that leave the settled messages, the successes and the rejections alone.
LEMMA Unseen ==
  ASSUME TypeOK, UNCHANGED <<ended, rejected>>,
         \/ UNCHANGED status
         \/ \E m \in Messages : /\ ~ Settled(m)
                                 /\ \E st \in {"ready", "pending"} :
                                      status' = [status EXCEPT ![m] = st]
  PROVE  UNCHANGED Contract!vars
  <1>1. ASSUME NEW m \in Messages, ~ Settled(m), NEW st \in {"ready", "pending"},
               status' = [status EXCEPT ![m] = st]
        PROVE  StatusOf' = StatusOf
    <2>1. ASSUME NEW n \in Messages
          PROVE  Abstract(status'[n]) = Abstract(status[n])
      BY <1>1 DEF TypeOK, Abstract, Settled
    <2> QED
      BY <2>1, StatusOfIsAbstract DEF StatusOf
  <1>2. StatusOf' = StatusOf
    BY <1>1 DEF StatusOf
  <1> QED
    BY <1>2 DEF Contract!vars, StatusOf

LEMMA ContractStep ==
  ASSUME HandledInv, "Terminator" \in Implements, [Next]_vars
  PROVE  [Contract!Next]_Contract!vars
  <1> USE DEF server, callback, bounds, history
  <1>0. TypeOK
    BY DEF HandledInv
  <1>1. ASSUME NEW a \in wire, Arrive(a)
        PROVE  [Contract!Next]_Contract!vars
    BY <1>1, ArriveRefines
  <1>2. ASSUME NEW m \in Messages, DelayOver(m) \/ AckWait(m) \/ \E w \in Workers : Deliver(w, m)
        PROVE  [Contract!Next]_Contract!vars
    <2>1. ~ Settled(m) /\ UNCHANGED <<ended, rejected>>
      BY <1>2 DEF DelayOver, AckWait, Deliver, Settled
    <2>2. \E st \in {"ready", "pending"} : status' = [status EXCEPT ![m] = st]
      BY <1>2 DEF DelayOver, AckWait, Deliver
    <2> QED
      BY <1>0, <2>1, <2>2, Unseen
  <1>3. ASSUME UNCHANGED <<status, ended, rejected>>
        PROVE  [Contract!Next]_Contract!vars
    BY <1>0, <1>3, Unseen
  <1>4. ASSUME NEW w \in Workers, UNCHANGED <<status, ended>>, rejected' = rejected \cup {job[w].m}
        PROVE  [Contract!Next]_Contract!vars
    <2>1. PICK m \in Messages : m = job[w].m
      BY <1>0 DEF TypeOK, Delivery
    <2>2. Contract!Attempt(m)
      BY <1>4, <2>1 DEF Contract!Attempt
    <2> QED
      BY <2>1, <2>2 DEF Contract!Next
  <1>5. ASSUME NEW w \in Workers, Handle(w)
        PROVE  [Contract!Next]_Contract!vars
    <2>1. PICK out \in {"ok", "retry", "fatal"} :
            ended' = ended \cup {[m |-> job[w].m, dc |-> job[w].dc, out |-> out]}
      BY <1>5 DEF Handle
    <2>2. UNCHANGED <<status, rejected>>
      BY <1>5 DEF Handle
    <2>3. PICK m \in Messages : m = job[w].m
      BY <1>0 DEF TypeOK, Delivery
    <2>4. CASE out = "ok"
      <3> DEFINE e == [m |-> m, dc |-> job[w].dc, out |-> "ok"]
      <3>0. ended' = ended \cup {e}
        BY <2>1, <2>4, <2>3
      <3>1. Succeeded' = Succeeded \cup {m}
        <4>1. e.m = m /\ e.out = "ok"
          OBVIOUS
        <4> HIDE DEF e
        <4> QED
          BY <3>0, <4>1 DEF Succeeded
      <3>2. Contract!Attempt(m)
        BY <2>2, <3>1 DEF Contract!Attempt, Succeeded
      <3> QED
        BY <3>2 DEF Contract!Next
    <2>5. CASE out # "ok"
      <3>1. Succeeded' = Succeeded
        BY <2>1, <2>5 DEF Succeeded
      <3> QED
        BY <2>2, <3>1 DEF Contract!vars, Succeeded
    <2> QED
      BY <2>4, <2>5
  <1>6. ASSUME NEW w \in Workers, RejectUndecodable(w)
        PROVE  [Contract!Next]_Contract!vars
    BY <1>4, <1>6 DEF RejectUndecodable
  <1>7. ASSUME NEW w \in Workers, RetryAck(w)
        PROVE  [Contract!Next]_Contract!vars
    <2>1. UNCHANGED <<status, ended>>
      BY <1>7 DEF RetryAck, Returned
    <2>2. rejected' = rejected \cup {job[w].m} \/ UNCHANGED rejected
      BY <1>7 DEF RetryAck, AckSuccess
    <2> QED
      BY <1>3, <1>4, <2>1, <2>2
  <1>8. ASSUME NEW w \in Workers, PassThrough(w) \/ AutoAck(w) \/ Finish(w)
        PROVE  [Contract!Next]_Contract!vars
    BY <1>3, <1>8 DEF PassThrough, AutoAck, AckSuccess, Returned, Finish
  <1>9. ASSUME NEW w \in Workers, Subscribe(w) \/ Stop(w) \/ Crash(w) \/ Take(w)
        PROVE  [Contract!Next]_Contract!vars
    BY <1>3, <1>9 DEF Subscribe, Stop, Crash, Take
  <1>10. ASSUME NEW a \in wire, Lose(a)
         PROVE  [Contract!Next]_Contract!vars
    BY <1>3, <1>10 DEF Lose
  <1> QED
    BY <1>1, <1>2, <1>3, <1>5, <1>6, <1>7, <1>8, <1>9, <1>10 DEF Next, Callback, vars

LEMMA ContractInit == Init => Contract!Init
  BY DEF Init, Contract!Init, history

\* With an acker that can terminate, as transport/jetstream's, the subscribers
\* and the middleware implement at-least-once: a message is settled as done
\* only after a handler processed it, as dropped only after it was given up,
\* and for good.
THEOREM JetStreamImplementsContract ==
  ASSUME "Terminator" \in Implements
  PROVE  SafeSpec => ImplementsContract
  <1>1. SafeSpec => []HandledInv
    BY HandledInit, HandledStep, PTL DEF SafeSpec
  <1>2. HandledInv /\ [Next]_vars => [Contract!Next]_Contract!vars
    BY ContractStep
  <1> QED
    BY <1>1, <1>2, ContractInit, PTL DEF SafeSpec, ImplementsContract, Contract!Spec

LEMMA NoLossStep ==
  ASSUME NoLoss, [Contract!Next]_Contract!vars
  PROVE  NoLoss'
  <1>1. \A m \in Messages :
          /\ StatusOf[m] = "done" => m \in Succeeded
          /\ StatusOf[m] = "dropped" => m \in rejected
    BY DEF NoLoss, Contract!NoLoss, StatusOf, Succeeded
  <1>2. \/ UNCHANGED <<StatusOf, Succeeded, rejected>>
        \/ \E m \in Messages :
             /\ \/ Succeeded' = Succeeded \cup {m} /\ UNCHANGED rejected
                \/ rejected' = rejected \cup {m} /\ UNCHANGED Succeeded
             /\ UNCHANGED StatusOf
        \/ \E m \in Messages : \E to \in {"done", "dropped"} :
             /\ to = "done" => m \in Succeeded
             /\ to = "dropped" => m \in rejected
             /\ StatusOf' = [StatusOf EXCEPT ![m] = to]
             /\ UNCHANGED <<Succeeded, rejected>>
    BY DEF Contract!Next, Contract!Attempt, Contract!Settle, Contract!vars, StatusOf, Succeeded
  <1>3. StatusOf = [m \in Messages |-> StatusOf[m]]
    BY DEF StatusOf
  <1>4. \A m \in Messages :
          /\ StatusOf'[m] = "done" => m \in Succeeded'
          /\ StatusOf'[m] = "dropped" => m \in rejected'
    BY <1>1, <1>2, <1>3
  <1> QED
    BY <1>4 DEF NoLoss, Contract!NoLoss, StatusOf, Succeeded

\* No message of the stream is ever closed without the reason for it: in the
\* state "acked" some handler call has processed it, in "termed" it was given up.
THEOREM NothingLost ==
  ASSUME "Terminator" \in Implements
  PROVE  SafeSpec => []NoLoss
  <1>1. SafeSpec => Contract!Spec
    BY JetStreamImplementsContract DEF ImplementsContract
  <1>2. Contract!Init => NoLoss
    BY DEF Contract!Init, NoLoss, Contract!NoLoss
  <1>3. NoLoss /\ [Contract!Next]_Contract!vars => NoLoss'
    BY NoLossStep
  <1> QED
    BY <1>1, <1>2, <1>3, PTL DEF Contract!Spec
-----------------------------------------------------------------------------
(* Where a delivery is.  The client sends one settlement of it (Sends), which  *)
(* the bound of the attempts rests on.                                         *)

SettlesOnce ==
  \A a, b \in sent : a.m = b.m /\ a.dc = b.dc => a = b

Active(w) == pc[w] # "idle"
DeliveryOf(a) == [m |-> a.m, dc |-> a.dc]

\* The server has counted every delivery there is.
Counted ==
  /\ \A w \in Workers : \A i \in 1 .. Len(inbox[w]) : inbox[w][i].dc <= count[inbox[w][i].m]
  /\ \A w \in Workers : Active(w) => job[w].dc <= count[job[w].m]
  /\ \A a \in sent : a.dc <= count[a.m]

\* A delivery is in one place: in one inbox, with one callback, or settled.
OnePlace ==
  /\ \A v, w \in Workers : \A i \in 1 .. Len(inbox[v]), j \in 1 .. Len(inbox[w]) :
       inbox[v][i] = inbox[w][j] => v = w /\ i = j
  /\ \A v, w \in Workers : \A i \in 1 .. Len(inbox[w]) : Active(v) => inbox[w][i] # job[v]
  /\ \A v, w \in Workers : Active(v) /\ Active(w) /\ job[v] = job[w] => v = w
  /\ \A a \in sent : \A w \in Workers : \A i \in 1 .. Len(inbox[w]) : inbox[w][i] # DeliveryOf(a)
  /\ \A a \in sent : \A w \in Workers : Active(w) /\ job[w] = DeliveryOf(a) => settled[w]

OnceInv == TypeOK /\ Counted /\ OnePlace /\ SettlesOnce

\* Steps that only drop deliveries, or leave them where they are.
LEMMA DropsKeepOnce ==
  ASSUME OnceInv, UNCHANGED <<count, job, sent>>,
         \A w \in Workers : /\ Active(w)' => Active(w) /\ settled'[w] = settled[w]
                            /\ inbox'[w] = inbox[w] \/ inbox'[w] = <<>>
  PROVE  Counted' /\ OnePlace' /\ SettlesOnce'
  <1>1. ASSUME NEW w \in Workers, NEW i \in 1 .. Len(inbox'[w])
        PROVE  i \in 1 .. Len(inbox[w]) /\ inbox'[w][i] = inbox[w][i]
    <2>1. CASE inbox'[w] = inbox[w]
      BY <2>1
    <2>2. CASE inbox'[w] = <<>>
      BY <2>2
    <2> QED
      BY <2>1, <2>2
  <1>2. Counted'
    BY <1>1 DEF OnceInv, Counted
  <1>3. OnePlace'
    BY <1>1 DEF OnceInv, OnePlace, DeliveryOf
  <1> QED
    BY <1>2, <1>3 DEF OnceInv, SettlesOnce

\* A callback settles its delivery.
LEMMA SettlingKeepsOnce ==
  ASSUME OnceInv, NEW w \in Workers, Active(w),
         NEW type \in {"ack", "nak", "nakDelay", "term"}, Sends(w, type) \/ Refuses(w),
         UNCHANGED <<count, job, inbox>>,
         \A v \in Workers : Active(v)' => Active(v)
  PROVE  Counted' /\ OnePlace' /\ SettlesOnce'
  <1> DEFINE a == [type |-> type, m |-> job[w].m, dc |-> job[w].dc]
  <1>1. CASE Refuses(w)
    BY <1>1, DropsKeepOnce DEF Refuses
  <1>2. CASE Sends(w, type)
    <2>1. /\ ~ settled[w] /\ sent' = sent \cup {a}
          /\ settled' = [settled EXCEPT ![w] = TRUE]
      BY <1>2 DEF Sends
    <2>2. DeliveryOf(a) = job[w] /\ a.m = job[w].m /\ a.dc = job[w].dc
      BY DEF OnceInv, TypeOK, Delivery, DeliveryOf
    <2>3. ASSUME NEW b \in sent
          PROVE  ~ (b.m = a.m /\ b.dc = a.dc)
      <3>1. DeliveryOf(b) # job[w]
        BY <2>1 DEF OnceInv, OnePlace
      <3> QED
        BY <2>2, <3>1 DEF DeliveryOf
    <2> HIDE DEF a
    <2>4. Counted'
      BY <2>1, <2>2 DEF OnceInv, Counted
    <2>5. OnePlace'
      <3>1. ASSUME NEW b \in sent', NEW v \in Workers, NEW i \in 1 .. Len(inbox'[v])
            PROVE  inbox'[v][i] # DeliveryOf(b)
        BY <2>1, <2>2 DEF OnceInv, OnePlace
      <3>2. ASSUME NEW b \in sent', NEW v \in Workers, Active(v)', job'[v] = DeliveryOf(b)
            PROVE  settled'[v]
        <4>1. CASE b \in sent
          BY <2>1, <3>2, <4>1 DEF OnceInv, OnePlace, TypeOK
        <4>2. CASE b = a
          BY <2>1, <2>2, <3>2, <4>2 DEF OnceInv, OnePlace, TypeOK
        <4> QED
          BY <2>1, <4>1, <4>2
      <3> QED
        BY <3>1, <3>2 DEF OnceInv, OnePlace, DeliveryOf
    <2>6. SettlesOnce'
      BY <2>1, <2>3 DEF OnceInv, SettlesOnce
    <2> QED
      BY <2>4, <2>5, <2>6
  <1> QED
    BY <1>1, <1>2

\* A new delivery has a number that none before it had.
LEMMA DeliverKeepsOnce ==
  ASSUME OnceInv, NEW w \in Workers, NEW m \in Messages, Deliver(w, m)
  PROVE  Counted' /\ OnePlace' /\ SettlesOnce'
  <1> DEFINE d == [m |-> m, dc |-> count[m] + 1]
  <1> USE DEF server, callback, bounds, history
  <1>1. /\ count' = [count EXCEPT ![m] = @ + 1]
        /\ inbox' = [inbox EXCEPT ![w] = Append(@, d)]
        /\ UNCHANGED <<pc, job, settled, sent>>
    BY DEF Deliver
  <1>2. TypeOK
    BY DEF OnceInv
  <1>3. d.m = m /\ d.dc = count[m] + 1
    OBVIOUS
  <1>4. /\ count[m] \in Nat /\ count'[m] = count[m] + 1
        /\ \A n \in Messages : count[n] \in Nat /\ count[n] <= count'[n]
    BY <1>1, <1>2 DEF TypeOK
  <1> HIDE DEF d
  \* What is in an inbox was there before, or is the new delivery, at the end.
  <1>5. ASSUME NEW v \in Workers, NEW i \in 1 .. Len(inbox'[v])
        PROVE  \/ i \in 1 .. Len(inbox[v]) /\ inbox'[v][i] = inbox[v][i]
               \/ v = w /\ i = Len(inbox[w]) + 1 /\ inbox'[v][i] = d
    <2>1. CASE v = w
      BY <1>1, <1>2, <2>1 DEF TypeOK
    <2>2. CASE v # w
      BY <1>1, <1>2, <2>2 DEF TypeOK
    <2> QED
      BY <2>1, <2>2
  <1>6. /\ \A v \in Workers : \A i \in 1 .. Len(inbox[v]) : inbox[v][i] \in Delivery
        /\ \A v \in Workers : job[v] \in Delivery
        /\ \A a \in sent : a.m \in Messages /\ a.dc \in Nat
    BY <1>2 DEF TypeOK, Settlement
  <1>7. /\ \A v \in Workers : \A i \in 1 .. Len(inbox[v]) : inbox[v][i] # d
        /\ \A v \in Workers : Active(v) => job[v] # d
        /\ \A a \in sent : DeliveryOf(a) # d
    <2>1. ASSUME NEW e \in Delivery, e.dc <= count[e.m]
          PROVE  e # d
      BY <1>3, <1>4, <2>1 DEF Delivery
    <2>2. ASSUME NEW a \in sent
          PROVE  DeliveryOf(a) \in Delivery /\ DeliveryOf(a).dc <= count[DeliveryOf(a).m]
      BY <1>6 DEF OnceInv, Counted, DeliveryOf, Delivery
    <2> QED
      BY <1>6, <2>1, <2>2 DEF OnceInv, Counted
  <1>8. Counted'
    <2>1. ASSUME NEW e \in Delivery, e.dc <= count[e.m]
          PROVE  e.dc <= count'[e.m]
      <3>1. e.m \in Messages /\ e.dc \in Nat
        BY DEF Delivery
      <3>2. count[e.m] \in Nat /\ count'[e.m] \in Nat /\ count[e.m] <= count'[e.m]
        BY <1>1, <1>2, <1>4, <3>1 DEF TypeOK
      <3> QED
        BY <2>1, <3>1, <3>2
    <2>2. ASSUME NEW v \in Workers, NEW i \in 1 .. Len(inbox'[v])
          PROVE  inbox'[v][i].dc <= count'[inbox'[v][i].m]
      <3>1. CASE inbox'[v][i] = d
        BY <1>3, <1>4, <3>1
      <3>2. CASE i \in 1 .. Len(inbox[v]) /\ inbox'[v][i] = inbox[v][i]
        BY <1>6, <2>1, <3>2 DEF OnceInv, Counted
      <3> QED
        BY <1>5, <3>1, <3>2
    <2>3. ASSUME NEW v \in Workers, Active(v)'
          PROVE  job'[v].dc <= count'[job'[v].m]
      BY <1>1, <1>6, <2>1, <2>3 DEF OnceInv, Counted, Active
    <2>4. ASSUME NEW a \in sent'
          PROVE  a.dc <= count'[a.m]
      <3>1. a \in sent /\ a.m \in Messages /\ a.dc \in Nat /\ a.dc <= count[a.m]
        BY <1>1, <1>6 DEF OnceInv, Counted
      <3>2. count[a.m] \in Nat /\ count'[a.m] \in Nat /\ count[a.m] <= count'[a.m]
        BY <1>1, <1>2, <1>4, <3>1 DEF TypeOK
      <3> QED
        BY <3>1, <3>2
    <2> QED
      BY <2>2, <2>3, <2>4 DEF Counted
  <1>9. OnePlace'
    <2>1. ASSUME NEW u \in Workers, NEW v \in Workers,
                 NEW i \in 1 .. Len(inbox'[u]), NEW j \in 1 .. Len(inbox'[v]),
                 inbox'[u][i] = inbox'[v][j]
          PROVE  u = v /\ i = j
      <3>1. \/ i \in 1 .. Len(inbox[u]) /\ inbox'[u][i] = inbox[u][i]
            \/ u = w /\ i = Len(inbox[w]) + 1 /\ inbox'[u][i] = d
        BY <1>5
      <3>2. \/ j \in 1 .. Len(inbox[v]) /\ inbox'[v][j] = inbox[v][j]
            \/ v = w /\ j = Len(inbox[w]) + 1 /\ inbox'[v][j] = d
        BY <1>5
      <3>3. CASE inbox'[u][i] = d
        <4>1. ~ (i \in 1 .. Len(inbox[u]) /\ inbox'[u][i] = inbox[u][i])
          BY <1>7, <3>3
        <4>2. ~ (j \in 1 .. Len(inbox[v]) /\ inbox'[v][j] = inbox[v][j])
          BY <1>7, <2>1, <3>3
        <4> QED
          BY <3>1, <3>2, <4>1, <4>2
      <3>4. CASE inbox'[u][i] # d
        <4>1. /\ i \in 1 .. Len(inbox[u]) /\ j \in 1 .. Len(inbox[v])
              /\ inbox[u][i] = inbox[v][j]
          BY <2>1, <3>1, <3>2, <3>4
        <4> QED
          BY <4>1 DEF OnceInv, OnePlace
      <3> QED
        BY <3>3, <3>4
    <2>2. ASSUME NEW v \in Workers, NEW u \in Workers, NEW i \in 1 .. Len(inbox'[u]), Active(v)'
          PROVE  inbox'[u][i] # job'[v]
      <3>1. Active(v) /\ job'[v] = job[v]
        BY <1>1, <2>2 DEF Active
      <3> QED
        BY <1>5, <1>7, <3>1 DEF OnceInv, OnePlace
    <2>3. ASSUME NEW a \in sent', NEW v \in Workers, NEW i \in 1 .. Len(inbox'[v])
          PROVE  inbox'[v][i] # DeliveryOf(a)
      BY <1>1, <1>5, <1>7 DEF OnceInv, OnePlace
    <2> QED
      BY <1>1, <2>1, <2>2, <2>3 DEF OnceInv, OnePlace, DeliveryOf, Active
  <1> QED
    BY <1>1, <1>8, <1>9 DEF OnceInv, SettlesOnce

\* A delivery moves from the head of an inbox to the callback.
LEMMA TakeKeepsOnce ==
  ASSUME OnceInv, NEW w \in Workers, Take(w)
  PROVE  Counted' /\ OnePlace' /\ SettlesOnce'
  <1> USE DEF server, callback, bounds, history
  <1>1. TypeOK
    BY DEF OnceInv
  <1>2. /\ ~ Active(w) /\ inbox[w] # <<>>
        /\ job' = [job EXCEPT ![w] = Head(inbox[w])]
        /\ inbox' = [inbox EXCEPT ![w] = Tail(@)]
        /\ settled' = [settled EXCEPT ![w] = FALSE]
        /\ pc' = [pc EXCEPT ![w] = "received"]
        /\ UNCHANGED <<count, sent>>
    BY DEF Take, Active
  <1>3. inbox[w] \in Seq(Delivery) /\ 1 \in 1 .. Len(inbox[w]) /\ job'[w] = inbox[w][1]
    BY <1>1, <1>2 DEF TypeOK
  \* What is left in the inboxes was there before, behind the head.
  <1>4. ASSUME NEW v \in Workers, NEW i \in 1 .. Len(inbox'[v])
        PROVE  /\ v # w => i \in 1 .. Len(inbox[v]) /\ inbox'[v][i] = inbox[v][i]
               /\ v = w => i + 1 \in 2 .. Len(inbox[w]) /\ inbox'[w][i] = inbox[w][i + 1]
    <2>1. CASE v = w
      <3>1. inbox'[w] = Tail(inbox[w])
        BY <1>1, <1>2 DEF TypeOK
      <3> QED
        BY <1>3, <2>1, <3>1
    <2>2. CASE v # w
      BY <1>1, <1>2, <2>2 DEF TypeOK
    <2> QED
      BY <2>1, <2>2
  <1>5. ASSUME NEW v \in Workers, v # w
        PROVE  (Active(v)' <=> Active(v)) /\ job'[v] = job[v] /\ settled'[v] = settled[v]
    BY <1>1, <1>2, <1>5 DEF TypeOK, Active
  <1>6. Counted'
    BY <1>2, <1>3, <1>4, <1>5 DEF OnceInv, Counted
  <1>7. OnePlace'
    <2>1. ASSUME NEW u \in Workers, NEW v \in Workers,
                 NEW i \in 1 .. Len(inbox'[u]), NEW j \in 1 .. Len(inbox'[v]),
                 inbox'[u][i] = inbox'[v][j]
          PROVE  u = v /\ i = j
      BY <1>4, <2>1 DEF OnceInv, OnePlace
    <2>2. ASSUME NEW v \in Workers, NEW u \in Workers, NEW i \in 1 .. Len(inbox'[u]), Active(v)'
          PROVE  inbox'[u][i] # job'[v]
      <3>1. CASE v = w
        <4>1. ASSUME NEW k \in 1 .. Len(inbox[u]), inbox[u][k] = inbox[w][1]
              PROVE  u = w /\ k = 1
          BY <1>3, <4>1 DEF OnceInv, OnePlace
        <4>2. CASE u = w
          <5>1. inbox'[w][i] = inbox[w][i + 1] /\ i + 1 \in 1 .. Len(inbox[w]) /\ i + 1 # 1
            BY <1>4, <4>2
          <5> QED
            BY <1>3, <3>1, <4>1, <4>2, <5>1
        <4>3. CASE u # w
          <5>1. inbox'[u][i] = inbox[u][i] /\ i \in 1 .. Len(inbox[u])
            BY <1>4, <4>3
          <5> QED
            BY <1>3, <3>1, <4>1, <4>3, <5>1
        <4> QED
          BY <4>2, <4>3
      <3>2. CASE v # w
        BY <1>4, <1>5, <2>2, <3>2 DEF OnceInv, OnePlace
      <3> QED
        BY <3>1, <3>2
    <2>3. ASSUME NEW u \in Workers, NEW v \in Workers, Active(u)', Active(v)', job'[u] = job'[v]
          PROVE  u = v
      BY <1>3, <1>5, <2>3 DEF OnceInv, OnePlace
    <2>4. ASSUME NEW a \in sent', NEW v \in Workers, NEW i \in 1 .. Len(inbox'[v])
          PROVE  inbox'[v][i] # DeliveryOf(a)
      BY <1>2, <1>4 DEF OnceInv, OnePlace
    <2>5. ASSUME NEW a \in sent', NEW v \in Workers, Active(v)', job'[v] = DeliveryOf(a)
          PROVE  settled'[v]
      <3>1. CASE v = w
        BY <1>2, <1>3, <2>5, <3>1 DEF OnceInv, OnePlace
      <3>2. CASE v # w
        BY <1>2, <1>5, <2>5, <3>2 DEF OnceInv, OnePlace
      <3> QED
        BY <3>1, <3>2
    <2> QED
      BY <2>1, <2>2, <2>3, <2>4, <2>5 DEF OnePlace, DeliveryOf
  <1> QED
    BY <1>2, <1>6, <1>7 DEF OnceInv, SettlesOnce

LEMMA OnceStep ==
  ASSUME OnceInv, [Next]_vars
  PROVE  OnceInv'
  <1> USE DEF server, callback, bounds, history
  <1>0. TypeOK /\ TypeOK'
    BY TypeStep DEF OnceInv
  <1> SUFFICES Counted' /\ OnePlace' /\ SettlesOnce'
    BY <1>0 DEF OnceInv
  <1>1. ASSUME UNCHANGED <<count, sent, inbox, callback>>
        PROVE  Counted' /\ OnePlace' /\ SettlesOnce'
    BY <1>1, DropsKeepOnce DEF Active
  <1>2. ASSUME NEW w \in Workers, Stop(w) \/ Crash(w)
        PROVE  Counted' /\ OnePlace' /\ SettlesOnce'
    <2>1. UNCHANGED <<count, job, sent>> /\ inbox' = [inbox EXCEPT ![w] = <<>>]
      BY <1>2 DEF Stop, Crash
    <2>2. UNCHANGED settled /\ (UNCHANGED pc \/ pc' = [pc EXCEPT ![w] = "idle"])
      BY <1>2 DEF Stop, Crash
    <2>3. \A v \in Workers : /\ Active(v)' => Active(v) /\ settled'[v] = settled[v]
                             /\ inbox'[v] = inbox[v] \/ inbox'[v] = <<>>
      BY <1>0, <2>1, <2>2 DEF TypeOK, Active
    <2> QED
      BY <2>1, <2>3, DropsKeepOnce
  <1>3. ASSUME NEW w \in Workers, Handle(w) \/ PassThrough(w) \/ (Finish(w) /\ w \in ManualAck)
        PROVE  Counted' /\ OnePlace' /\ SettlesOnce'
    <2>1. UNCHANGED <<count, job, sent, inbox, settled>>
      BY <1>3 DEF Handle, PassThrough, Returned, Finish, Sends, Refuses
    <2>2. \A v \in Workers : Active(v)' => Active(v)
      BY <1>0, <1>3 DEF Handle, PassThrough, Returned, Finish, TypeOK, Active
    <2> QED
      BY <2>1, <2>2, DropsKeepOnce
  <1>4. ASSUME NEW w \in Workers,
               \/ RejectUndecodable(w) \/ AutoAck(w) \/ RetryAck(w)
               \/ Finish(w) /\ w \notin ManualAck
        PROVE  Counted' /\ OnePlace' /\ SettlesOnce'
    <2>1. /\ UNCHANGED <<count, job, inbox>>
          /\ Active(w)
          /\ \E st \in {"returned", "idle"} : pc' = [pc EXCEPT ![w] = st]
      BY <1>4 DEF RejectUndecodable, AutoAck, RetryAck, Returned, Finish, Active
    <2>2. \A v \in Workers : Active(v)' => Active(v)
      BY <1>0, <2>1 DEF TypeOK, Active
    <2>3. PICK type \in {"ack", "nak", "nakDelay", "term"} : Sends(w, type) \/ Refuses(w)
      <3>1. CASE RejectUndecodable(w)
        BY <3>1 DEF RejectUndecodable
      <3>2. CASE AutoAck(w)
        BY <3>2 DEF AutoAck, AckSuccess
      <3>3. CASE RetryAck(w)
        BY <3>3, OnWireType DEF RetryAck, AckSuccess
      <3>4. CASE Finish(w) /\ w \notin ManualAck
        BY <3>4 DEF Finish
      <3> QED
        BY <1>4, <3>1, <3>2, <3>3, <3>4
    <2> QED
      BY <2>1, <2>2, <2>3, SettlingKeepsOnce
  <1> QED
    BY <1>1, <1>2, <1>3, <1>4, DeliverKeepsOnce, TakeKeepsOnce
    DEF Next, Callback, vars, Arrive, Lose, DelayOver, AckWait, Subscribe

LEMMA OnceInit == Init => OnceInv
  BY TypeInit DEF Init, OnceInv, Counted, OnePlace, SettlesOnce, Active

-----------------------------------------------------------------------------
(* Bounded attempts *)

\* The set-up of docs/guide/patterns/pull-consumer.md, as far as the bound needs
\* it: every handler is wrapped in RetryAck with a limit of deliveries, and the
\* acker reports them.
RetriesAreBounded ==
  /\ \A w \in Workers : Wrapped[w] = "RetryAck"
  /\ MaxDeliveries > 0
  /\ "DeliveryReporter" \in Implements

\* A delivery is handled once, while it is in the callback.
HandledOnce ==
  /\ \A w \in Workers : \A i \in 1 .. Len(inbox[w]) : inbox[w][i].dc >= 1
  /\ \A w \in Workers : Active(w) => job[w].dc >= 1
  /\ \A e \in ended : e.dc >= 1 /\ e.dc <= count[e.m]
  /\ \A e \in ended : \A w \in Workers : \A i \in 1 .. Len(inbox[w]) : inbox[w][i] # DeliveryOf(e)
  /\ \A e \in ended : \A w \in Workers : pc[w] = "received" => job[w] # DeliveryOf(e)
  /\ \A w \in Workers : pc[w] = "received" => ~ settled[w]
  /\ \A e, f \in ended : DeliveryOf(e) = DeliveryOf(f) => e = f
  /\ wire \subseteq sent

\* Steps that handle nothing and take no delivery from an inbox to a callback.
LEMMA OthersKeepHandled ==
  ASSUME HandledOnce, UNCHANGED <<count, job, ended>>, wire' \subseteq sent',
         \A w \in Workers :
           /\ Active(w)' => Active(w)
           /\ pc'[w] = "received" => pc[w] = "received" /\ settled'[w] = settled[w]
           /\ inbox'[w] = inbox[w] \/ inbox'[w] = <<>>
  PROVE  HandledOnce'
  <1>1. ASSUME NEW w \in Workers, NEW i \in 1 .. Len(inbox'[w])
        PROVE  i \in 1 .. Len(inbox[w]) /\ inbox'[w][i] = inbox[w][i]
    <2>1. CASE inbox'[w] = inbox[w]
      BY <2>1
    <2>2. CASE inbox'[w] = <<>>
      BY <2>2
    <2> QED
      BY <2>1, <2>2
  <1> QED
    BY <1>1 DEF HandledOnce, DeliveryOf

\* A new delivery has a number of its own.
LEMMA DeliverKeepsHandled ==
  ASSUME OnceInv, HandledOnce, NEW w \in Workers, NEW m \in Messages, Deliver(w, m)
  PROVE  HandledOnce'
  <1> DEFINE d == [m |-> m, dc |-> count[m] + 1]
  <1> USE DEF server, callback, bounds, history
  <1>1. /\ count' = [count EXCEPT ![m] = @ + 1]
        /\ inbox' = [inbox EXCEPT ![w] = Append(@, d)]
        /\ UNCHANGED <<wire, pc, job, settled, sent, ended>>
    BY DEF Deliver
  <1>2. TypeOK
    BY DEF OnceInv
  <1>3. d.m = m /\ d.dc = count[m] + 1 /\ count[m] \in Nat
    BY <1>2 DEF TypeOK
  <1> HIDE DEF d
  <1>4. ASSUME NEW v \in Workers, NEW i \in 1 .. Len(inbox'[v])
        PROVE  \/ i \in 1 .. Len(inbox[v]) /\ inbox'[v][i] = inbox[v][i]
               \/ inbox'[v][i] = d
    <2>1. CASE v = w
      BY <1>1, <1>2, <2>1 DEF TypeOK
    <2>2. CASE v # w
      BY <1>1, <1>2, <2>2 DEF TypeOK
    <2> QED
      BY <2>1, <2>2
  <1>5. ASSUME NEW e \in ended
        PROVE  /\ e.m \in Messages /\ e.dc \in Nat
               /\ e.dc <= count[e.m] /\ e.dc <= count'[e.m]
               /\ DeliveryOf(e) # d
    <2>1. e.m \in Messages /\ e.dc \in Nat /\ e.dc <= count[e.m]
      BY <1>2 DEF TypeOK, Outcome, HandledOnce
    <2>2. count[e.m] \in Nat /\ count'[e.m] \in Nat /\ count[e.m] <= count'[e.m]
      BY <1>1, <1>2, <2>1 DEF TypeOK
    <2> QED
      BY <1>3, <2>1, <2>2 DEF DeliveryOf
  <1>6. \A v \in Workers : \A i \in 1 .. Len(inbox'[v]) : inbox'[v][i].dc >= 1
    BY <1>3, <1>4 DEF HandledOnce
  <1>7. \A e \in ended' : \A v \in Workers : \A i \in 1 .. Len(inbox'[v]) :
          inbox'[v][i] # DeliveryOf(e)
    BY <1>1, <1>4, <1>5 DEF HandledOnce
  <1> QED
    BY <1>1, <1>5, <1>6, <1>7 DEF HandledOnce, Active, DeliveryOf

\* The delivery taken has not been handled before.
LEMMA TakeKeepsHandled ==
  ASSUME OnceInv, HandledOnce, NEW w \in Workers, Take(w)
  PROVE  HandledOnce'
  <1> USE DEF server, callback, bounds, history
  <1>1. TypeOK
    BY DEF OnceInv
  <1>2. /\ inbox[w] # <<>>
        /\ job' = [job EXCEPT ![w] = Head(inbox[w])]
        /\ inbox' = [inbox EXCEPT ![w] = Tail(@)]
        /\ settled' = [settled EXCEPT ![w] = FALSE]
        /\ pc' = [pc EXCEPT ![w] = "received"]
        /\ UNCHANGED <<count, wire, sent, ended>>
    BY DEF Take
  <1>3. inbox[w] \in Seq(Delivery) /\ 1 \in 1 .. Len(inbox[w]) /\ job'[w] = inbox[w][1]
    BY <1>1, <1>2 DEF TypeOK
  <1>4. ASSUME NEW v \in Workers, NEW i \in 1 .. Len(inbox'[v])
        PROVE  \E j \in 1 .. Len(inbox[v]) : inbox'[v][i] = inbox[v][j]
    <2>1. CASE v = w
      <3>1. inbox'[w] = Tail(inbox[w])
        BY <1>1, <1>2 DEF TypeOK
      <3>2. i + 1 \in 1 .. Len(inbox[w]) /\ inbox'[w][i] = inbox[w][i + 1]
        BY <1>3, <2>1, <3>1
      <3> QED
        BY <2>1, <3>2
    <2>2. CASE v # w
      BY <1>1, <1>2, <2>2 DEF TypeOK
    <2> QED
      BY <2>1, <2>2
  <1>5. ASSUME NEW v \in Workers, v # w
        PROVE  pc'[v] = pc[v] /\ job'[v] = job[v] /\ settled'[v] = settled[v]
    BY <1>1, <1>2, <1>5 DEF TypeOK
  <1>6. ~ settled'[w]
    BY <1>1, <1>2 DEF TypeOK
  <1>7. \A v \in Workers : \A i \in 1 .. Len(inbox'[v]) : inbox'[v][i].dc >= 1
    BY <1>4 DEF HandledOnce
  <1>8. \A v \in Workers : Active(v)' => job'[v].dc >= 1
    BY <1>3, <1>5 DEF HandledOnce, Active
  <1>9. ASSUME NEW e \in ended', NEW v \in Workers
        PROVE  /\ \A i \in 1 .. Len(inbox'[v]) : inbox'[v][i] # DeliveryOf(e)
               /\ pc'[v] = "received" => job'[v] # DeliveryOf(e)
    <2>1. e \in ended
      BY <1>2
    <2>2. \A u \in Workers : \A j \in 1 .. Len(inbox[u]) : inbox[u][j] # DeliveryOf(e)
      BY <2>1 DEF HandledOnce
    <2>3. \A i \in 1 .. Len(inbox'[v]) : inbox'[v][i] # DeliveryOf(e)
      BY <1>4, <2>2
    <2>4. CASE v = w
      BY <1>3, <2>2, <2>3, <2>4
    <2>5. CASE v # w
      BY <1>5, <2>1, <2>3, <2>5 DEF HandledOnce
    <2> QED
      BY <2>4, <2>5
  <1>10. \A v \in Workers : pc'[v] = "received" => ~ settled'[v]
    BY <1>5, <1>6 DEF HandledOnce
  <1> QED
    BY <1>2, <1>7, <1>8, <1>9, <1>10 DEF HandledOnce, DeliveryOf

\* A callback handles its delivery and is done with handling.
LEMMA HandleKeepsHandled ==
  ASSUME OnceInv, HandledOnce, NEW w \in Workers, Handle(w)
  PROVE  HandledOnce'
  <1> USE DEF server, callback, bounds, history
  <1>1. TypeOK
    BY DEF OnceInv
  <1>2. PICK out \in {"ok", "retry", "fatal"} :
          ended' = ended \cup {[m |-> job[w].m, dc |-> job[w].dc, out |-> out]}
    BY DEF Handle
  <1> DEFINE e0 == [m |-> job[w].m, dc |-> job[w].dc, out |-> out]
  <1>3. /\ pc[w] = "received" /\ pc' = [pc EXCEPT ![w] = "handled"]
        /\ UNCHANGED <<count, job, inbox, settled, wire, sent>>
        /\ ended' = ended \cup {e0}
    BY <1>2 DEF Handle
  <1>4. DeliveryOf(e0) = job[w] /\ e0.m = job[w].m /\ e0.dc = job[w].dc
    BY <1>1 DEF TypeOK, Delivery, DeliveryOf
  <1> HIDE DEF e0
  <1>5. \A e \in ended : DeliveryOf(e) # DeliveryOf(e0)
    BY <1>3, <1>4 DEF HandledOnce
  <1>6. \A v \in Workers : pc'[v] = "received" => pc[v] = "received" /\ v # w /\ job[v] # job[w]
    BY <1>1, <1>3 DEF TypeOK, OnceInv, OnePlace, Active
  <1>7. Active(w) /\ \A v \in Workers : Active(v)' => Active(v)
    BY <1>1, <1>3 DEF TypeOK, Active
  <1>8. \A v \in Workers : \A i \in 1 .. Len(inbox[v]) : inbox[v][i] # job[w]
    BY <1>7 DEF OnceInv, OnePlace
  <1>9. e0.dc >= 1 /\ e0.dc <= count[e0.m]
    BY <1>4, <1>7 DEF OnceInv, Counted, HandledOnce
  <1>10. \A e \in ended' : \A v \in Workers : pc'[v] = "received" => job'[v] # DeliveryOf(e)
    BY <1>3, <1>4, <1>6 DEF HandledOnce
  <1>11. \A e, f \in ended' : DeliveryOf(e) = DeliveryOf(f) => e = f
    BY <1>3, <1>5 DEF HandledOnce
  <1>12. \A e \in ended' : e.dc >= 1 /\ e.dc <= count'[e.m]
    BY <1>3, <1>9 DEF HandledOnce
  <1>13. \A e \in ended' : \A v \in Workers : \A i \in 1 .. Len(inbox'[v]) :
           inbox'[v][i] # DeliveryOf(e)
    BY <1>3, <1>4, <1>8 DEF HandledOnce
  <1> QED
    BY <1>3, <1>6, <1>7, <1>10, <1>11, <1>12, <1>13 DEF HandledOnce, DeliveryOf

\* No step has a delivery handled again.
LEMMA HandledOnceStep ==
  ASSUME OnceInv, HandledOnce, [Next]_vars
  PROVE  HandledOnce'
  <1> USE DEF server, callback, bounds, history
  <1>1. TypeOK
    BY DEF OnceInv
  <1>2. wire \subseteq sent
    BY DEF HandledOnce
  <1>3. ASSUME UNCHANGED <<count, sent, inbox, callback, ended>>, wire' \subseteq wire
        PROVE  HandledOnce'
    BY <1>2, <1>3, OthersKeepHandled DEF Active
  <1>4. ASSUME NEW w \in Workers, Stop(w) \/ Crash(w)
        PROVE  HandledOnce'
    <2>1. /\ UNCHANGED <<count, job, sent, settled, wire, ended>>
          /\ inbox' = [inbox EXCEPT ![w] = <<>>]
          /\ UNCHANGED pc \/ pc' = [pc EXCEPT ![w] = "idle"]
      BY <1>4 DEF Stop, Crash
    <2>2. \A v \in Workers : /\ Active(v)' => Active(v)
                             /\ pc'[v] = "received" => pc[v] = "received"
                             /\ inbox'[v] = inbox[v] \/ inbox'[v] = <<>>
      BY <1>1, <2>1 DEF TypeOK, Active
    <2> QED
      BY <1>2, <2>1, <2>2, OthersKeepHandled
  <1>5. ASSUME NEW w \in Workers,
               RejectUndecodable(w) \/ PassThrough(w) \/ AutoAck(w) \/ RetryAck(w) \/ Finish(w)
        PROVE  HandledOnce'
    <2>1. /\ UNCHANGED <<count, job, inbox, ended>>
          /\ Active(w)
          /\ \E st \in {"returned", "idle"} : pc' = [pc EXCEPT ![w] = st]
      BY <1>5 DEF RejectUndecodable, PassThrough, AutoAck, RetryAck, Returned, Finish, Active
    <2>2. \/ UNCHANGED <<wire, sent, settled>>
          \/ \E type \in {"ack", "nak", "nakDelay", "term"} : Sends(w, type)
      <3>1. CASE RejectUndecodable(w)
        BY <3>1 DEF RejectUndecodable, Refuses
      <3>2. CASE AutoAck(w)
        BY <3>2 DEF AutoAck, AckSuccess, Refuses
      <3>3. CASE RetryAck(w)
        BY <3>3, OnWireType DEF RetryAck, AckSuccess, Refuses
      <3>4. CASE Finish(w)
        BY <3>4 DEF Finish, Refuses
      <3>5. CASE PassThrough(w)
        BY <3>5 DEF PassThrough
      <3> QED
        BY <1>5, <3>1, <3>2, <3>3, <3>4, <3>5
    <2>3. /\ wire' \subseteq sent'
          /\ \A v \in Workers : v # w => settled'[v] = settled[v]
      BY <1>1, <1>2, <2>2 DEF TypeOK, Sends
    <2>4. \A v \in Workers : /\ Active(v)' => Active(v)
                             /\ pc'[v] = "received" => pc[v] = "received" /\ v # w
      BY <1>1, <2>1 DEF TypeOK, Active
    <2> QED
      BY <2>1, <2>3, <2>4, OthersKeepHandled
  <1>6. ASSUME NEW a \in wire, Arrive(a) \/ Lose(a)
        PROVE  HandledOnce'
    BY <1>3, <1>6 DEF Arrive, Lose
  <1> QED
    BY <1>3, <1>4, <1>5, <1>6, DeliverKeepsHandled, TakeKeepsHandled, HandleKeepsHandled
    DEF Next, Callback, vars, DelayOver, AckWait, Subscribe

-----------------------------------------------------------------------------
\* What a message still has to come: a delivery that waits in an inbox, is with
\* a callback that has not settled it, or has its settlement on the way ...
InBox(m, k) ==
  \E w \in Workers : \E i \in 1 .. Len(inbox[w]) : inbox[w][i] = [m |-> m, dc |-> k]

InHand(w, m, k) == Active(w) /\ ~ settled[w] /\ job[w] = [m |-> m, dc |-> k]

InPlay(m, k) ==
  \/ InBox(m, k)
  \/ \E w \in Workers : InHand(w, m, k)
  \/ \E a \in wire : a.m = m /\ a.dc = k

\* ... among them those that may bring it back to the server, ...
GivenUp(w) == pc[w] = "handled" /\ result[w] # "ok" /\ GivesUp(w)

Chance(m, k) ==
  \/ InBox(m, k)
  \/ \E w \in Workers : InHand(w, m, k) /\ ~ GivenUp(w)
  \/ \E a \in wire : a.m = m /\ a.dc = k /\ a.type \in {"nak", "nakDelay"}

\* ... and the delivery the server owes, at once or when AckWait is over.
Owed(m) ==
  \/ status[m] \in {"ready", "delayed"}
  \/ status[m] = "pending" /\ \A k \in Nat : ~ InPlay(m, k)

\* A handler's error at or beyond the limit.
Late(m, k) ==
  k >= MaxDeliveries /\ \E e \in ended : e.m = m /\ e.dc = k /\ e.out # "ok"

Tokens(m) ==
  {t \in {"owed", "chance", "late"} \X Nat :
     \/ t = <<"owed", 0>> /\ Owed(m)
     \/ t[1] = "chance" /\ Chance(m, t[2])
     \/ t[1] = "late" /\ Late(m, t[2])}

\* An attempt beyond the limit ends its delivery's chances, so each of them but
\* the first has to be paid for with a fault.
Lives(m) == IsFiniteSet(Tokens(m)) /\ Cardinality(Tokens(m)) <= 1 + faults

\* The tokens, one by one.
LEMMA TokenKinds ==
  ASSUME NEW m
  PROVE  /\ <<"owed", 0>> \in Tokens(m) <=> Owed(m)
         /\ \A k \in Nat : <<"chance", k>> \in Tokens(m) <=> Chance(m, k)
         /\ \A k \in Nat : <<"late", k>> \in Tokens(m) <=> Late(m, k)
         /\ \A t \in Tokens(m) : \/ t = <<"owed", 0>> /\ Owed(m)
                                 \/ \E k \in Nat : t = <<"chance", k>> /\ Chance(m, k)
                                 \/ \E k \in Nat : t = <<"late", k>> /\ Late(m, k)
  <1> DEFINE K == {"owed", "chance", "late"} \X Nat
  <1>1. \A k \in Nat : <<"owed", k>> \in K /\ <<"chance", k>> \in K /\ <<"late", k>> \in K
    OBVIOUS
  <1>2. \A t \in K : t = <<t[1], t[2]>> /\ t[1] \in {"owed", "chance", "late"} /\ t[2] \in Nat
    OBVIOUS
  <1>3. \A t : t \in Tokens(m) <=>
          /\ t \in K
          /\ \/ t = <<"owed", 0>> /\ Owed(m)
             \/ t[1] = "chance" /\ Chance(m, t[2])
             \/ t[1] = "late" /\ Late(m, t[2])
    BY DEF Tokens
  <1> HIDE DEF K
  <1>4. \A k \in Nat : /\ <<"chance", k>>[1] = "chance" /\ <<"chance", k>>[2] = k
                       /\ <<"late", k>>[1] = "late" /\ <<"late", k>>[2] = k
                       /\ <<"chance", k>> # <<"owed", 0>> /\ <<"late", k>> # <<"owed", 0>>
                       /\ <<"late", k>>[1] # "chance"
    OBVIOUS
  <1>5. <<"owed", 0>>[1] = "owed"
    OBVIOUS
  <1>6. <<"owed", 0>> \in Tokens(m) <=> Owed(m)
    BY <1>1, <1>3, <1>5
  <1>7. ASSUME NEW k \in Nat
        PROVE  <<"chance", k>> \in Tokens(m) <=> Chance(m, k)
    BY <1>1, <1>3, <1>4
  <1>8. ASSUME NEW k \in Nat
        PROVE  <<"late", k>> \in Tokens(m) <=> Late(m, k)
    <2>1. <<"late", k>> \in Tokens(m) <=>
            \/ <<"late", k>> = <<"owed", 0>> /\ Owed(m)
            \/ <<"late", k>>[1] = "chance" /\ Chance(m, <<"late", k>>[2])
            \/ <<"late", k>>[1] = "late" /\ Late(m, <<"late", k>>[2])
      BY <1>1, <1>3, Zenon
    <2> QED
      BY <1>4, <2>1
  <1>9. ASSUME NEW t \in Tokens(m)
        PROVE  \/ t = <<"owed", 0>> /\ Owed(m)
               \/ \E k \in Nat : t = <<"chance", k>> /\ Chance(m, k)
               \/ \E k \in Nat : t = <<"late", k>> /\ Late(m, k)
    BY <1>2, <1>3
  <1> QED
    BY <1>6, <1>7, <1>8, <1>9

\* The same in the next state.
LEMMA TokenKindsNext ==
  ASSUME NEW m
  PROVE  /\ <<"owed", 0>> \in Tokens(m)' <=> Owed(m)'
         /\ \A k \in Nat : <<"chance", k>> \in Tokens(m)' <=> Chance(m, k)'
         /\ \A k \in Nat : <<"late", k>> \in Tokens(m)' <=> Late(m, k)'
         /\ \A t \in Tokens(m)' : \/ t = <<"owed", 0>> /\ Owed(m)'
                                  \/ \E k \in Nat : t = <<"chance", k>> /\ Chance(m, k)'
                                  \/ \E k \in Nat : t = <<"late", k>> /\ Late(m, k)'
  <1> DEFINE K == {"owed", "chance", "late"} \X Nat
  <1>1. \A k \in Nat : <<"owed", k>> \in K /\ <<"chance", k>> \in K /\ <<"late", k>> \in K
    OBVIOUS
  <1>2. \A t \in K : t = <<t[1], t[2]>> /\ t[1] \in {"owed", "chance", "late"} /\ t[2] \in Nat
    OBVIOUS
  <1>3. \A t : t \in Tokens(m)' <=>
          /\ t \in K
          /\ \/ t = <<"owed", 0>> /\ Owed(m)'
             \/ t[1] = "chance" /\ Chance(m, t[2])'
             \/ t[1] = "late" /\ Late(m, t[2])'
    BY DEF Tokens
  <1> HIDE DEF K
  <1>4. \A k \in Nat : /\ <<"chance", k>>[1] = "chance" /\ <<"chance", k>>[2] = k
                       /\ <<"late", k>>[1] = "late" /\ <<"late", k>>[2] = k
                       /\ <<"chance", k>> # <<"owed", 0>> /\ <<"late", k>> # <<"owed", 0>>
                       /\ <<"late", k>>[1] # "chance"
    OBVIOUS
  <1>5. <<"owed", 0>>[1] = "owed"
    OBVIOUS
  <1>6. <<"owed", 0>> \in Tokens(m)' <=> Owed(m)'
    BY <1>1, <1>3, <1>5
  <1>7. ASSUME NEW k \in Nat
        PROVE  <<"chance", k>> \in Tokens(m)' <=> Chance(m, k)'
    BY <1>1, <1>3, <1>4
  <1>8. ASSUME NEW k \in Nat
        PROVE  <<"late", k>> \in Tokens(m)' <=> Late(m, k)'
    <2>1. <<"late", k>> \in Tokens(m)' <=>
            \/ <<"late", k>> = <<"owed", 0>> /\ Owed(m)'
            \/ <<"late", k>>[1] = "chance" /\ Chance(m, <<"late", k>>[2])'
            \/ <<"late", k>>[1] = "late" /\ Late(m, <<"late", k>>[2])'
      BY <1>1, <1>3, Zenon
    <2> QED
      BY <1>4, <2>1
  <1>9. ASSUME NEW t \in Tokens(m)'
        PROVE  \/ t = <<"owed", 0>> /\ Owed(m)'
               \/ \E k \in Nat : t = <<"chance", k>> /\ Chance(m, k)'
               \/ \E k \in Nat : t = <<"late", k>> /\ Late(m, k)'
    BY <1>2, <1>3
  <1> QED
    BY <1>6, <1>7, <1>8, <1>9

\* A step that adds no token keeps the balance ...
LEMMA NoNewToken ==
  ASSUME NEW m, Lives(m), faults \in Nat, faults' \in Nat, faults <= faults',
         Owed(m)' => Owed(m),
         \A k \in Nat : (Chance(m, k)' => Chance(m, k)) /\ (Late(m, k)' => Late(m, k))
  PROVE  Lives(m)'
  <1>1. Tokens(m)' \in SUBSET Tokens(m)
    BY TokenKinds, TokenKindsNext
  <1>2. IsFiniteSet(Tokens(m)') /\ Cardinality(Tokens(m)') <= Cardinality(Tokens(m))
    BY <1>1, FS_Subset DEF Lives
  <1>3. Cardinality(Tokens(m)) \in Nat /\ Cardinality(Tokens(m)') \in Nat
    BY <1>2, FS_CardinalityType DEF Lives
  <1> QED
    BY <1>2, <1>3 DEF Lives

\* ... so does a fault that adds one ...
LEMMA PaidByFault ==
  ASSUME NEW m, Lives(m), faults \in Nat, faults' = faults + 1, NEW t,
         Tokens(m)' \subseteq Tokens(m) \cup {t}
  PROVE  Lives(m)'
  <1> DEFINE S == Tokens(m) \cup {t}
  <1>0. IsFiniteSet(Tokens(m)) /\ Cardinality(Tokens(m)) \in Nat
    BY FS_CardinalityType DEF Lives
  <1>a. /\ IsFiniteSet(S)
        /\ Cardinality(S) = IF t \in Tokens(m) THEN Cardinality(Tokens(m)) ELSE Cardinality(Tokens(m)) + 1
    BY <1>0, FS_AddElement, Zenon
  <1>1. IsFiniteSet(S) /\ Cardinality(S) <= Cardinality(Tokens(m)) + 1
    BY <1>0, <1>a
  <1>2. Tokens(m)' \in SUBSET S
    OBVIOUS
  <1> HIDE DEF S
  <1>3. IsFiniteSet(Tokens(m)') /\ Cardinality(Tokens(m)') <= Cardinality(S)
    BY <1>1, <1>2, FS_Subset
  <1>4. /\ Cardinality(Tokens(m)) \in Nat /\ Cardinality(Tokens(m)') \in Nat
        /\ Cardinality(S) \in Nat
    BY <1>1, <1>3, FS_CardinalityType DEF Lives
  <1> QED
    BY <1>1, <1>3, <1>4 DEF Lives

\* ... and one that exchanges a token for another.
LEMMA Exchanged ==
  ASSUME NEW m, Lives(m), faults \in Nat, faults' \in Nat, faults <= faults',
         NEW s \in Tokens(m), s \notin Tokens(m)', NEW t,
         Tokens(m)' \subseteq Tokens(m) \cup {t}
  PROVE  Lives(m)'
  <1> DEFINE R == Tokens(m) \ {s}
  <1> DEFINE S == R \cup {t}
  <1>1. IsFiniteSet(R) /\ Cardinality(R) = Cardinality(Tokens(m)) - 1
    BY FS_RemoveElement DEF Lives
  <1>2. Tokens(m)' \in SUBSET S
    OBVIOUS
  <1> HIDE DEF R
  <1>0. Cardinality(R) \in Nat
    BY <1>1, FS_CardinalityType
  <1>a. /\ IsFiniteSet(S)
        /\ Cardinality(S) = IF t \in R THEN Cardinality(R) ELSE Cardinality(R) + 1
    BY <1>1, FS_AddElement, Zenon
  <1>3. IsFiniteSet(S) /\ Cardinality(S) <= Cardinality(R) + 1
    BY <1>0, <1>a
  <1> HIDE DEF S
  <1>4. IsFiniteSet(Tokens(m)') /\ Cardinality(Tokens(m)') <= Cardinality(S)
    BY <1>2, <1>3, FS_Subset
  <1>5. /\ Cardinality(Tokens(m)) \in Nat /\ Cardinality(Tokens(m)') \in Nat
        /\ Cardinality(S) \in Nat /\ Cardinality(R) \in Nat
    BY <1>1, <1>3, <1>4, FS_CardinalityType DEF Lives
  <1> QED
    BY <1>1, <1>3, <1>4, <1>5 DEF Lives

\* Where nothing changes for a worker, nothing changes in its hand.
LEMMA SameHand ==
  ASSUME NEW v \in Workers, pc'[v] = pc[v], job'[v] = job[v],
         settled'[v] = settled[v], result'[v] = result[v]
  PROVE  /\ \A m, k : InHand(v, m, k)' <=> InHand(v, m, k)
         /\ GivenUp(v)' <=> GivenUp(v)
  BY DEF InHand, GivenUp, GivesUp, NumDelivered, Active

\* A settlement takes the delivery's chance from the callback's hand to the
\* connection, or ends it.
LEMMA SendingKeepsLives ==
  ASSUME OnceInv, TypeOK', NEW m, Lives(m), NEW w \in Workers, Active(w),
         NEW type \in {"ack", "nak", "nakDelay", "term"}, Sends(w, type),
         type \in {"nak", "nakDelay"} => ~ GivenUp(w),
         UNCHANGED <<status, job, inbox, ended>>,
         \E st \in {"returned", "idle"} : pc' = [pc EXCEPT ![w] = st],
         \A v \in Workers \ {w} : result'[v] = result[v]
  PROVE  Lives(m)'
  <1> DEFINE a == [type |-> type, m |-> job[w].m, dc |-> job[w].dc]
  <1>1. TypeOK
    BY DEF OnceInv
  <1>2. /\ ~ settled[w] /\ wire' = wire \cup {a} /\ faults' = faults
        /\ settled' = [settled EXCEPT ![w] = TRUE]
    BY DEF Sends, NoFault
  <1>3. a.m = job[w].m /\ a.dc = job[w].dc /\ a.type = type /\ job[w] = [m |-> a.m, dc |-> a.dc]
    BY <1>1 DEF TypeOK, Delivery
  <1> HIDE DEF a
  <1>4. \A v \in Workers \ {w} :
          /\ \A n, k : InHand(v, n, k)' <=> InHand(v, n, k)
          /\ GivenUp(v)' <=> GivenUp(v)
    <2> SUFFICES ASSUME NEW v \in Workers \ {w}
                 PROVE  pc'[v] = pc[v] /\ job'[v] = job[v] /\ settled'[v] = settled[v]
      BY SameHand
    <2> QED
      BY <1>1, <1>2 DEF TypeOK
  <1>5. /\ \A n, k : ~ InHand(w, n, k)'
        /\ \A n, k : InHand(w, n, k) <=> n = a.m /\ k = a.dc
    BY <1>1, <1>2, <1>3 DEF InHand, TypeOK
  <1>6. \A n, k : InBox(n, k)' <=> InBox(n, k)
    BY DEF InBox
  <1>7. \A k : InPlay(m, k)' <=> InPlay(m, k)
    BY <1>2, <1>4, <1>5, <1>6 DEF InPlay
  <1>8. \A k : Chance(m, k)' => Chance(m, k)
    BY <1>2, <1>3, <1>4, <1>5, <1>6 DEF Chance
  <1>9. Owed(m)' => Owed(m)
    BY <1>7 DEF Owed
  <1>10. \A k : Late(m, k)' => Late(m, k)
    BY DEF Late
  <1> QED
    BY <1>1, <1>2, <1>8, <1>9, <1>10, NoNewToken DEF TypeOK

\* A settlement that does not go out has been sent before, or is a fault.
LEMMA RefusingKeepsLives ==
  ASSUME OnceInv, TypeOK', NEW m, Lives(m), NEW w \in Workers, Active(w), Refuses(w),
         UNCHANGED <<status, job, inbox, ended>>,
         \E st \in {"returned", "idle"} : pc' = [pc EXCEPT ![w] = st],
         \A v \in Workers \ {w} : result'[v] = result[v]
  PROVE  Lives(m)'
  <1>1. TypeOK
    BY DEF OnceInv
  <1>2. UNCHANGED <<wire, settled>> /\ faults \in Nat /\ faults' \in Nat
    BY <1>1 DEF Refuses, TypeOK
  <1>3. \A v \in Workers \ {w} :
          /\ \A n, k : InHand(v, n, k)' <=> InHand(v, n, k)
          /\ GivenUp(v)' <=> GivenUp(v)
    <2> SUFFICES ASSUME NEW v \in Workers \ {w}
                 PROVE  pc'[v] = pc[v] /\ job'[v] = job[v] /\ settled'[v] = settled[v]
      BY SameHand
    <2> QED
      BY <1>1, <1>2 DEF TypeOK
  <1>4. \A n, k : InBox(n, k)' <=> InBox(n, k)
    BY DEF InBox
  <1>5. \A k : Late(m, k)' => Late(m, k)
    BY DEF Late
  <1>6. \A k : \/ Chance(m, k)' => Chance(m, k)
               \/ InHand(w, m, k)'
    BY <1>2, <1>3, <1>4 DEF Chance
  <1>7. CASE settled[w]
    <2>1. faults' = faults
      BY <1>7 DEF Refuses, NoFault
    <2>2. \A n, k : ~ InHand(w, n, k) /\ ~ InHand(w, n, k)'
      BY <1>2, <1>7 DEF InHand
    <2>3. \A k : InPlay(m, k)' <=> InPlay(m, k)
      BY <1>2, <1>3, <1>4, <2>2 DEF InPlay
    <2>4. Owed(m)' => Owed(m)
      BY <2>3 DEF Owed
    <2> QED
      BY <1>2, <1>5, <1>6, <2>1, <2>2, <2>4, NoNewToken
  <1>8. CASE ~ settled[w]
    <2>1. faults' = faults + 1
      BY <1>8 DEF Refuses, Fault
    <2>2. CASE pc' = [pc EXCEPT ![w] = "idle"]
      <3>1. \A k : ~ InHand(w, m, k)'
        BY <1>1, <2>2 DEF InHand, Active, TypeOK
      <3>2. Tokens(m)' \subseteq Tokens(m) \cup {<<"owed", 0>>}
        BY <1>5, <1>6, <3>1, TokenKinds, TokenKindsNext
      <3> QED
        BY <1>2, <2>1, <3>2, PaidByFault
    <2>3. CASE pc' = [pc EXCEPT ![w] = "returned"]
      <3>1. \A k : InHand(w, m, k)' => InHand(w, m, k) /\ k = job[w].dc
        BY <1>1, <1>2 DEF InHand, TypeOK
      <3>2. \A k : InHand(w, m, k) => InHand(w, m, k)'
        BY <1>1, <1>2, <2>3 DEF InHand, Active, TypeOK
      <3>3. \A k : InPlay(m, k)' <=> InPlay(m, k)
        BY <1>2, <1>3, <1>4, <3>1, <3>2 DEF InPlay
      <3>4. Owed(m)' => Owed(m)
        BY <3>3 DEF Owed
      <3>5. Tokens(m)' \subseteq Tokens(m) \cup {<<"chance", job[w].dc>>}
        BY <1>5, <1>6, <3>1, <3>4, TokenKinds, TokenKindsNext
      <3> QED
        BY <1>2, <2>1, <3>5, PaidByFault
    <2> QED
      BY <2>2, <2>3
  <1> QED
    BY <1>7, <1>8

\* A chance is dropped, and the server owes the next delivery at the most.
LEMMA DroppingKeepsLives ==
  ASSUME NEW m, Lives(m), faults \in Nat, faults' = faults,
         \A k \in Nat : (Chance(m, k)' => Chance(m, k)) /\ (Late(m, k)' => Late(m, k)),
         Owed(m)' => Owed(m) \/ \E k \in Nat : Chance(m, k) /\ ~ Chance(m, k)'
  PROVE  Lives(m)'
  <1>1. CASE Owed(m)' => Owed(m)
    BY <1>1, NoNewToken
  <1>2. CASE \E k \in Nat : Chance(m, k) /\ ~ Chance(m, k)'
    <2>1. PICK k \in Nat : Chance(m, k) /\ ~ Chance(m, k)'
      BY <1>2
    <2>2. <<"chance", k>> \in Tokens(m) /\ <<"chance", k>> \notin Tokens(m)'
      BY <2>1, TokenKinds, TokenKindsNext
    <2>3. Tokens(m)' \subseteq Tokens(m) \cup {<<"owed", 0>>}
      BY TokenKinds, TokenKindsNext
    <2> QED
      BY <2>2, <2>3, Exchanged
  <1> QED
    BY <1>1, <1>2

\* With WithManualAck the callback ends without a settlement.
LEMMA LeavingKeepsLives ==
  ASSUME OnceInv, NEW m, Lives(m), NEW w \in Workers, pc[w] = "returned",
         pc' = [pc EXCEPT ![w] = "idle"],
         UNCHANGED <<status, wire, job, result, settled, inbox, ended, faults>>
  PROVE  Lives(m)'
  <1>1. TypeOK
    BY DEF OnceInv
  <1>2. \A v \in Workers \ {w} :
          /\ \A n, k : InHand(v, n, k)' <=> InHand(v, n, k)
          /\ GivenUp(v)' <=> GivenUp(v)
    <2> SUFFICES ASSUME NEW v \in Workers \ {w} PROVE pc'[v] = pc[v]
      BY SameHand
    <2> QED
      BY <1>1 DEF TypeOK
  <1>3. \A n, k : ~ InHand(w, n, k)'
    BY <1>1 DEF InHand, Active, TypeOK
  <1>4. \A n, k : InBox(n, k)' <=> InBox(n, k)
    BY DEF InBox
  <1>5. \A k : (Chance(m, k)' => Chance(m, k)) /\ (Chance(m, k)' => InPlay(m, k)')
    BY <1>2, <1>3, <1>4 DEF Chance, InPlay
  <1>6. ASSUME Owed(m)', ~ Owed(m)
        PROVE  \E k \in Nat : Chance(m, k) /\ ~ Chance(m, k)'
    <2>1. PICK k \in Nat : InPlay(m, k) /\ ~ InPlay(m, k)'
      BY <1>6 DEF Owed
    <2>2. InHand(w, m, k)
      BY <1>2, <1>4, <2>1 DEF InPlay
    <2>3. Chance(m, k)
      BY <2>2 DEF Chance, GivenUp
    <2> QED
      BY <1>5, <2>1, <2>3
  <1>7. \A k : Late(m, k)' => Late(m, k)
    BY DEF Late
  <1> QED
    BY <1>1, <1>5, <1>6, <1>7, DroppingKeepsLives DEF TypeOK

\* Stop drops what is in the inbox.
LEMMA StopKeepsLives ==
  ASSUME OnceInv, NEW m, Lives(m), NEW w \in Workers, Stop(w)
  PROVE  Lives(m)'
  <1> USE DEF server, callback, bounds, history
  <1>1. TypeOK
    BY DEF OnceInv
  <1>2. /\ UNCHANGED <<status, wire, pc, job, result, settled, ended, faults>>
        /\ inbox' = [inbox EXCEPT ![w] = <<>>]
    BY DEF Stop
  <1>3. \A v \in Workers : /\ \A n, k : InHand(v, n, k)' <=> InHand(v, n, k)
                           /\ GivenUp(v)' <=> GivenUp(v)
    BY <1>2, SameHand
  <1>4. \A n, k : InBox(n, k)' => InBox(n, k)
    BY <1>1, <1>2 DEF InBox, TypeOK
  <1>5. \A k : (Chance(m, k)' => Chance(m, k)) /\ (Chance(m, k)' => InPlay(m, k)')
    BY <1>2, <1>3, <1>4 DEF Chance, InPlay
  <1>6. ASSUME Owed(m)', ~ Owed(m)
        PROVE  \E k \in Nat : Chance(m, k) /\ ~ Chance(m, k)'
    <2>1. PICK k \in Nat : InPlay(m, k) /\ ~ InPlay(m, k)'
      BY <1>2, <1>6 DEF Owed
    <2>2. InBox(m, k)
      BY <1>2, <1>3, <2>1 DEF InPlay
    <2> QED
      BY <1>5, <2>1, <2>2 DEF Chance
  <1>7. \A k : Late(m, k)' => Late(m, k)
    BY <1>2 DEF Late
  <1> QED
    BY <1>1, <1>2, <1>5, <1>6, <1>7, DroppingKeepsLives DEF TypeOK

\* A crash, a lost settlement and an early AckWait are faults: the server owes
\* the next delivery.
LEMMA FaultsKeepLives ==
  ASSUME OnceInv, NEW m, Lives(m),
         \/ \E w \in Workers : Crash(w)
         \/ \E a \in wire : Lose(a)
         \/ \E n \in Messages : AckWait(n) /\ Held(n)
  PROVE  Lives(m)'
  <1> USE DEF server, callback, bounds, history
  <1>1. TypeOK
    BY DEF OnceInv
  <1>2. /\ UNCHANGED <<job, result, settled, ended>> /\ faults' = faults + 1
        /\ wire' \subseteq wire
    BY DEF Crash, Lose, AckWait, Fault
  <1>3. \A v \in Workers : /\ pc'[v] = pc[v] \/ pc'[v] = "idle"
                           /\ inbox'[v] = inbox[v] \/ inbox'[v] = <<>>
    BY <1>1 DEF Crash, Lose, AckWait, TypeOK
  <1>4. \A n, k : InBox(n, k)' => InBox(n, k)
    <2> SUFFICES ASSUME NEW v \in Workers, NEW i \in 1 .. Len(inbox'[v])
                 PROVE  i \in 1 .. Len(inbox[v]) /\ inbox'[v][i] = inbox[v][i]
      BY DEF InBox
    <2>1. CASE inbox'[v] = inbox[v]
      BY <2>1
    <2>2. CASE inbox'[v] = <<>>
      BY <2>2
    <2> QED
      BY <1>3, <2>1, <2>2
  <1>5. \A v \in Workers : \A n, k : InHand(v, n, k)' /\ ~ GivenUp(v)' =>
          InHand(v, n, k) /\ ~ GivenUp(v)
    BY <1>2, <1>3 DEF InHand, Active, GivenUp, GivesUp, NumDelivered
  <1>6. \A k : (Chance(m, k)' => Chance(m, k)) /\ (Late(m, k)' => Late(m, k))
    BY <1>2, <1>4, <1>5 DEF Chance, Late
  <1>7. Tokens(m)' \subseteq Tokens(m) \cup {<<"owed", 0>>}
    BY <1>6, TokenKinds, TokenKindsNext
  <1> QED
    BY <1>1, <1>2, <1>7, PaidByFault DEF TypeOK

\* AckWait that is over when nobody holds the message was owed before.
LEMMA WaitingKeepsLives ==
  ASSUME OnceInv, NEW m, Lives(m), faults' = faults, UNCHANGED <<wire, inbox, callback, ended>>,
         \/ UNCHANGED status
         \/ \E n \in Messages : DelayOver(n)
         \/ \E n \in Messages : AckWait(n) /\ ~ Held(n)
  PROVE  Lives(m)'
  <1> USE DEF server, callback, bounds, history
  <1>1. TypeOK
    BY DEF OnceInv
  <1>2. \A v \in Workers : /\ \A n, k : InHand(v, n, k)' <=> InHand(v, n, k)
                           /\ GivenUp(v)' <=> GivenUp(v)
    BY SameHand
  <1>3. /\ \A n, k : InBox(n, k)' <=> InBox(n, k)
        /\ \A k : Late(m, k)' => Late(m, k)
    BY DEF InBox, Late
  <1>4. \A k : (InPlay(m, k)' <=> InPlay(m, k)) /\ (Chance(m, k)' => Chance(m, k))
    BY <1>2, <1>3 DEF InPlay, Chance
  <1>5. Owed(m)' => Owed(m)
    <2>1. CASE UNCHANGED status
      BY <1>4, <2>1 DEF Owed
    <2>2. CASE \E n \in Messages : DelayOver(n)
      BY <1>1, <1>4, <2>2 DEF Owed, DelayOver, TypeOK
    <2>3. CASE \E n \in Messages : AckWait(n) /\ ~ Held(n)
      <3>1. PICK n \in Messages : AckWait(n) /\ ~ Held(n)
        BY <2>3
      <3>2. CASE m = n
        <4>1. \A k : ~ InBox(m, k)
          BY <3>1, <3>2 DEF Held, InBox
        <4>2. \A v \in Workers : \A k : ~ InHand(v, m, k)
          BY <3>1, <3>2 DEF Held, InHand, Active
        <4>3. \A a \in wire : a.m # m
          BY <3>1, <3>2 DEF Held
        <4> QED
          BY <3>1, <3>2, <4>1, <4>2, <4>3 DEF Owed, InPlay, AckWait
      <3>3. CASE m # n
        BY <1>1, <1>4, <3>1, <3>3 DEF Owed, AckWait, TypeOK
      <3> QED
        BY <3>2, <3>3
    <2> QED
      BY <2>1, <2>2, <2>3
  <1> QED
    BY <1>1, <1>3, <1>4, <1>5, NoNewToken DEF TypeOK

\* A delivery is the token the server owed.
LEMMA DeliverKeepsLives ==
  ASSUME OnceInv, NEW m \in Messages, Lives(m), NEW w \in Workers, NEW n \in Messages, Deliver(w, n)
  PROVE  Lives(m)'
  <1> DEFINE d == [m |-> n, dc |-> count[n] + 1]
  <1> USE DEF server, callback, bounds, history
  <1>1. TypeOK
    BY DEF OnceInv
  <1>2. /\ status[n] = "ready" /\ status' = [status EXCEPT ![n] = "pending"]
        /\ inbox' = [inbox EXCEPT ![w] = Append(@, d)]
        /\ UNCHANGED <<wire, pc, job, result, settled, faults, ended>>
    BY DEF Deliver
  <1>3. d.m = n /\ d.dc = count[n] + 1 /\ count[n] \in Nat /\ d \in Delivery
    BY <1>1 DEF TypeOK, Delivery
  <1> HIDE DEF d
  <1>4. \A v \in Workers : /\ \A j, k : InHand(v, j, k)' <=> InHand(v, j, k)
                           /\ GivenUp(v)' <=> GivenUp(v)
    BY <1>2, SameHand
  <1>5. ASSUME NEW v \in Workers, NEW i \in 1 .. Len(inbox'[v])
        PROVE  \/ i \in 1 .. Len(inbox[v]) /\ inbox'[v][i] = inbox[v][i]
               \/ inbox'[v][i] = d
    <2>1. CASE v = w
      BY <1>1, <1>2, <1>3, <2>1 DEF TypeOK
    <2>2. CASE v # w
      BY <1>1, <1>2, <2>2 DEF TypeOK
    <2> QED
      BY <2>1, <2>2
  <1>6. ASSUME NEW v \in Workers, NEW i \in 1 .. Len(inbox[v])
        PROVE  i \in 1 .. Len(inbox'[v]) /\ inbox'[v][i] = inbox[v][i]
    <2>1. CASE v = w
      BY <1>1, <1>2, <1>3, <2>1 DEF TypeOK
    <2>2. CASE v # w
      BY <1>1, <1>2, <2>2 DEF TypeOK
    <2> QED
      BY <2>1, <2>2
  <1>7. \E i \in 1 .. Len(inbox'[w]) : inbox'[w][i] = d
    <2>1. inbox'[w] = Append(inbox[w], d) /\ inbox[w] \in Seq(Delivery)
      BY <1>1, <1>2 DEF TypeOK
    <2>2. Len(inbox[w]) + 1 \in 1 .. Len(inbox'[w]) /\ inbox'[w][Len(inbox[w]) + 1] = d
      BY <1>3, <2>1
    <2> QED
      BY <2>2
  <1>8. \A k : /\ InBox(m, k)' => InBox(m, k) \/ (m = n /\ k = d.dc)
               /\ InBox(m, k) => InBox(m, k)'
    <2>1. ASSUME NEW k, InBox(m, k)'
          PROVE  InBox(m, k) \/ (m = n /\ k = d.dc)
      <3>1. PICK v \in Workers : \E i \in 1 .. Len(inbox'[v]) : inbox'[v][i] = [m |-> m, dc |-> k]
        BY <2>1 DEF InBox
      <3> QED
        BY <1>3, <1>5, <3>1 DEF InBox
    <2>2. ASSUME NEW k, InBox(m, k)
          PROVE  InBox(m, k)'
      <3>1. PICK v \in Workers : \E i \in 1 .. Len(inbox[v]) : inbox[v][i] = [m |-> m, dc |-> k]
        BY <2>2 DEF InBox
      <3>2. \E i \in 1 .. Len(inbox'[v]) : inbox'[v][i] = [m |-> m, dc |-> k]
        BY <1>6, <3>1
      <3> QED
        BY <3>2 DEF InBox
    <2> QED
      BY <2>1, <2>2
  <1>9. \A k : /\ Chance(m, k)' => Chance(m, k) \/ (m = n /\ k = d.dc)
               /\ InPlay(m, k) => InPlay(m, k)'
               /\ Late(m, k)' => Late(m, k)
    BY <1>2, <1>4, <1>8 DEF Chance, InPlay, Late
  <1>12. faults \in Nat /\ faults' = faults /\ faults' \in Nat /\ faults <= faults'
    BY <1>1, <1>2 DEF TypeOK
  <1>10. CASE m # n
    <2>1. status'[m] = status[m]
      BY <1>1, <1>2, <1>10 DEF TypeOK
    <2>2. Owed(m)' => Owed(m)
      BY <1>9, <2>1 DEF Owed
    <2> QED
      BY <1>8, <1>9, <1>10, <1>12, <2>2, NoNewToken
  <1>11. CASE m = n
    <2>0. PICK c \in Nat : c = d.dc
      BY <1>3
    <2>1. InPlay(m, c)'
      <3>1. d = [m |-> m, dc |-> c]
        BY <1>3, <1>11, <2>0 DEF Delivery
      <3>2. InBox(m, c)'
        BY <1>7, <3>1 DEF InBox
      <3> QED
        BY <3>2 DEF InPlay
    <2>2. Owed(m) /\ ~ Owed(m)'
      <3>1. status[m] = "ready" /\ status'[m] = "pending"
        BY <1>1, <1>2, <1>11 DEF TypeOK
      <3> QED
        BY <2>1, <3>1 DEF Owed
    <2>3. Tokens(m)' \subseteq Tokens(m) \cup {<<"chance", d.dc>>}
      BY <1>9, <2>2, TokenKinds, TokenKindsNext
    <2>4. <<"owed", 0>> \in Tokens(m) /\ <<"owed", 0>> \notin Tokens(m)'
      BY <2>2, TokenKinds, TokenKindsNext
    <2> QED
      BY <1>12, <2>3, <2>4, Exchanged
  <1> QED
    BY <1>10, <1>11

\* A delivery moves from the inbox to the hand.
LEMMA TakeKeepsLives ==
  ASSUME OnceInv, NEW m, Lives(m), NEW w \in Workers, Take(w)
  PROVE  Lives(m)'
  <1> USE DEF server, callback, bounds, history
  <1>1. TypeOK
    BY DEF OnceInv
  <1>2. /\ pc[w] = "idle" /\ inbox[w] # <<>>
        /\ job' = [job EXCEPT ![w] = Head(inbox[w])]
        /\ inbox' = [inbox EXCEPT ![w] = Tail(@)]
        /\ settled' = [settled EXCEPT ![w] = FALSE]
        /\ pc' = [pc EXCEPT ![w] = "received"]
        /\ UNCHANGED <<status, wire, result, faults, ended>>
    BY DEF Take
  <1>3. inbox[w] \in Seq(Delivery) /\ 1 \in 1 .. Len(inbox[w]) /\ job'[w] = inbox[w][1]
    BY <1>1, <1>2 DEF TypeOK
  <1>4. \A v \in Workers \ {w} :
          /\ \A n, k : InHand(v, n, k)' <=> InHand(v, n, k)
          /\ GivenUp(v)' <=> GivenUp(v)
    <2> SUFFICES ASSUME NEW v \in Workers \ {w}
                 PROVE  pc'[v] = pc[v] /\ job'[v] = job[v] /\ settled'[v] = settled[v]
      BY <1>2, SameHand
    <2> QED
      BY <1>1, <1>2 DEF TypeOK
  <1>5. /\ \A n, k : ~ InHand(w, n, k)
        /\ \A n, k : InHand(w, n, k)' <=> inbox[w][1] = [m |-> n, dc |-> k]
    BY <1>1, <1>2, <1>3 DEF InHand, Active, TypeOK
  <1>6. ASSUME NEW v \in Workers
        PROVE  /\ \A i \in 1 .. Len(inbox'[v]) : \E j \in 1 .. Len(inbox[v]) :
                    inbox'[v][i] = inbox[v][j]
               /\ \A j \in 1 .. Len(inbox[v]) :
                    \/ v = w /\ j = 1
                    \/ \E i \in 1 .. Len(inbox'[v]) : inbox'[v][i] = inbox[v][j]
    <2>1. CASE v = w
      <3>1. inbox'[w] = Tail(inbox[w])
        BY <1>1, <1>2 DEF TypeOK
      <3>2. ASSUME NEW i \in 1 .. Len(inbox'[w])
            PROVE  i + 1 \in 1 .. Len(inbox[w]) /\ inbox'[w][i] = inbox[w][i + 1]
        BY <1>3, <3>1
      <3>3. ASSUME NEW j \in 1 .. Len(inbox[w]), j # 1
            PROVE  j - 1 \in 1 .. Len(inbox'[w]) /\ inbox'[w][j - 1] = inbox[w][j]
        BY <1>3, <3>1, <3>3
      <3> QED
        BY <2>1, <3>2, <3>3
    <2>2. CASE v # w
      BY <1>1, <1>2, <2>2 DEF TypeOK
    <2> QED
      BY <2>1, <2>2
  <1>10. \A n, k : InBox(n, k)' => InBox(n, k)
    BY <1>6 DEF InBox
  <1>11. \A n, k : InHand(w, n, k)' => InBox(n, k)
    BY <1>3, <1>5 DEF InBox
  <1>12. ASSUME NEW n, NEW k, InBox(n, k)
         PROVE  InBox(n, k)' \/ InHand(w, n, k)'
    <2>0. PICK v \in Workers : \E j \in 1 .. Len(inbox[v]) : inbox[v][j] = [m |-> n, dc |-> k]
      BY <1>12 DEF InBox
    <2>1. PICK j \in 1 .. Len(inbox[v]) : inbox[v][j] = [m |-> n, dc |-> k]
      BY <2>0
    <2>2. CASE v = w /\ j = 1
      BY <1>5, <2>1, <2>2
    <2>3. CASE ~ (v = w /\ j = 1)
      <3>1. PICK i \in 1 .. Len(inbox'[v]) : inbox'[v][i] = inbox[v][j]
        BY <1>6, <2>3
      <3> QED
        BY <2>1, <3>1 DEF InBox
    <2> QED
      BY <2>2, <2>3
  <1>7. /\ \A n, k : InBox(n, k)' => InBox(n, k)
        /\ \A n, k : InBox(n, k) => InBox(n, k)' \/ InHand(w, n, k)'
        /\ \A n, k : InHand(w, n, k)' => InBox(n, k)
    BY <1>10, <1>11, <1>12
  <1>8. \A k : /\ Chance(m, k)' => Chance(m, k)
               /\ InPlay(m, k) => InPlay(m, k)'
               /\ Late(m, k)' => Late(m, k)
    BY <1>2, <1>4, <1>5, <1>7 DEF Chance, InPlay, Late
  <1>9. Owed(m)' => Owed(m)
    BY <1>2, <1>8 DEF Owed
  <1>13. faults \in Nat /\ faults' = faults /\ faults' \in Nat /\ faults <= faults'
    BY <1>1, <1>2 DEF TypeOK
  <1> QED
    BY <1>8, <1>9, <1>13, NoNewToken

\* A handler's error at or beyond the limit exchanges the delivery's chance for
\* the late attempt.
LEMMA HandleKeepsLives ==
  ASSUME RetriesAreBounded, OnceInv, HandledOnce, NEW m, Lives(m), NEW w \in Workers, Handle(w)
  PROVE  Lives(m)'
  <1> USE DEF server, callback, bounds, history
  <1>1. TypeOK
    BY DEF OnceInv
  <1>2. PICK out \in {"ok", "retry", "fatal"} :
          /\ result' = [result EXCEPT ![w] = out]
          /\ ended' = ended \cup {[m |-> job[w].m, dc |-> job[w].dc, out |-> out]}
    BY DEF Handle
  <1>3. /\ pc[w] = "received" /\ pc' = [pc EXCEPT ![w] = "handled"]
        /\ UNCHANGED <<status, wire, inbox, job, settled, faults>>
    BY DEF Handle
  <1>4. PICK c \in Nat : c = job[w].dc
    BY <1>1 DEF TypeOK, Delivery
  <1>5. job[w] = [m |-> job[w].m, dc |-> c] /\ ~ settled[w] /\ Active(w)
    BY <1>1, <1>3, <1>4 DEF TypeOK, Delivery, HandledOnce, Active
  <1>6. \A v \in Workers \ {w} :
          /\ \A n, k : InHand(v, n, k)' <=> InHand(v, n, k)
          /\ GivenUp(v)' <=> GivenUp(v)
    <2> SUFFICES ASSUME NEW v \in Workers \ {w}
                 PROVE  pc'[v] = pc[v] /\ result'[v] = result[v]
      BY <1>3, SameHand
    <2> QED
      BY <1>1, <1>2, <1>3 DEF TypeOK
  <1>7. /\ \A n, k : InHand(w, n, k)' <=> InHand(w, n, k)
        /\ ~ GivenUp(w)
    BY <1>1, <1>3 DEF InHand, GivenUp, Active, TypeOK
  <1>8. \A n, k : InBox(n, k)' <=> InBox(n, k)
    BY <1>3 DEF InBox
  <1>9. \A k : (InPlay(m, k)' <=> InPlay(m, k)) /\ (Chance(m, k)' => Chance(m, k))
    BY <1>3, <1>6, <1>7, <1>8 DEF InPlay, Chance
  <1>10. Owed(m)' => Owed(m)
    BY <1>3, <1>9 DEF Owed
  <1>11. faults \in Nat /\ faults' = faults /\ faults' \in Nat /\ faults <= faults'
    BY <1>1, <1>3 DEF TypeOK
  <1>12. \A k : Late(m, k)' =>
           \/ Late(m, k)
           \/ k >= MaxDeliveries /\ out # "ok" /\ m = job[w].m /\ k = c
    BY <1>2, <1>4 DEF Late
  <1>13. CASE ~ (c >= MaxDeliveries /\ out # "ok" /\ m = job[w].m)
    <2>1. \A k \in Nat : Late(m, k)' => Late(m, k)
      BY <1>12, <1>13
    <2> QED
      BY <1>9, <1>10, <1>11, <2>1, NoNewToken
  <1>14. CASE c >= MaxDeliveries /\ out # "ok" /\ m = job[w].m
    <2>1. job[w] = [m |-> m, dc |-> c] /\ InHand(w, m, c)
      BY <1>5, <1>14 DEF InHand
    <2>2. Chance(m, c)
      BY <1>7, <2>1 DEF Chance
    <2>3. ~ InBox(m, c)
      BY <1>5, <2>1 DEF InBox, OnceInv, OnePlace
    <2>4. \A v \in Workers : InHand(v, m, c) => v = w
      BY <1>5, <2>1 DEF InHand, OnceInv, OnePlace
    <2>5. GivenUp(w)'
      <3>1. pc'[w] = "handled" /\ result'[w] = out /\ job'[w].dc = c
        BY <1>1, <1>2, <1>3, <1>4 DEF TypeOK
      <3> QED
        BY <1>14, <3>1 DEF GivenUp, GivesUp, NumDelivered, RetriesAreBounded
    <2>6. \A a \in wire : ~ (a.m = m /\ a.dc = c)
      BY <1>5, <2>1 DEF OnceInv, OnePlace, HandledOnce, DeliveryOf
    <2>7. ~ Chance(m, c)'
      BY <1>3, <1>6, <1>7, <1>8, <2>3, <2>4, <2>5, <2>6 DEF Chance
    <2>8. <<"chance", c>> \in Tokens(m) /\ <<"chance", c>> \notin Tokens(m)'
      BY <2>2, <2>7, TokenKinds, TokenKindsNext
    <2>9. Tokens(m)' \subseteq Tokens(m) \cup {<<"late", c>>}
      BY <1>9, <1>10, <1>12, TokenKinds, TokenKindsNext
    <2> QED
      BY <1>11, <2>8, <2>9, Exchanged
  <1> QED
    BY <1>13, <1>14

\* A settlement that arrives ends its delivery's chance; after a nak the server
\* owes the next delivery.
LEMMA ArriveKeepsLives ==
  ASSUME OnceInv, HandledOnce, NEW m, Lives(m), NEW a \in wire, Arrive(a)
  PROVE  Lives(m)'
  <1> USE DEF server, callback, bounds, history
  <1>1. TypeOK
    BY DEF OnceInv
  <1>2. /\ wire' = wire \ {a}
        /\ UNCHANGED <<inbox, pc, job, result, settled, faults, ended>>
    BY DEF Arrive
  <1>3. \A v \in Workers : /\ \A n, k : InHand(v, n, k)' <=> InHand(v, n, k)
                           /\ GivenUp(v)' <=> GivenUp(v)
    BY <1>2, SameHand
  <1>4. /\ \A n, k : InBox(n, k)' <=> InBox(n, k)
        /\ \A k : Late(m, k)' => Late(m, k)
    BY <1>2 DEF InBox, Late
  <1>5. \A k : Chance(m, k)' => Chance(m, k)
    BY <1>2, <1>3, <1>4 DEF Chance
  <1>6. faults \in Nat /\ faults' = faults /\ faults' \in Nat /\ faults <= faults'
    BY <1>1, <1>2 DEF TypeOK
  <1>7. PICK b : b = a
    OBVIOUS
  <1>8. b \in Settlement /\ wire' = wire \ {b}
    BY <1>1, <1>2, <1>7 DEF TypeOK
  <1>9. CASE m # b.m
    <2>1. status'[m] = status[m]
      BY <1>1, <1>7, <1>8, <1>9 DEF Arrive, TypeOK
    <2>2. \A k : InPlay(m, k)' <=> InPlay(m, k)
      BY <1>2, <1>3, <1>4, <1>7, <1>9 DEF InPlay
    <2>3. Owed(m)' => Owed(m)
      BY <2>1, <2>2 DEF Owed
    <2> QED
      BY <1>4, <1>5, <1>6, <2>3, NoNewToken
  <1>10. CASE m = b.m /\ (Settled(m) \/ b.type \in {"ack", "term"})
    <2>1. status'[m] \in {"acked", "termed"}
      BY <1>1, <1>7, <1>8, <1>10 DEF Arrive, Settled, TypeOK, Settlement
    <2>2. ~ Owed(m)'
      BY <2>1 DEF Owed
    <2> QED
      BY <1>4, <1>5, <1>6, <2>2, NoNewToken
  <1>11. CASE m = b.m /\ b.type \in {"nak", "nakDelay"}
    <2>1. b \in sent /\ DeliveryOf(b) = [m |-> m, dc |-> b.dc]
      BY <1>7, <1>11 DEF HandledOnce, DeliveryOf
    <2>2. Chance(m, b.dc)
      BY <1>7, <1>11 DEF Chance
    <2>3. ~ InBox(m, b.dc)
      BY <2>1 DEF InBox, OnceInv, OnePlace
    <2>4. \A v \in Workers : ~ InHand(v, m, b.dc)
      BY <2>1 DEF InHand, OnceInv, OnePlace
    <2>5. \A s \in wire' : ~ (s.m = m /\ s.dc = b.dc)
      BY <1>8, <1>11, <2>1 DEF HandledOnce, OnceInv, SettlesOnce
    <2>6. ~ Chance(m, b.dc)'
      BY <1>3, <1>4, <2>3, <2>4, <2>5 DEF Chance
    <2>7. b.dc \in Nat
      BY <1>8 DEF Settlement
    <2> QED
      BY <1>4, <1>5, <1>6, <2>2, <2>6, <2>7, DroppingKeepsLives
  <1> QED
    BY <1>8, <1>9, <1>10, <1>11 DEF Settlement

\* The end of a callback: the middleware, the refused message, the subscriber.
LEMMA SettlingKeepsLives ==
  ASSUME RetriesAreBounded, OnceInv, HandledOnce, TypeOK', NEW m, Lives(m), NEW w \in Workers,
         RejectUndecodable(w) \/ PassThrough(w) \/ AutoAck(w) \/ RetryAck(w) \/ Finish(w)
  PROVE  Lives(m)'
  <1> USE DEF server, callback, bounds, history
  <1>1. TypeOK
    BY DEF OnceInv
  <1>2. /\ UNCHANGED <<status, job, inbox, ended>>
        /\ Active(w)
        /\ \E st \in {"returned", "idle"} : pc' = [pc EXCEPT ![w] = st]
        /\ \A v \in Workers \ {w} : result'[v] = result[v]
    <2>1. \A x : \A v \in Workers \ {w} : [result EXCEPT ![w] = x][v] = result[v]
      BY <1>1 DEF TypeOK
    <2>2. CASE RejectUndecodable(w)
      BY <2>2 DEF RejectUndecodable, Active
    <2>3. CASE Finish(w)
      BY <2>3 DEF Finish, Active
    <2>4. CASE PassThrough(w) \/ AutoAck(w) \/ RetryAck(w)
      <3>1. Returned(w)
        BY <2>4 DEF PassThrough, AutoAck, RetryAck
      <3>2. UNCHANGED result \/ result' = [result EXCEPT ![w] = "retry"]
        BY <2>4 DEF PassThrough, AutoAck, RetryAck, AckSuccess
      <3>3. \A v \in Workers \ {w} : result'[v] = result[v]
        BY <2>1, <3>2
      <3>4. pc[w] = "handled" /\ pc' = [pc EXCEPT ![w] = "returned"] /\ UNCHANGED <<status, job, inbox, ended>>
        BY <3>1 DEF Returned
      <3>5. Active(w)
        BY <3>4 DEF Active
      <3>6. \E st \in {"returned", "idle"} : pc' = [pc EXCEPT ![w] = st]
        BY <3>4, Zenon
      <3> QED
        BY <3>3, <3>4, <3>5, <3>6
    <2> QED
      BY <2>2, <2>3, <2>4
  <1>3. CASE RejectUndecodable(w)
    <2>1. Sends(w, "term") \/ Refuses(w)
      BY <1>3 DEF RejectUndecodable
    <2> QED
      BY <1>2, <2>1, SendingKeepsLives, RefusingKeepsLives
  <1>4. ~ PassThrough(w) /\ ~ AutoAck(w)
    BY DEF PassThrough, AutoAck, RetriesAreBounded
  <1>5. CASE RetryAck(w)
    <2>1. /\ OnWire("Term") \in {"term", "ack"}
          /\ \A method \in {"Nak", "NakWithDelay"} : OnWire(method) \in {"nak", "nakDelay"}
      BY DEF OnWire
    <2>2. \/ Refuses(w)
          \/ \E type \in {"ack", "term"} : Sends(w, type)
          \/ \E type \in {"nak", "nakDelay"} : Sends(w, type) /\ ~ GivenUp(w)
      BY <1>5, <2>1 DEF RetryAck, AckSuccess, GivenUp
    <2> QED
      BY <1>2, <2>2, SendingKeepsLives, RefusingKeepsLives
  <1>6. CASE Finish(w)
    <2>1. pc[w] = "returned" /\ ~ GivenUp(w) /\ pc' = [pc EXCEPT ![w] = "idle"] /\ UNCHANGED result
      BY <1>6 DEF Finish, GivenUp
    <2>2. CASE UNCHANGED <<wire, sent, settled, faults>>
      BY <1>2, <2>1, <2>2, LeavingKeepsLives
    <2>3. CASE \E type \in {"ack", "nak"} : Sends(w, type)
      BY <1>2, <2>1, <2>3, SendingKeepsLives
    <2>4. CASE Refuses(w)
      BY <1>2, <2>4, RefusingKeepsLives
    <2> QED
      BY <1>6, <2>2, <2>3, <2>4 DEF Finish
  <1> QED
    BY <1>3, <1>4, <1>5, <1>6

\* No step of the system outruns the faults.
LEMMA LivesStep ==
  ASSUME RetriesAreBounded, OnceInv, HandledOnce, TypeOK', [Next]_vars,
         NEW m \in Messages, Lives(m)
  PROVE  Lives(m)'
  <1> USE DEF server, callback, bounds, history
  <1>1. CASE \E w \in Workers : Subscribe(w)
    BY <1>1, WaitingKeepsLives DEF Subscribe
  <1>2. CASE \E n \in Messages : DelayOver(n)
    BY <1>2, WaitingKeepsLives DEF DelayOver
  <1>3. CASE \E n \in Messages : AckWait(n)
    <2>1. PICK n \in Messages : AckWait(n)
      BY <1>3
    <2>2. CASE Held(n)
      BY <2>1, <2>2, FaultsKeepLives
    <2>3. CASE ~ Held(n)
      BY <2>1, <2>3, WaitingKeepsLives DEF AckWait, NoFault
    <2> QED
      BY <2>2, <2>3
  <1>4. CASE UNCHANGED vars
    BY <1>4, WaitingKeepsLives DEF vars
  <1>5. CASE \E w \in Workers : Callback(w)
    BY <1>5, TakeKeepsLives, HandleKeepsLives, SettlingKeepsLives DEF Callback
  <1>6. CASE \/ \E w \in Workers : Crash(w)
             \/ \E a \in wire : Lose(a)
    BY <1>6, FaultsKeepLives
  <1> QED
    BY <1>1, <1>2, <1>3, <1>4, <1>5, <1>6, DeliverKeepsLives, StopKeepsLives, ArriveKeepsLives
    DEF Next

\* The inductive invariant.
AttemptsInv == OnceInv /\ HandledOnce /\ \A m \in Messages : Lives(m)

\* In the beginning the server owes the first delivery, and nothing else counts.
LEMMA AttemptsInit == Init => AttemptsInv
  <1> SUFFICES ASSUME Init PROVE AttemptsInv
    OBVIOUS
  <1>1. OnceInv
    BY OnceInit
  <1>2. HandledOnce
    BY DEF Init, HandledOnce, Active
  <1>3. ASSUME NEW m \in Messages
        PROVE  Lives(m)
    <2>1. \A k : ~ Chance(m, k) /\ ~ Late(m, k)
      BY DEF Init, Chance, Late, InBox, InHand, Active
    <2>2. Tokens(m) \subseteq {<<"owed", 0>>}
      BY <2>1, TokenKinds
    <2>3. IsFiniteSet({<<"owed", 0>>}) /\ Cardinality({<<"owed", 0>>}) = 1
      BY FS_Singleton
    <2>4. IsFiniteSet(Tokens(m)) /\ Cardinality(Tokens(m)) <= 1
      BY <2>2, <2>3, FS_Subset
    <2> QED
      BY <2>4 DEF Lives, Init
  <1> QED
    BY <1>1, <1>2, <1>3 DEF AttemptsInv

\* The strengthened invariant is inductive.
LEMMA AttemptsStep ==
  ASSUME RetriesAreBounded, AttemptsInv, [Next]_vars
  PROVE  AttemptsInv'
  <1>1. OnceInv' /\ HandledOnce' /\ TypeOK'
    BY OnceStep, HandledOnceStep DEF AttemptsInv, OnceInv
  <1> QED
    BY <1>1, LivesStep DEF AttemptsInv

\* The attempts before the limit have different numbers, the others are tokens.
LEMMA FewAttempts ==
  ASSUME RetriesAreBounded, AttemptsInv, NEW m \in Messages
  PROVE  Cardinality({e \in ended : e.m = m /\ e.out # "ok"}) <= MaxDeliveries + faults
  <1> DEFINE A == {e \in ended : e.m = m /\ e.out # "ok"}
             E == {e \in A : e.dc < MaxDeliveries}
             L == {e \in A : e.dc >= MaxDeliveries}
             number == [e \in E |-> e.dc]
             token == [e \in L |-> <<"late", e.dc>>]
  <1>1. TypeOK /\ MaxDeliveries \in Nat \ {0} /\ faults \in Nat
    BY DEF AttemptsInv, OnceInv, TypeOK, RetriesAreBounded
  <1>2. \A e \in A : e \in Outcome /\ e.m = m /\ e.dc \in Nat /\ e.dc >= 1 /\ e.out # "ok"
    BY <1>1 DEF TypeOK, Outcome, AttemptsInv, HandledOnce
  <1>3. \A e, f \in A : e.dc = f.dc => e = f
    BY DEF AttemptsInv, HandledOnce, DeliveryOf
  <1>4. IsFiniteSet(E) /\ Cardinality(E) <= MaxDeliveries - 1
    <2>1. MaxDeliveries - 1 \in Nat
      BY <1>1
    <2>2. IsFiniteSet(1 .. MaxDeliveries - 1) /\ Cardinality(1 .. MaxDeliveries - 1) = MaxDeliveries - 1
      BY <2>1, FS_Interval
    <2>3. number \in Injection(E, 1 .. MaxDeliveries - 1)
      BY <1>1, <1>2, <1>3 DEF Injection, IsInjective
    <2> HIDE DEF E, number
    <2> QED
      BY <2>2, <2>3, FS_Injection
  <1>5. IsFiniteSet(L) /\ Cardinality(L) <= 1 + faults
    <2>1. \A e \in L : Late(m, e.dc) /\ e.dc \in Nat
      BY <1>2 DEF Late
    <2>2. \A e \in L : <<"late", e.dc>> \in Tokens(m)
      BY <2>1, TokenKinds
    <2>3. token \in Injection(L, Tokens(m))
      BY <1>3, <2>2 DEF Injection, IsInjective
    <2>4. IsFiniteSet(Tokens(m)) /\ Cardinality(Tokens(m)) <= 1 + faults
      BY DEF AttemptsInv, Lives
    <2> HIDE DEF L, token
    <2>5. IsFiniteSet(L) /\ Cardinality(L) <= Cardinality(Tokens(m))
      BY <2>3, <2>4, FS_Injection
    <2>6. Cardinality(L) \in Nat /\ Cardinality(Tokens(m)) \in Nat
      BY <2>4, <2>5, FS_CardinalityType
    <2> QED
      BY <1>1, <2>4, <2>5, <2>6
  <1>6. A = E \cup L
    BY <1>1, <1>2
  <1> HIDE DEF A, E, L
  <1>7. Cardinality(E) \in Nat /\ Cardinality(L) \in Nat /\ Cardinality(E \cap L) \in Nat
    BY <1>4, <1>5, FS_CardinalityType, FS_Intersection
  <1>8. Cardinality(A) = Cardinality(E) + Cardinality(L) - Cardinality(E \cap L)
    BY <1>4, <1>5, <1>6, FS_Union
  <1>9. Cardinality(A) <= MaxDeliveries + faults
    BY <1>1, <1>4, <1>5, <1>7, <1>8
  <1> QED
    BY <1>9 DEF A

\* A delivery is handled at most once, whatever is redelivered and to whom: two
\* outcomes of the same delivery are the same outcome.
THEOREM OneOutcome ==
  SafeSpec => [](\A e, f \in ended : DeliveryOf(e) = DeliveryOf(f) => e = f)
  <1>1. OnceInv /\ HandledOnce /\ [Next]_vars => (OnceInv /\ HandledOnce)'
    BY OnceStep, HandledOnceStep
  <1>2. Init => OnceInv /\ HandledOnce
    BY AttemptsInit DEF AttemptsInv
  <1>3. HandledOnce => \A e, f \in ended : DeliveryOf(e) = DeliveryOf(f) => e = f
    BY DEF HandledOnce
  <1> QED
    BY <1>1, <1>2, <1>3, PTL DEF SafeSpec

\* With a RetryAck of a positive limit around every handler, and an acker that
\* reports the delivery count, a message whose handler always fails is tried
\* MaxDeliveries times and once more for every fault, however deliveries,
\* settlements, crashes and timeouts interleave, and whatever else settles
\* (the subscriber without WithManualAck, a Term that falls back to Ack).
THEOREM AttemptsAreBounded ==
  ASSUME RetriesAreBounded
  PROVE  SafeSpec => []AttemptsBounded
  <1>1. AttemptsInv /\ [Next]_vars => AttemptsInv'
    BY AttemptsStep
  <1>2. AttemptsInv => AttemptsBounded
    BY FewAttempts DEF AttemptsBounded
  <1> QED
    BY <1>1, <1>2, AttemptsInit, PTL DEF SafeSpec
=============================================================================
