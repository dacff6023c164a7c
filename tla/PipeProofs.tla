----------------------------- MODULE PipeProofs -----------------------------
(***************************************************************************)
(* Theorems about RetryPublisher and Pipe, proved with TLAPS.  First the   *)
(* retry loop alone, for every number of calls and every maxAttempts:      *)
(* types, the bound on the copies of a message, and the contract it keeps. *)
(* Then the pipe, for any batches, deliveries and attempts: what a handler *)
(* call has published, how often, and delivery from end to end.  What the  *)
(* retry loop guarantees is used through PipeRetries: the calls of a pipe  *)
(* are calls of a RetryPublisher.                                          *)
(***************************************************************************)
EXTENDS Pipe, TLAPS

-----------------------------------------------------------------------------
(* The retry loop *)

\* Every variable of the retry loop keeps its type.
THEOREM RetryTypeCorrect == RetrySpec => []RetryTypeOK
<1>1. RetryInit => RetryTypeOK
  BY DEF RetryInit, RetryTypeOK
<1>2. RetryTypeOK /\ [RetryNext]_retryVars => RetryTypeOK'
  <2> SUFFICES ASSUME RetryTypeOK, [RetryNext]_retryVars PROVE RetryTypeOK'
    OBVIOUS
  <2> USE DEF RetryTypeOK
  <2>1. ASSUME NEW c \in Calls, Publish(c) PROVE RetryTypeOK'
    BY <2>1 DEF Publish
  <2>2. ASSUME NEW c \in Calls, Arrive(c) PROVE RetryTypeOK'
    BY <2>2 DEF Arrive
  <2>3. ASSUME NEW c \in Calls, AttemptOk(c) \/ Expire(c) \/ Abort(c) PROVE RetryTypeOK'
    BY <2>3 DEF AttemptOk, Expire, Abort
  <2>4. ASSUME NEW c \in Calls, AttemptFails(c) PROVE RetryTypeOK'
    BY <2>4 DEF AttemptFails
  <2>5. ASSUME NEW c \in Calls, Retry(c) PROVE RetryTypeOK'
    BY <2>5 DEF Retry
  <2>6. CASE UNCHANGED retryVars
    BY <2>6 DEF retryVars
  <2>7. ASSUME NEW C \in SUBSET Calls, CancelCalls(C) PROVE RetryTypeOK'
    BY <2>7 DEF CancelCalls
  <2> QED
    BY <2>1, <2>2, <2>3, <2>4, <2>5, <2>6, <2>7 DEF RetryNext, RetryStep
<1> QED
  BY <1>1, <1>2, PTL DEF RetrySpec

-----------------------------------------------------------------------------
(* The bound on copies *)

\* A backoff starts only when another attempt is allowed, so the number of the
\* current attempt stays below the limit, and what has arrived was sent.
AttemptInRange ==
  \A c \in Calls :
    /\ attempt[c] < Limit
    /\ pc[c] # "calling" => attempt[c] < Limit - 1
    /\ arrived[c] \subseteq 0 .. attempt[c]

\* No call puts more than maxAttempts copies of its message on the wire.
THEOREM BoundedCopies == RetrySpec => []CopiesBounded
<1> USE RetryAssumption DEF Limit
<1>1. RetryInit => AttemptInRange
  <2>1. Limit > 0
    OBVIOUS
  <2> HIDE DEF Limit
  <2>2. SUFFICES ASSUME RetryInit, NEW c \in Calls
        PROVE  attempt[c] = 0 /\ pc[c] = "calling" /\ arrived[c] = {}
    BY <2>1 DEF AttemptInRange
  <2> QED
    BY <2>2 DEF RetryInit
<1>2. RetryTypeOK /\ AttemptInRange /\ [RetryNext]_retryVars => AttemptInRange'
  <2> SUFFICES ASSUME RetryTypeOK, AttemptInRange, [RetryNext]_retryVars,
                      NEW d \in Calls
               PROVE  /\ attempt'[d] < Limit
                      /\ pc'[d] # "calling" => attempt'[d] < Limit - 1
                      /\ arrived'[d] \subseteq 0 .. attempt'[d]
    BY DEF AttemptInRange
  <2> USE DEF RetryTypeOK, AttemptInRange
  <2>1. ASSUME NEW c \in Calls, Publish(c) \/ AttemptOk(c) \/ Abort(c)
        PROVE  UNCHANGED <<pc, attempt, arrived>>
    BY <2>1 DEF Publish, AttemptOk, Abort
  <2>2. ASSUME NEW c \in Calls, Arrive(c)
        PROVE  /\ UNCHANGED <<pc, attempt>>
               /\ arrived'[d] \subseteq 0 .. attempt[d]
    BY <2>2 DEF Arrive
  <2>3. ASSUME NEW c \in Calls, AttemptFails(c) \/ Expire(c)
        PROVE  /\ UNCHANGED <<attempt, arrived>>
               /\ pc'[d] # "calling" => attempt[d] < Limit - 1
    BY <2>3 DEF AttemptFails, Expire
  <2>4. ASSUME NEW c \in Calls, Retry(c)
        PROVE  /\ attempt'[d] < Limit
               /\ pc'[d] # "calling" => attempt'[d] < Limit - 1
               /\ arrived'[d] \subseteq 0 .. attempt'[d]
    <3>1. CASE d = c
      BY <2>4, <3>1 DEF Retry
    <3>2. CASE d # c
      BY <2>4, <3>2 DEF Retry
    <3> QED
      BY <3>1, <3>2
  <2>5. CASE UNCHANGED retryVars
    BY <2>5 DEF retryVars
  <2>6. ASSUME NEW C \in SUBSET Calls, CancelCalls(C) PROVE UNCHANGED <<pc, attempt, arrived>>
    BY <2>6 DEF CancelCalls
  <2> QED
    BY <2>1, <2>2, <2>3, <2>4, <2>5, <2>6 DEF RetryNext, RetryStep
<1>3. RetryTypeOK /\ AttemptInRange => CopiesBounded
  BY DEF RetryTypeOK, AttemptInRange, CopiesBounded
<1> QED
  BY <1>1, <1>2, <1>3, RetryTypeCorrect, PTL DEF RetrySpec

-----------------------------------------------------------------------------
(* The contract *)

\* Around a Publisher that keeps the contract of Exchange, a RetryPublisher
\* keeps it too: nil only if some attempt has got through, however attempts
\* fail, arrive late or are cancelled.
THEOREM RetryKeepsContract == RetrySpec => ImplementsExchange
<1> DEFINE through == {c \in Calls : arrived[c] # {}}
<1>1. RetryInit => Contract!Init
  BY DEF RetryInit, Contract!Init
<1>2. RetryTypeOK /\ [RetryNext]_retryVars => [Contract!Next]_<<call, through>>
  <2> SUFFICES ASSUME RetryTypeOK, [RetryNext]_retryVars,
                      ~ UNCHANGED <<call, through>>
               PROVE  Contract!Next
    OBVIOUS
  <2> USE DEF RetryTypeOK
  <2>1. ASSUME NEW c \in Calls, Publish(c) PROVE Contract!Start(c)
    BY <2>1 DEF Publish, Contract!Start
  <2>2. ASSUME NEW c \in Calls, Arrive(c) PROVE Contract!Process(c)
    <3>1. arrived'[c] # {} /\ \A d \in Calls \ {c} : arrived'[d] = arrived[d]
      BY <2>2 DEF Arrive
    <3>2. through' = through \cup {c}
      BY <3>1
    <3> QED
      BY <2>2, <3>2 DEF Arrive, Contract!Process
  <2>3. ASSUME NEW c \in Calls, AttemptOk(c) PROVE Contract!Return(c)
    BY <2>3 DEF AttemptOk, Contract!Return
  <2>4. ASSUME NEW c \in Calls, AttemptFails(c) \/ Abort(c), UNCHANGED call PROVE FALSE
    BY <2>4 DEF AttemptFails, Abort
  <2>5. ASSUME NEW c \in Calls, AttemptFails(c) \/ Abort(c) PROVE Contract!Return(c)
    BY <2>4, <2>5 DEF AttemptFails, Abort, Contract!Return
  <2>6. ASSUME NEW c \in Calls, Expire(c) \/ Retry(c) PROVE FALSE
    BY <2>6 DEF Expire, Retry
  <2>7. ASSUME NEW C \in SUBSET Calls, CancelCalls(C) PROVE FALSE
    BY <2>7 DEF CancelCalls
  <2> QED
    BY <2>1, <2>2, <2>3, <2>5, <2>6, <2>7 DEF RetryNext, RetryStep, Contract!Next, retryVars
<1> QED
  BY <1>1, <1>2, RetryTypeCorrect, PTL DEF RetrySpec, ImplementsExchange, Contract!Spec

-----------------------------------------------------------------------------
(* The pipe *)


\* A run of the handler is a message and a delivery of it, with its calls.
LEMMA RunTypes ==
  ASSUME NEW r \in Runs
  PROVE  /\ r = <<r[1], r[2]>>
         /\ r[1] \in Messages /\ r[2] \in Deliveries(r[1])
         /\ Items[r[1]] \in Nat
         /\ \A i \in 1 .. Items[r[1]] : <<r[1], r[2], i>> \in Calls
<1>1. PICK m \in Messages : r \in {m} \X Deliveries(m)
  BY DEF Runs
<1>2. r = <<r[1], r[2]>> /\ r[1] = m /\ r[2] \in Deliveries(m)
  BY <1>1
<1> QED
  BY <1>2, PipeAssumption, CallsAssumption

\* Each delivery of a message is a run.
LEMMA RunsOf ==
  ASSUME NEW m \in Messages, NEW d \in Deliveries(m)
  PROVE  <<m, d>> \in Runs
  BY DEF Runs

\* A handler whose index is in the batch is at one of its calls.
LEMMA CurrentIsCall ==
  ASSUME NEW r \in Runs, item[r] \in Nat \ {0}, item[r] <= Items[Message(r)]
  PROVE  Current(r) \in Calls
<1>1. item[r] \in 1 .. Items[r[1]]
  BY RunTypes DEF Message
<1> QED
  BY <1>1, RunTypes DEF Current

-----------------------------------------------------------------------------
(* Types, and the retry loop inside the pipe *)

PipeTypeOK == TypeOK /\ \A r \in Runs : item[r] # 0

\* Every variable keeps its type, and indices start with the first item.
THEOREM PipeTypeCorrect == Spec => []PipeTypeOK
<1>1. Init => PipeTypeOK
  BY DEF Init, RetryInit, RetryTypeOK, TypeOK, PipeTypeOK
<1>2. PipeTypeOK /\ [Next]_vars => PipeTypeOK'
  <2> SUFFICES ASSUME PipeTypeOK, [Next]_vars PROVE PipeTypeOK'
    OBVIOUS
  <2> USE DEF PipeTypeOK, TypeOK, pipeVars
  <2>1. ASSUME NEW m \in Messages, Deliver(m) PROVE PipeTypeOK'
    <3>1. tries' \in [Messages -> Nat]
      BY <2>1 DEF Deliver
    <3>2. PICK r : run' = [run EXCEPT ![r] = "filter"]
      BY <2>1 DEF Deliver, Go
    <3>3. run' \in [Runs -> {"none", "filter", "publish", "nil", "error", "settled"}]
      BY <3>2
    <3> QED
      BY <2>1, <3>1, <3>3 DEF Deliver, retryVars, RetryTypeOK
  <2>2. ASSUME NEW r \in Runs, Ack(r) PROVE PipeTypeOK'
    BY <2>2 DEF Ack, Go, retryVars, RetryTypeOK
  <2>3. ASSUME NEW r \in Runs,
               \/ Skip(r) \/ MapFails(r) \/ Expand(r) \/ Nak(r)
               \/ PublishFails(r) \/ Finish(r)
        PROVE  PipeTypeOK'
    BY <2>3, RunTypes DEF Skip, MapFails, Expand, Nak, PublishFails, Finish, Go, retryVars,
                          RetryTypeOK, Message
  <2>4. ASSUME NEW r \in Runs, NextItem(r) PROVE PipeTypeOK'
    BY <2>4 DEF NextItem, retryVars, RetryTypeOK
  <2>5. ASSUME NEW r \in Runs, PublishItem(r) PROVE PipeTypeOK'
    BY <2>5 DEF PublishItem, Publish, RetryTypeOK
  <2>6. ASSUME NEW r \in Runs, CancelRun(r) PROVE PipeTypeOK'
    BY <2>6 DEF CancelRun, CancelCalls, RetryTypeOK
  <2>7. ASSUME NEW c \in Calls, RetryStep(c) \/ Arrive(c), UNCHANGED pipeVars
        PROVE  PipeTypeOK'
    BY <2>7 DEF RetryStep, AttemptOk, AttemptFails, Expire, Retry, Abort, Arrive, RetryTypeOK
  <2>8. CASE UNCHANGED vars
    BY <2>8 DEF vars, retryVars, RetryTypeOK
  <2> QED
    BY <2>1, <2>2, <2>3, <2>4, <2>5, <2>6, <2>7, <2>8 DEF Next, RunStep
<1> QED
  BY <1>1, <1>2, PTL DEF Spec

\* The calls a pipe makes are calls of a RetryPublisher.
THEOREM PipeRetries == Spec => RetrySpec
<1>1. Init => RetryInit
  BY DEF Init
<1>2. PipeTypeOK /\ [Next]_vars => [RetryNext]_retryVars
  <2> SUFFICES ASSUME PipeTypeOK, [Next]_vars, ~ UNCHANGED retryVars PROVE RetryNext
    OBVIOUS
  <2>1. ASSUME NEW r \in Runs, PublishItem(r) PROVE RetryNext
    <3>1. Current(r) \in Calls
      BY <2>1, CurrentIsCall DEF PublishItem, PipeTypeOK, TypeOK
    <3> QED
      BY <2>1, <3>1 DEF PublishItem, RetryNext
  <2>2. ASSUME NEW r \in Runs, CancelRun(r) PROVE RetryNext
    BY <2>2 DEF CancelRun, RetryNext
  <2>3. ASSUME NEW m \in Messages, Deliver(m) PROVE FALSE
    BY <2>3 DEF Deliver
  <2>4. ASSUME NEW r \in Runs, RunStep(r), ~ PublishItem(r) PROVE FALSE
    BY <2>4 DEF RunStep, Skip, MapFails, Expand, NextItem, PublishFails, Finish, Ack, Nak
  <2> QED
    BY <2>1, <2>2, <2>3, <2>4 DEF Next, RetryNext, vars
<1> QED
  BY <1>1, <1>2, PipeTypeCorrect, PTL DEF Spec, RetrySpec

\* In a pipe too, no call puts more than maxAttempts copies on the wire.
THEOREM PipeCopies == Spec => []CopiesBounded
  BY PipeRetries, BoundedCopies, PTL

-----------------------------------------------------------------------------
(* The batch *)

\* A call that has not begun has sent nothing; one that returned nil has got
\* its item through.
CallInv ==
  \A c \in Calls :
    /\ call[c] = "idle" => arrived[c] = {}
    /\ call[c] = "ok" => arrived[c] # {}

\* The items below the index are out, those above it have not been begun.
BatchInv ==
  \A r \in Runs : \A i \in 1 .. Items[Message(r)] :
    /\ i < item[r] => Sent(r[1], r[2], i)
    /\ i > item[r] => call[<<r[1], r[2], i>>] = "idle"

\* nil and "done" are said of forwarded messages only.
NilInv ==
  /\ \A r \in Runs : run[r] # "none" => tries[Message(r)] > 0
  /\ \A r \in Runs : run[r] = "nil" =>
       Message(r) \in skipped \/ item[r] > Items[Message(r)]
  /\ \A m \in Messages : status[m] = "done" => Forwarded(m)

PipeInv == CallInv /\ BatchInv /\ NilInv

\* In every handler call the items that are out are a prefix of the batch.
LEMMA BatchIsPrefix ==
  ASSUME PipeTypeOK, PipeInv
  PROVE  PrefixPublished
<1> SUFFICES ASSUME NEW r \in Runs, NEW i \in 1 .. Items[Message(r)], NEW j \in 1 .. i - 1,
                    Sent(r[1], r[2], i)
             PROVE  Sent(r[1], r[2], j)
  BY DEF PrefixPublished
<1>1. Items[Message(r)] \in Nat /\ <<r[1], r[2], i>> \in Calls
  BY RunTypes DEF Message
<1>2. call[<<r[1], r[2], i>>] # "idle"
  BY <1>1 DEF PipeInv, CallInv, Sent
<1>3. ~ (i > item[r])
  BY <1>2 DEF PipeInv, BatchInv
<1>4. j < item[r] /\ j \in 1 .. Items[Message(r)]
  BY <1>1, <1>3 DEF PipeTypeOK, TypeOK
<1> QED
  BY <1>4 DEF PipeInv, BatchInv

\* What is out stays out, so what is forwarded stays forwarded.
LEMMA ForwardedStays ==
  ASSUME PipeTypeOK, NEW m \in Messages, Forwarded(m),
         \A c \in Calls : arrived[c] \subseteq arrived'[c],
         skipped \subseteq skipped', tries'[m] >= tries[m], tries'[m] \in Nat
  PROVE  Forwarded(m)'
<1>1. \A d \in Deliveries(m) : \A i \in 1 .. Items[m] : Sent(m, d, i) => Sent(m, d, i)'
  <2> SUFFICES ASSUME NEW d \in Deliveries(m), NEW i \in 1 .. Items[m], Sent(m, d, i)
               PROVE  Sent(m, d, i)'
    OBVIOUS
  <2>1. <<m, d>> \in Runs /\ <<m, d>>[1] = m /\ <<m, d>>[2] = d
    BY RunsOf
  <2>2. <<m, d, i>> \in Calls
    BY <2>1, CallsAssumption
  <2> QED
    BY <2>2 DEF Sent
<1>2. tries[m] \in Nat
  BY DEF PipeTypeOK, TypeOK
<1> QED
  BY <1>1, <1>2 DEF Forwarded, Deliveries

\* The retrying publisher's own steps do not move the handler.
LEMMA RetriesKeepPipe ==
  ASSUME PipeTypeOK, PipeTypeOK', PipeInv, NEW c \in Calls, RetryStep(c) \/ Arrive(c),
         UNCHANGED pipeVars
  PROVE  PipeInv'
<1> USE DEF pipeVars
<1>1. \A b \in Calls : arrived[b] \subseteq arrived'[b]
  BY DEF RetryStep, AttemptOk, AttemptFails, Expire, Retry, Abort, Arrive, PipeTypeOK, TypeOK,
         RetryTypeOK
<1>2. \A b \in Calls : call[b] = "idle" => call'[b] = "idle"
  BY DEF RetryStep, AttemptOk, AttemptFails, Expire, Retry, Abort, Arrive, PipeTypeOK, TypeOK,
         RetryTypeOK
<1>3. CallInv'
  BY DEF RetryStep, AttemptOk, AttemptFails, Expire, Retry, Abort, Arrive, PipeTypeOK, TypeOK,
         RetryTypeOK, PipeInv, CallInv
<1>4. BatchInv'
  BY <1>1, <1>2, RunTypes DEF PipeInv, BatchInv, Sent, Message
<1>5. \A m \in Messages : Forwarded(m) => Forwarded(m)'
  BY <1>1, ForwardedStays DEF PipeTypeOK, TypeOK
<1>6. NilInv'
  BY <1>5 DEF PipeInv, NilInv
<1> QED
  BY <1>3, <1>4, <1>6 DEF PipeInv

\* Steps that only move a handler, a message or the filter's record.
LEMMA MovesKeepPipe ==
  ASSUME PipeTypeOK, PipeTypeOK', PipeInv, UNCHANGED <<item, retryVars>>,
         skipped \subseteq skipped', \A m \in Messages : tries'[m] >= tries[m],
         \A r \in Runs : run'[r] # run[r] =>
           /\ tries'[Message(r)] > 0
           /\ run'[r] = "nil" =>
                Message(r) \in skipped' \/ item[r] > Items[Message(r)],
         \A m \in Messages : status'[m] # status[m] => Forwarded(m)
  PROVE  PipeInv'
<1> USE DEF retryVars
<1>1. CallInv' /\ BatchInv'
  BY DEF PipeInv, CallInv, BatchInv, Sent, Message
<1>2. ASSUME NEW m \in Messages, Forwarded(m) PROVE Forwarded(m)'
  <2>1. tries'[m] >= tries[m] /\ tries'[m] \in Nat
    BY DEF PipeTypeOK, TypeOK
  <2> QED
    BY <1>2, <2>1, ForwardedStays
<1>3. \A r \in Runs : tries[Message(r)] > 0 => tries'[Message(r)] > 0
  BY RunTypes DEF Message, PipeTypeOK, TypeOK
<1>4. NilInv'
  <2>1. \A r \in Runs : run'[r] # "none" => tries'[Message(r)] > 0
    BY <1>3 DEF PipeInv, NilInv
  <2>2. \A r \in Runs : run'[r] = "nil" =>
          Message(r) \in skipped' \/ item'[r] > Items[Message(r)]
    BY DEF PipeInv, NilInv
  <2>3. \A m \in Messages : status'[m] = "done" => Forwarded(m)'
    BY <1>2 DEF PipeInv, NilInv
  <2> QED
    BY <2>1, <2>2, <2>3 DEF NilInv, Message
<1> QED
  BY <1>1, <1>4 DEF PipeInv

\* A handler call that returns nil has forwarded its message.
LEMMA NilIsForwarded ==
  ASSUME PipeTypeOK, PipeInv, NEW r \in Runs, run[r] = "nil"
  PROVE  Forwarded(Message(r))
<1>1. CASE Message(r) \in skipped
  BY <1>1 DEF Forwarded
<1>2. CASE item[r] > Items[Message(r)]
  <2>1. item[r] \in Nat /\ Items[Message(r)] \in Nat
    BY RunTypes DEF PipeTypeOK, TypeOK, Message
  <2>2. ASSUME NEW i \in 1 .. Items[Message(r)] PROVE Sent(r[1], r[2], i)
    <3>1. i < item[r]
      BY <1>2, <2>1
    <3> QED
      BY <3>1 DEF PipeInv, BatchInv
  <2>3. tries[Message(r)] > 0
    BY DEF PipeInv, NilInv
  <2> QED
    BY <2>2, <2>3, RunTypes DEF Forwarded, Message
<1> QED
  BY <1>1, <1>2 DEF PipeInv, NilInv

\* The handler goes on to the next item only after the call before it succeeded.
LEMMA HandlersKeepPipe ==
  ASSUME PipeTypeOK, PipeTypeOK', PipeInv, NEW r \in Runs, RunStep(r)
  PROVE  PipeInv'
<1> USE DEF pipeVars
<1>1. Message(r) \in Messages /\ Items[Message(r)] \in Nat
  BY RunTypes DEF Message
<1>2. CASE Skip(r) \/ MapFails(r) \/ Expand(r) \/ PublishFails(r) \/ Finish(r) \/ Nak(r)
  <2>1. UNCHANGED <<item, tries, status, retryVars>> /\ skipped \subseteq skipped'
    BY <1>2 DEF Skip, MapFails, Expand, PublishFails, Finish, Nak
  <2>2. /\ \A q \in Runs : q # r => run'[q] = run[q]
        /\ run[r] # "none"
        /\ run'[r] = "nil" => Message(r) \in skipped' \/ item[r] > Items[Message(r)]
    BY <1>2 DEF Skip, MapFails, Expand, PublishFails, Finish, Nak, Go, PipeTypeOK, TypeOK
  <2>3. tries'[Message(r)] > 0 /\ \A m \in Messages : tries'[m] >= tries[m]
    BY <2>1, <2>2 DEF PipeInv, NilInv, PipeTypeOK, TypeOK
  <2> QED
    BY <2>1, <2>2, <2>3, MovesKeepPipe
<1>3. CASE Ack(r)
  <2>1. UNCHANGED <<item, tries, skipped, retryVars>>
    BY <1>3 DEF Ack
  <2>2. /\ \A q \in Runs : q # r => run'[q] = run[q]
        /\ run[r] = "nil" /\ run'[r] = "settled"
        /\ \A m \in Messages : status'[m] # status[m] => m = Message(r)
    BY <1>3 DEF Ack, Go, PipeTypeOK, TypeOK
  <2>3. tries'[Message(r)] > 0 /\ \A m \in Messages : tries'[m] >= tries[m]
    BY <2>1, <2>2 DEF PipeInv, NilInv, PipeTypeOK, TypeOK
  <2>4. Forwarded(Message(r))
    BY <2>2, NilIsForwarded
  <2> QED
    BY <2>1, <2>2, <2>3, <2>4, MovesKeepPipe
<1>4. CASE PublishItem(r)
  <2>1. Current(r) \in Calls /\ call' = [call EXCEPT ![Current(r)] = "waiting"]
    BY <1>4, CurrentIsCall DEF PublishItem, Publish, PipeTypeOK, TypeOK
  <2>2. UNCHANGED <<pipeVars, arrived>>
    BY <1>4 DEF PublishItem, Publish
  <2>3. CallInv'
    BY <2>1, <2>2 DEF PipeInv, CallInv, PipeTypeOK, TypeOK, RetryTypeOK
  <2>4. ASSUME NEW q \in Runs, NEW i \in 1 .. Items[Message(q)], i > item[q]
        PROVE  call'[<<q[1], q[2], i>>] = "idle"
    <3>1. call[<<q[1], q[2], i>>] = "idle" /\ <<q[1], q[2], i>> \in Calls
      BY <2>4, RunTypes DEF PipeInv, BatchInv, Message
    <3>2. <<q[1], q[2], i>> # Current(r)
      <4>1. q = <<q[1], q[2]>> /\ r = <<r[1], r[2]>>
        BY RunTypes
      <4>2. i # item[q]
        BY <2>4 DEF PipeTypeOK, TypeOK
      <4> QED
        BY <4>1, <4>2 DEF Current
    <3> QED
      BY <2>1, <3>1, <3>2
  <2>5. BatchInv'
    BY <2>2, <2>4 DEF PipeInv, BatchInv, Sent, Message
  <2>6. NilInv'
    BY <2>2 DEF PipeInv, NilInv, Forwarded, Sent, Message
  <2> QED
    BY <2>3, <2>5, <2>6 DEF PipeInv
<1>5. CASE NextItem(r)
  <2>1. /\ item' = [item EXCEPT ![r] = @ + 1]
        /\ UNCHANGED <<status, tries, run, skipped, call, arrived>>
        /\ call[Current(r)] = "ok" /\ Current(r) \in Calls
        /\ run[r] = "publish"
    BY <1>5, CurrentIsCall DEF NextItem, retryVars, PipeTypeOK, TypeOK
  <2>2. CallInv'
    BY <2>1 DEF PipeInv, CallInv
  <2>3. Sent(r[1], r[2], item[r])
    BY <2>1 DEF PipeInv, CallInv, Current, Sent
  <2>4. ASSUME NEW q \in Runs, NEW i \in 1 .. Items[Message(q)]
        PROVE  /\ i < item'[q] => Sent(q[1], q[2], i)'
               /\ i > item'[q] => call'[<<q[1], q[2], i>>] = "idle"
    <3>1. item[q] \in Nat /\ i \in Nat
      BY RunTypes DEF PipeTypeOK, TypeOK, Message
    <3>2. /\ i < item[q] => Sent(q[1], q[2], i)
          /\ i > item[q] => call[<<q[1], q[2], i>>] = "idle"
      BY DEF PipeInv, BatchInv
    <3>3. item'[q] = IF q = r THEN item[q] + 1 ELSE item[q]
      BY <2>1 DEF PipeTypeOK, TypeOK
    <3>4. Sent(q[1], q[2], i)' <=> Sent(q[1], q[2], i)
      BY <2>1 DEF Sent
    <3> QED
      BY <2>1, <2>3, <3>1, <3>2, <3>3, <3>4
  <2>5. BatchInv'
    BY <2>4 DEF BatchInv, Message
  <2>6. NilInv'
    <3>1. \A q \in Runs : run[q] = "nil" => item'[q] = item[q]
      BY <2>1 DEF PipeTypeOK, TypeOK
    <3>2. \A m \in Messages : Forwarded(m)' <=> Forwarded(m)
      BY <2>1 DEF Forwarded, Sent
    <3> QED
      BY <2>1, <3>1, <3>2 DEF PipeInv, NilInv, Message
  <2> QED
    BY <2>2, <2>5, <2>6 DEF PipeInv
<1> QED
  BY <1>2, <1>3, <1>4, <1>5 DEF RunStep

\* Every handler of a pipe is at one item of its batch, with all earlier items
\* out, and returns nil after the last or for a skipped message: pipe.go stops at
\* the first error.
THEOREM BatchesInductive == Spec => []PipeInv
<1>1. Init => PipeInv
  <2> SUFFICES ASSUME Init PROVE PipeInv
    OBVIOUS
  <2>1. CallInv
    BY DEF Init, RetryInit, CallInv
  <2>2. BatchInv
    <3> SUFFICES ASSUME NEW r \in Runs, NEW i \in 1 .. Items[Message(r)]
                 PROVE  ~ (i < item[r]) /\ call[<<r[1], r[2], i>>] = "idle"
      BY DEF BatchInv
    <3>1. item[r] = 1 /\ Items[Message(r)] \in Nat /\ <<r[1], r[2], i>> \in Calls
      BY RunTypes DEF Init, Message
    <3> QED
      BY <3>1 DEF Init, RetryInit
  <2>3. NilInv
    BY DEF Init, NilInv
  <2> QED
    BY <2>1, <2>2, <2>3 DEF PipeInv
<1>2. PipeTypeOK /\ PipeTypeOK' /\ PipeInv /\ [Next]_vars => PipeInv'
  <2> SUFFICES ASSUME PipeTypeOK, PipeTypeOK', PipeInv, [Next]_vars PROVE PipeInv'
    OBVIOUS
  <2>1. ASSUME NEW m \in Messages, Deliver(m) PROVE PipeInv'
    <3>1. /\ UNCHANGED <<status, item, skipped, retryVars>>
          /\ tries' = [tries EXCEPT ![m] = @ + 1]
          /\ run' = [run EXCEPT ![<<m, tries'[m]>>] = "filter"]
      BY <2>1 DEF Deliver, Go
    <3>2. \A n \in Messages : tries'[n] >= tries[n]
      BY <3>1 DEF PipeTypeOK, TypeOK
    <3>3. tries'[m] > 0
      BY <3>1 DEF PipeTypeOK, TypeOK
    <3>4. ASSUME NEW r \in Runs, run'[r] # run[r]
          PROVE  run'[r] # "nil" /\ tries'[Message(r)] > 0
      <4>1. r = <<m, tries'[m]>> /\ run'[r] = "filter"
        BY <3>1, <3>4 DEF PipeTypeOK, TypeOK
      <4> QED
        BY <3>3, <4>1 DEF Message
    <3> QED
      BY <3>1, <3>2, <3>4, MovesKeepPipe
  <2>2. ASSUME NEW r \in Runs, CancelRun(r) PROVE PipeInv'
    BY <2>2 DEF CancelRun, CancelCalls, pipeVars, PipeInv, CallInv, BatchInv, NilInv, Sent,
                Forwarded, Message
  <2>3. CASE UNCHANGED vars
    BY <2>3 DEF vars, retryVars, pipeVars, PipeInv, CallInv, BatchInv, NilInv, Sent,
                Forwarded, Message
  <2> QED
    BY <2>1, <2>2, <2>3, HandlersKeepPipe, RetriesKeepPipe DEF Next
<1> QED
  BY <1>1, <1>2, PipeTypeCorrect, PTL DEF Spec

\* Whatever fails, is cancelled or redelivered meanwhile, each handler call has
\* published a prefix of its batch.
THEOREM PipePublishesPrefix == Spec => []PrefixPublished
  BY BatchesInductive, PipeTypeCorrect, BatchIsPrefix, PTL

-----------------------------------------------------------------------------
(* End to end *)

Out == {m \in Messages : Forwarded(m)}

\* A step concerns one message.
LEMMA OneMessageOut ==
  ASSUME PipeTypeOK, PipeTypeOK', NEW m \in Messages,
         \A c \in Calls : arrived[c] \subseteq arrived'[c],
         skipped \subseteq skipped', \A n \in Messages : tries'[n] >= tries[n],
         \A n \in Messages \ {m} : Forwarded(n)' => Forwarded(n)
  PROVE  Out' = Out \/ Out' = Out \cup {m}
<1>1. ASSUME NEW n \in Messages, Forwarded(n) PROVE Forwarded(n)'
  <2>1. tries'[n] >= tries[n] /\ tries'[n] \in Nat
    BY DEF PipeTypeOK, TypeOK
  <2> QED
    BY <1>1, <2>1, ForwardedStays
<1>2. \A n \in Messages \ {m} : Forwarded(n)' <=> Forwarded(n)
  BY <1>1
<1> QED
  BY <1>1, <1>2 DEF Out

\* Every step of the pipe is a step of at-least-once delivery, or none.
LEMMA SourceStep ==
  ASSUME PipeTypeOK, PipeTypeOK', PipeInv, [Next]_vars
  PROVE  [Source!Next]_Source!vars
<1> USE DEF pipeVars
<1>1. ASSUME NEW m \in Messages, Out' = Out \/ Out' = Out \cup {m}, UNCHANGED status
      PROVE  [Source!Next]_Source!vars
  BY <1>1 DEF Source!Next, Source!Attempt, Source!vars, Out
<1>2. ASSUME NEW m \in Messages, Deliver(m) PROVE [Source!Next]_Source!vars
  <2>1. /\ UNCHANGED <<status, skipped, retryVars>>
        /\ tries' = [tries EXCEPT ![m] = @ + 1]
    BY <1>2 DEF Deliver
  <2>2. \A n \in Messages : tries'[n] >= tries[n]
    BY <2>1 DEF PipeTypeOK, TypeOK
  <2>3. \A n \in Messages \ {m} : Forwarded(n)' => Forwarded(n)
    BY <2>1 DEF Forwarded, Sent, retryVars, PipeTypeOK, TypeOK
  <2>4. Out' = Out \/ Out' = Out \cup {m}
    BY <2>1, <2>2, <2>3, OneMessageOut DEF retryVars
  <2> QED
    BY <1>1, <2>1, <2>4
<1>3. ASSUME NEW r \in Runs, Skip(r) PROVE [Source!Next]_Source!vars
  <2>1. UNCHANGED <<status, tries, retryVars>> /\ skipped' = skipped \cup {Message(r)}
    BY <1>3 DEF Skip
  <2>2. Message(r) \in Messages
    BY RunTypes DEF Message
  <2>3. \A n \in Messages \ {Message(r)} : Forwarded(n)' => Forwarded(n)
    BY <2>1 DEF Forwarded, Sent, retryVars
  <2>4. \A n \in Messages : tries'[n] >= tries[n]
    BY <2>1 DEF PipeTypeOK, TypeOK
  <2>5. Out' = Out \/ Out' = Out \cup {Message(r)}
    BY <2>1, <2>2, <2>3, <2>4, OneMessageOut DEF retryVars
  <2> QED
    BY <1>1, <2>1, <2>2, <2>5
<1>4. ASSUME NEW r \in Runs, Ack(r) PROVE [Source!Next]_Source!vars
  <2>1. Message(r) \in Messages /\ Forwarded(Message(r))
    BY <1>4, RunTypes, NilIsForwarded DEF Ack, Go, Message
  <2>2. Out' = Out
    BY <1>4 DEF Ack, Out, Forwarded, Sent, retryVars
  <2>3. CASE UNCHANGED status
    BY <2>2, <2>3 DEF Source!vars, Out
  <2>4. CASE status' = [status EXCEPT ![Message(r)] = "done"] /\ status' # status
    <3>1. status[Message(r)] = "open"
      BY <2>1, <2>4 DEF PipeTypeOK, TypeOK
    <3>2. Source!Settle(Message(r), "done")
      BY <2>1, <2>2, <2>4, <3>1 DEF Source!Settle, Out
    <3> QED
      BY <2>1, <3>2 DEF Source!Next
  <2> QED
    BY <1>4, <2>3, <2>4 DEF Ack
<1>5. ASSUME NEW c \in Calls, RetryStep(c) \/ Arrive(c), UNCHANGED pipeVars
      PROVE  [Source!Next]_Source!vars
  <2>1. /\ \A b \in Calls : arrived[b] \subseteq arrived'[b]
        /\ \A b \in Calls \ {c} : arrived'[b] = arrived[b]
    BY <1>5 DEF RetryStep, AttemptOk, AttemptFails, Expire, Retry, Abort, Arrive, PipeTypeOK,
                TypeOK, RetryTypeOK
  <2>2. \A n \in Messages : tries'[n] >= tries[n]
    BY <1>5 DEF PipeTypeOK, TypeOK
  <2>3. ASSUME NEW n \in Messages, c[1] # n, Forwarded(n)' PROVE Forwarded(n)
    <3>1. ASSUME NEW d \in Deliveries(n), NEW i \in 1 .. Items[n]
          PROVE  Sent(n, d, i)' <=> Sent(n, d, i)
      <4>1. <<n, d>> \in Runs /\ <<n, d>>[1] = n /\ <<n, d>>[2] = d
        BY RunsOf
      <4>2. <<n, d, i>> \in Calls /\ <<n, d, i>> # c
        BY <2>3, <4>1, CallsAssumption
      <4> QED
        BY <2>1, <4>2 DEF Sent
    <3> QED
      BY <1>5, <2>3, <3>1 DEF Forwarded
  <2>4. CASE c[1] \in Messages
    <3>1. Out' = Out \/ Out' = Out \cup {c[1]}
      BY <1>5, <2>1, <2>2, <2>3, <2>4, OneMessageOut
    <3> QED
      BY <1>1, <1>5, <2>4, <3>1
  <2>5. CASE c[1] \notin Messages
    <3>1. \A n \in Messages : Forwarded(n) => Forwarded(n)'
      BY <1>5, <2>1, <2>2, ForwardedStays DEF PipeTypeOK, TypeOK
    <3>2. Out' = Out
      BY <2>3, <2>5, <3>1 DEF Out
    <3> QED
      BY <1>5, <3>2 DEF Source!vars, Out
  <2> QED
    BY <2>4, <2>5
<1>6. CASE \/ \E r \in Runs : \/ MapFails(r) \/ Expand(r) \/ PublishItem(r) \/ NextItem(r)
                              \/ PublishFails(r) \/ Finish(r) \/ Nak(r) \/ CancelRun(r)
           \/ UNCHANGED vars
  <2>1. UNCHANGED <<status, tries, skipped, arrived>>
    BY <1>6 DEF MapFails, Expand, PublishItem, Publish, NextItem, PublishFails, Finish, Nak,
                CancelRun, CancelCalls, vars, retryVars
  <2> QED
    BY <2>1 DEF Source!vars, Forwarded, Sent
<1> QED
  BY <1>2, <1>3, <1>4, <1>5, <1>6 DEF Next, RunStep

\* The source drops a message only when the filter has rejected it or all its
\* items have got through, for any batches, deliveries, failures and retries.
THEOREM PipeForwards == Spec => ForwardsAtLeastOnce
<1>1. Init => Source!Init
  BY DEF Init, Source!Init, Forwarded
<1> QED
  BY <1>1, SourceStep, BatchesInductive, PipeTypeCorrect, PTL
     DEF Spec, ForwardsAtLeastOnce, Source!Spec
=============================================================================
