-------------------------- MODULE ChannelBusProofs --------------------------
(***************************************************************************)
(* Proofs about ChannelBus, for every number of publishers, sessions,      *)
(* Subscriber objects and subjects, and every buffer size.                 *)
(***************************************************************************)
EXTENDS ChannelBus, SequenceTheorems, TLAPS

\* Dropping the i-th element of a list without repetitions leaves the others,
\* each once, and not the dropped one (bus.go:37).
LEMMA RemoveAtProperties ==
  ASSUME NEW S, NEW seq \in Seq(S), NEW i \in 1 .. Len(seq)
  PROVE  /\ RemoveAt(seq, i) \in Seq(S)
         /\ Len(RemoveAt(seq, i)) = Len(seq) - 1
         /\ \A j \in 1 .. Len(seq) - 1 :
              RemoveAt(seq, i)[j] = IF j < i THEN seq[j] ELSE seq[j + 1]
<1> DEFINE front == SubSeq(seq, 1, i - 1)
           back == SubSeq(seq, i + 1, Len(seq))
<1>1. Len(seq) \in Nat
  BY LenProperties
<1>2. front \in Seq(S) /\ Len(front) = i - 1 /\ \A j \in 1 .. i - 1 : front[j] = seq[j]
  BY <1>1, SubSeqProperties
<1>3. /\ back \in Seq(S) /\ Len(back) = Len(seq) - i
      /\ \A j \in 1 .. Len(seq) - i : back[j] = seq[i + j]
  BY <1>1, SubSeqProperties
<1> HIDE DEF front, back
<1>4. /\ front \o back \in Seq(S)
      /\ Len(front \o back) = Len(front) + Len(back)
      /\ \A j \in 1 .. Len(front) + Len(back) :
           (front \o back)[j] = IF j <= Len(front) THEN front[j] ELSE back[j - Len(front)]
  BY <1>2, <1>3, ConcatProperties
<1>5. RemoveAt(seq, i) = front \o back
  BY DEF RemoveAt, front, back
<1>6. Len(front) + Len(back) = Len(seq) - 1
  BY <1>1, <1>2, <1>3
<1>7. ASSUME NEW j \in 1 .. Len(seq) - 1
      PROVE  (front \o back)[j] = IF j < i THEN seq[j] ELSE seq[j + 1]
  <2>1. CASE j < i
    BY <1>1, <1>2, <1>4, <1>6, <2>1
  <2>2. CASE j >= i
    <3>1. (front \o back)[j] = back[j - (i - 1)]
      BY <1>1, <1>2, <1>4, <1>6, <2>2
    <3>2. j - (i - 1) \in 1 .. Len(seq) - i /\ i + (j - (i - 1)) = j + 1
      BY <1>1, <2>2
    <3>3. QED
      BY <1>1, <1>3, <2>2, <3>1, <3>2
  <2>3. j < i \/ j >= i
    BY <1>1
  <2>4. QED
    BY <2>1, <2>2, <2>3
<1>8. QED
  BY <1>4, <1>5, <1>6, <1>7

-----------------------------------------------------------------------------
(* Type correctness *)

LEMMA TypeOKInit == Init => TypeOK
  BY ConstantsAssumption, EmptySeq
  DEF Init, TypeOK, SessionPc, PublishPc, Message

LEMMA TypeOKNext == TypeOK /\ [Next]_vars => TypeOK'
<1> SUFFICES ASSUME TypeOK, [Next]_vars PROVE TypeOK'
  OBVIOUS
<1> USE ConstantsAssumption
<1>1. ASSUME NEW s \in Sessions, SessionStep(s) PROVE TypeOK'
  <2>1. CASE Open(s)
    BY <2>1 DEF TypeOK, Open, SessionPc
  <2>2. CASE Register(s)
    <3>1. Append(subscribers[SubjectOf[s]], s) \in Seq(Sessions)
      BY AppendProperties DEF TypeOK
    <3>2. QED
      BY <2>2, <3>1 DEF TypeOK, Register, SessionPc
  <2>3. CASE SignalReady(s)
    BY <2>3 DEF TypeOK, SignalReady, SessionPc
  <2>4. CASE Receive(s)
    BY <2>4 DEF TypeOK, Receive, SessionPc
  <2>5. CASE HandlerReturn(s)
    BY <2>5 DEF TypeOK, HandlerReturn, SessionPc
  <2>6. CASE Stop(s)
    BY <2>6 DEF TypeOK, Stop, SessionPc
  <2>7. CASE Unregister(s)
    <3>1. \A i \in 1 .. Len(subscribers[SubjectOf[s]]) :
            RemoveAt(subscribers[SubjectOf[s]], i) \in Seq(Sessions)
      BY RemoveAtProperties DEF TypeOK
    <3>2. QED
      BY <2>7, <3>1 DEF TypeOK, Unregister, SessionPc
  <2>8. CASE Clear(s)
    BY <2>8 DEF TypeOK, Clear, SessionPc
  <2>9. QED
    BY <1>1, <2>1, <2>2, <2>3, <2>4, <2>5, <2>6, <2>7, <2>8 DEF SessionStep
<1>2. ASSUME NEW p \in Publishers, PublishStep(p) PROVE TypeOK'
  <2>1. CASE Call(p)
    <3>1. msg' \in [Publishers -> Message]
      <4>1. PICK subject \in Subjects :
              msg' = [msg EXCEPT ![p] = [pub |-> p, n |-> @.n + 1, subject |-> subject]]
        BY <2>1 DEF Call
      <4>2. msg[p].n + 1 \in Nat
        BY DEF TypeOK, Message
      <4>3. QED
        BY <4>1, <4>2 DEF TypeOK, Message
    <3>2. due' \in [Publishers -> SUBSET Sessions]
      BY <2>1 DEF TypeOK, Call
    <3>3. QED
      BY <2>1, <3>1, <3>2 DEF TypeOK, Call, PublishPc
  <2>2. CASE Snapshot(p)
    <3>1. msg[p].subject \in Subjects
      BY DEF TypeOK, Message
    <3>2. QED
      BY <2>2, <3>1 DEF TypeOK, Snapshot, PublishPc
  <2> DEFINE t == Target(p)
  <2>3. ASSUME InLoop(p)
        PROVE  t \in Sessions /\ Append(log[t], msg[p]) \in Seq(Message)
    <3>1. t \in Sessions
      BY <2>3, ElementOfSeq, LenProperties DEF TypeOK, InLoop, Target
    <3>2. QED
      BY <3>1, AppendProperties DEF TypeOK
  <2>4. CASE Send(p)
    BY <2>3, <2>4 DEF TypeOK, Send
  <2>5. CASE HandOver(p)
    BY <2>3, <2>5 DEF TypeOK, HandOver, SessionPc
  <2>6. CASE Abort(p)
    BY <2>6 DEF TypeOK, Abort, PublishPc
  <2>7. CASE Return(p)
    BY <2>7 DEF TypeOK, Return, PublishPc
  <2>8. QED
    BY <1>2, <2>1, <2>2, <2>4, <2>5, <2>6, <2>7 DEF PublishStep
<1>3. ASSUME NEW a \in Sessions \cup Publishers, Cancel(a) PROVE TypeOK'
  BY <1>3 DEF TypeOK, Cancel
<1>4. CASE UNCHANGED vars
  BY <1>4 DEF TypeOK, vars
<1>5. QED
  BY <1>1, <1>2, <1>3, <1>4 DEF Next

\* Every reachable state is well-typed, for every instance.
THEOREM TypeCorrect == SafeSpec => []TypeOK
  BY TypeOKInit, TypeOKNext, PTL DEF SafeSpec

-----------------------------------------------------------------------------
(* The bus's lists *)

LEMMA ListedOnceInit == Init => ListedOnce
  BY ConstantsAssumption DEF Init, ListedOnce, ListedOnceIn, Listed

LEMMA ListedOnceNext == TypeOK /\ ListedOnce /\ [Next]_vars => ListedOnce'
<1> SUFFICES ASSUME TypeOK, ListedOnce, [Next]_vars PROVE ListedOnce'
  OBVIOUS
<1>c. SubjectOf \in [Sessions -> Subjects]
  BY ConstantsAssumption
<1> USE <1>c
\* A subject whose list does not change, nor which of its sessions are Listed.
<1>0. ASSUME NEW z \in Subjects, subscribers'[z] = subscribers[z],
             \A t \in Sessions : SubjectOf[t] = z => (Listed(t)' <=> Listed(t))
      PROVE  ListedOnceIn(z)'
  BY <1>0 DEF ListedOnce, ListedOnceIn
<1>1. ASSUME UNCHANGED subscribers, \A t \in Sessions : Listed(t)' <=> Listed(t)
      PROVE  ListedOnce'
  BY <1>0, <1>1 DEF ListedOnce
<1>2. ASSUME NEW s \in Sessions, SessionStep(s) PROVE ListedOnce'
  <2> DEFINE x == SubjectOf[s]
             subs == subscribers[x]
             new == subscribers'[x]
  <2>0. x \in Subjects /\ subs \in Seq(Sessions) /\ Len(subs) \in Nat
    BY LenProperties DEF TypeOK
  \* The list of s's own subject, changed.
  <2>a. ASSUME \A z \in Subjects : z # x => subscribers'[z] = subscribers[z],
               \A t \in Sessions : t # s => (Listed(t)' <=> Listed(t)),
               \A i, j \in 1 .. Len(new) : new[i] = new[j] => i = j,
               \A t \in Sessions :
                 (\E i \in 1 .. Len(new) : new[i] = t) <=> Listed(t)' /\ SubjectOf[t] = x
        PROVE  ListedOnce'
    <3>1. ListedOnceIn(x)'
      BY <2>a DEF ListedOnceIn
    <3>2. ASSUME NEW z \in Subjects, z # x PROVE ListedOnceIn(z)'
      BY <1>0, <2>a, <3>2
    <3>3. QED
      BY <3>1, <3>2 DEF ListedOnce
  <2>b. /\ \A i, j \in 1 .. Len(subs) : subs[i] = subs[j] => i = j
        /\ \A t \in Sessions :
             (\E i \in 1 .. Len(subs) : subs[i] = t) <=> Listed(t) /\ SubjectOf[t] = x
    BY <2>0 DEF ListedOnce, ListedOnceIn
  <2>1. CASE Register(s)
    <3>1. \A t \in Sessions : Listed(t)' <=> Listed(t) \/ t = s
      BY <2>1 DEF TypeOK, Register, Listed
    <3>2. ~ \E i \in 1 .. Len(subs) : subs[i] = s
      BY <2>1, <2>b DEF Listed, Register
    <3>3. /\ new = Append(subs, s)
          /\ \A z \in Subjects : z # x => subscribers'[z] = subscribers[z]
      BY <2>0, <2>1 DEF Register, TypeOK
    <3>4. /\ Len(new) = Len(subs) + 1
          /\ \A i \in 1 .. Len(subs) : new[i] = subs[i]
          /\ new[Len(subs) + 1] = s
      BY <2>0, <3>3, AppendProperties
    <3> HIDE DEF subs, new, x
    <3>5. ASSUME NEW i \in 1 .. Len(new), NEW j \in 1 .. Len(new), new[i] = new[j]
          PROVE  i = j
      <4>1. CASE i \in 1 .. Len(subs) /\ j \in 1 .. Len(subs)
        BY <2>b, <3>4, <3>5, <4>1
      <4>2. CASE i = Len(subs) + 1 \/ j = Len(subs) + 1
        BY <2>0, <3>2, <3>4, <3>5, <4>2
      <4>3. QED
        BY <2>0, <3>4, <4>1, <4>2
    <3>6. \A t \in Sessions :
            (\E i \in 1 .. Len(new) : new[i] = t)
              <=> (\E i \in 1 .. Len(subs) : subs[i] = t) \/ t = s
      BY <2>0, <3>4
    <3>7. \A t \in Sessions :
            (\E i \in 1 .. Len(new) : new[i] = t) <=> Listed(t)' /\ SubjectOf[t] = x
      BY <2>b, <3>1, <3>6 DEF x
    <3>8. QED
      BY <2>a, <3>1, <3>3, <3>5, <3>7
  <2>2. CASE Unregister(s)
    <3>1. \A t \in Sessions : Listed(t)' <=> Listed(t) /\ t # s
      BY <2>2 DEF TypeOK, Unregister, Listed
    <3>2. \E i \in 1 .. Len(subs) : subs[i] = s
      BY <2>2, <2>b DEF Listed, Unregister
    <3>3. PICK i \in 1 .. Len(subs) :
            subs[i] = s /\ subscribers' = [subscribers EXCEPT ![x] = RemoveAt(subs, i)]
      BY <2>2, <3>2 DEF Unregister
    <3>4. /\ new = RemoveAt(subs, i)
          /\ \A z \in Subjects : z # x => subscribers'[z] = subscribers[z]
      BY <2>0, <3>3 DEF TypeOK
    <3>5. /\ Len(new) = Len(subs) - 1
          /\ \A j \in 1 .. Len(subs) - 1 :
               new[j] = IF j < i THEN subs[j] ELSE subs[j + 1]
      <4>1. /\ Len(RemoveAt(subs, i)) = Len(subs) - 1
            /\ \A j \in 1 .. Len(subs) - 1 :
                 RemoveAt(subs, i)[j] = IF j < i THEN subs[j] ELSE subs[j + 1]
        <5> HIDE DEF subs
        <5>1. QED
          BY <2>0, RemoveAtProperties
      <4>2. QED
        BY <3>4, <4>1
    <3> HIDE DEF subs, new, x
    <3>6. \A k, j \in 1 .. Len(new) : new[k] = new[j] => k = j
      BY <2>0, <2>b, <3>5
    <3>7. ASSUME NEW t \in Sessions
          PROVE  (\E k \in 1 .. Len(new) : new[k] = t)
                   <=> (\E k \in 1 .. Len(subs) : subs[k] = t) /\ t # s
      <4>1. ASSUME NEW k \in 1 .. Len(new), new[k] = t
            PROVE  (\E j \in 1 .. Len(subs) : subs[j] = t) /\ t # s
        <5>1. CASE k < i
          BY <2>0, <2>b, <3>3, <3>5, <4>1, <5>1
        <5>2. CASE k >= i
          <6>1. k + 1 \in 1 .. Len(subs) /\ k + 1 # i /\ subs[k + 1] = t
            BY <2>0, <3>3, <3>5, <4>1, <5>2
          <6>2. QED
            BY <2>b, <3>3, <6>1
        <5>3. QED
          BY <2>0, <3>3, <4>1, <5>1, <5>2
      <4>2. ASSUME NEW k \in 1 .. Len(subs), subs[k] = t, t # s
            PROVE  \E j \in 1 .. Len(new) : new[j] = t
        <5>1. CASE k < i
          BY <2>0, <3>3, <3>5, <4>2, <5>1
        <5>2. CASE k > i
          <6>1. k - 1 \in 1 .. Len(new) /\ new[k - 1] = t
            BY <2>0, <3>3, <3>5, <4>2, <5>2
          <6>2. QED
            BY <6>1
        <5>3. QED
          BY <2>0, <3>3, <4>2, <5>1, <5>2
      <4>3. QED
        BY <4>1, <4>2
    <3>8. \A t \in Sessions :
            (\E k \in 1 .. Len(new) : new[k] = t) <=> Listed(t)' /\ SubjectOf[t] = x
      BY <2>b, <3>1, <3>7
    <3>9. QED
      BY <2>a, <3>1, <3>4, <3>6, <3>8
  <2>3. CASE Open(s) \/ SignalReady(s) \/ Receive(s) \/ HandlerReturn(s) \/ Stop(s) \/ Clear(s)
    BY <1>1, <2>3
    DEF TypeOK, Listed, Open, SignalReady, Receive, HandlerReturn, Stop, Clear
  <2>4. QED
    BY <1>2, <2>1, <2>2, <2>3 DEF SessionStep
<1>3. ASSUME NEW p \in Publishers, PublishStep(p) PROVE ListedOnce'
  <2>1. UNCHANGED subscribers
    BY <1>3 DEF PublishStep, Call, Snapshot, Send, HandOver, Abort, Return
  <2>2. \A s \in Sessions : Listed(s)' <=> Listed(s)
    BY <1>3
    DEF PublishStep, Call, Snapshot, Send, HandOver, Abort, Return, Listed, TypeOK
  <2>3. QED
    BY <1>1, <2>1, <2>2
<1>4. CASE \/ UNCHANGED vars
           \/ \E a \in Sessions \cup Publishers : Cancel(a)
  BY <1>1, <1>4 DEF vars, Cancel, Listed
<1>5. QED
  BY <1>2, <1>3, <1>4 DEF Next

\* However sessions come and go, the bus lists each exactly once, from its
\* registration to its unsubscribe (bus.go:23-41).
THEOREM EachListedOnce == SafeSpec => []ListedOnce
  BY TypeCorrect, ListedOnceInit, ListedOnceNext, PTL DEF SafeSpec

-----------------------------------------------------------------------------
(* What is in a channel, and what a Publish has in its hands *)

Started(p) == ppc[p] \in {"sending", "ok", "aborted"}

\* A snapshot lists registered sessions of the message's subject, each once,
\* and the loop stays within it.
SnapshotOK(p) ==
  Started(p) =>
    /\ next[p] <= Len(snapshot[p]) + 1
    /\ ppc[p] = "ok" => next[p] = Len(snapshot[p]) + 1
    /\ \A i, j \in 1 .. Len(snapshot[p]) : snapshot[p][i] = snapshot[p][j] => i = j
    /\ \A k \in 1 .. Len(snapshot[p]) :
         /\ SubjectOf[snapshot[p][k]] = msg[p].subject
         /\ pc[snapshot[p][k]] \notin {"idle", "opened"}

SnapshotsOK == \A p \in Publishers : SnapshotOK(p)

\* Calls are numbered from 1 on.
CallsOK ==
  \A p \in Publishers : msg[p].pub = p /\ (msg[p].n = 0 <=> ppc[p] = "idle")

\* Only messages of calls made so far are in the channels, the one of the
\* current call not before its snapshot.
EntryOK(s, m) ==
  /\ m.subject = SubjectOf[s]
  /\ m.n <= msg[m.pub].n
  /\ m.n = msg[m.pub].n => m = msg[m.pub] /\ Started(m.pub)

LogsOK == \A s \in Sessions : \A i \in 1 .. Len(log[s]) : EntryOK(s, log[s][i])

\* A channel never holds more than its capacity.
TakenOK ==
  \A s \in Sessions : taken[s] <= Len(log[s]) /\ Buffered(s) <= Capacity(s)

\* A session that was ready when Publish was called is on the list it copies.
DueOK ==
  \A p \in Publishers : \A s \in due[p] \ cancelled :
    /\ ppc[p] = "called" => IsReady(s) /\ SubjectOf[s] = msg[p].subject
    /\ Started(p) => \E k \in 1 .. Len(snapshot[p]) : snapshot[p][k] = s

\* With exclusive callers, a Subscriber's channel is that of its only session.
GaugeOK ==
  \A s \in Sessions :
    /\ Active(s) /\ Owner[s] \in Exclusive => ch[Owner[s]] = s
    /\ \A r \in Exclusive : ch[r] = s => Active(s) /\ Owner[s] = r

\* Facts about one step that several proofs use.

SameCall(p) ==
  /\ ppc'[p] = ppc[p] /\ msg'[p] = msg[p] /\ snapshot'[p] = snapshot[p]
  /\ next'[p] = next[p] /\ due'[p] = due[p]

\* Publishers do not touch each other's calls.
LEMMA OthersCalls ==
  ASSUME TypeOK, [Next]_vars, NEW p \in Publishers
  PROVE  SameCall(p) \/ PublishStep(p)
<1>1. ASSUME NEW s \in Sessions, SessionStep(s) PROVE SameCall(p)
  BY <1>1
  DEF SessionStep, Open, Register, SignalReady, Receive, HandlerReturn, Stop,
      Unregister, Clear, SameCall
<1>2. ASSUME NEW q \in Publishers, q # p, PublishStep(q) PROVE SameCall(p)
  BY <1>2
  DEF PublishStep, Call, Snapshot, Send, HandOver, Abort, Return, SameCall, TypeOK
<1>3. CASE \/ UNCHANGED vars
           \/ \E a \in Sessions \cup Publishers : Cancel(a)
  BY <1>3 DEF vars, Cancel, SameCall
<1>4. QED
  BY <1>1, <1>2, <1>3 DEF Next

\* A registered session stays registered or goes on to its end.
LEMMA PcForward ==
  ASSUME TypeOK, [Next]_vars, NEW s \in Sessions, pc[s] \notin {"idle", "opened"}
  PROVE  pc'[s] \notin {"idle", "opened"}
<1>1. ASSUME NEW t \in Sessions, SessionStep(t) PROVE pc'[s] \notin {"idle", "opened"}
  BY <1>1
  DEF TypeOK, SessionStep, Open, Register, SignalReady, Receive, HandlerReturn,
      Stop, Unregister, Clear
<1>2. ASSUME NEW p \in Publishers, PublishStep(p) PROVE pc'[s] \notin {"idle", "opened"}
  BY <1>2 DEF TypeOK, PublishStep, Call, Snapshot, Send, HandOver, Abort, Return
<1>3. CASE \/ UNCHANGED vars
           \/ \E a \in Sessions \cup Publishers : Cancel(a)
  BY <1>3 DEF vars, Cancel
<1>4. QED
  BY <1>1, <1>2, <1>3 DEF Next

\* What both ways of completing a send do (bus.go:55).
LEMMA SendEffect ==
  ASSUME TypeOK, NEW p \in Publishers, Send(p) \/ HandOver(p)
  PROVE  /\ Target(p) \in Sessions
         /\ ppc[p] = "sending" /\ next[p] \in 1 .. Len(snapshot[p])
         /\ UNCHANGED <<subscribers, ch, cancelled, ppc, msg, snapshot, due>>
         /\ next' = [next EXCEPT ![p] = @ + 1]
         /\ Len(log'[Target(p)]) = Len(log[Target(p)]) + 1
         /\ \A i \in 1 .. Len(log[Target(p)]) : log'[Target(p)][i] = log[Target(p)][i]
         /\ log'[Target(p)][Len(log[Target(p)]) + 1] = msg[p]
         /\ \A s \in Sessions : s # Target(p) => log'[s] = log[s]
<1>1. next[p] \in 1 .. Len(snapshot[p]) /\ Target(p) \in Sessions
  BY LenProperties, ElementOfSeq DEF TypeOK, Send, HandOver, InLoop, Target
<1>2. log' = [log EXCEPT ![Target(p)] = Append(@, msg[p])]
  BY DEF Send, HandOver
<1>3. log[Target(p)] \in Seq(Message) /\ msg[p] \in Message
  BY <1>1 DEF TypeOK
<1>4. log'[Target(p)] = Append(log[Target(p)], msg[p])
  BY <1>1, <1>2 DEF TypeOK
<1>5. /\ Len(log'[Target(p)]) = Len(log[Target(p)]) + 1
      /\ \A i \in 1 .. Len(log[Target(p)]) : log'[Target(p)][i] = log[Target(p)][i]
      /\ log'[Target(p)][Len(log[Target(p)]) + 1] = msg[p]
  BY <1>3, <1>4, AppendProperties
<1>6. \A s \in Sessions : s # Target(p) => log'[s] = log[s]
  BY <1>2 DEF TypeOK
<1>7. QED
  BY <1>1, <1>5, <1>6 DEF Send, HandOver, InLoop

\* Nothing else writes to a channel.
LEMMA LogFrame ==
  ASSUME TypeOK, [Next]_vars
  PROVE  UNCHANGED log \/ \E p \in Publishers : Send(p) \/ HandOver(p)
  BY DEF Next, vars, SessionStep, Open, Register, SignalReady, Receive, HandlerReturn,
         Stop, Unregister, Clear, PublishStep, Call, Snapshot, Abort, Return, Cancel

\* A message is in a channel after a step iff it was, or is sent by the step.
LEMMA HasStep ==
  ASSUME TypeOK, [Next]_vars, NEW s \in Sessions, NEW m
  PROVE  Has(s, m)' <=> \/ Has(s, m)
                        \/ \E p \in Publishers : /\ Send(p) \/ HandOver(p)
                                                /\ s = Target(p) /\ m = msg[p]
<1>1. ASSUME NEW p \in Publishers, Send(p) \/ HandOver(p)
      PROVE  Has(s, m)' <=> Has(s, m) \/ (s = Target(p) /\ m = msg[p])
  <2>1. CASE s # Target(p)
    BY <1>1, <2>1, SendEffect DEF Has
  <2>2. CASE s = Target(p)
    <3>1. Len(log[s]) \in Nat
      BY LenProperties DEF TypeOK
    <3>2. /\ Len(log'[s]) = Len(log[s]) + 1
          /\ \A i \in 1 .. Len(log[s]) : log'[s][i] = log[s][i]
          /\ log'[s][Len(log[s]) + 1] = msg[p]
      BY <1>1, <2>2, SendEffect
    <3>3. QED
      BY <2>2, <3>1, <3>2 DEF Has
  <2>3. QED
    BY <2>1, <2>2
<1>2. CASE \E p \in Publishers : Send(p) \/ HandOver(p)
  <2>1. PICK p \in Publishers : Send(p) \/ HandOver(p)
    BY <1>2
  <2>2. ASSUME NEW q \in Publishers, Send(q) \/ HandOver(q) PROVE q = p
    BY <2>1, <2>2, SendEffect DEF TypeOK
  <2>3. QED
    BY <1>1, <2>1, <2>2
<1>3. CASE UNCHANGED log /\ ~ \E p \in Publishers : Send(p) \/ HandOver(p)
  BY <1>3 DEF Has
<1>4. QED
  BY <1>2, <1>3, LogFrame

\* The invariants of the delivery, one by one.

LEMMA SnapshotsOKNext ==
  TypeOK /\ ListedOnce /\ SnapshotsOK /\ [Next]_vars => SnapshotsOK'
<1> SUFFICES ASSUME TypeOK, ListedOnce, SnapshotsOK, [Next]_vars, NEW p \in Publishers
             PROVE  SnapshotOK(p)'
  BY DEF SnapshotsOK
<1> SnapshotOK(p) /\ snapshot[p] \in Seq(Sessions) /\ Len(snapshot[p]) \in Nat
  BY LenProperties DEF SnapshotsOK, TypeOK
<1>1. \A k \in 1 .. Len(snapshot[p]) : snapshot[p][k] \in Sessions
  BY ElementOfSeq
<1>2. CASE SameCall(p)
  BY <1>1, <1>2, PcForward DEF SnapshotOK, SameCall, Started
<1>3. CASE Call(p)
  BY <1>3 DEF SnapshotOK, Started, Call, TypeOK
<1>4. CASE Snapshot(p)
  <2> DEFINE x == msg[p].subject
             subs == subscribers[x]
  <2>1. x \in Subjects /\ subs \in Seq(Sessions) /\ Len(subs) \in Nat
    BY LenProperties DEF TypeOK, Message
  <2>2. snapshot'[p] = subs /\ next'[p] = 1 /\ ppc'[p] = "sending" /\ msg' = msg /\ pc' = pc
    BY <1>4 DEF Snapshot, TypeOK
  <2>3. ListedOnceIn(x)
    BY <2>1 DEF ListedOnce
  <2>4. \A k \in 1 .. Len(subs) : subs[k] \in Sessions
    BY <2>1, ElementOfSeq
  <2>5. \A k \in 1 .. Len(subs) : SubjectOf[subs[k]] = x /\ Listed(subs[k])
    BY <2>3, <2>4 DEF ListedOnceIn
  <2>6. QED
    <3>1. \A i, j \in 1 .. Len(subs) : subs[i] = subs[j] => i = j
      BY <2>3 DEF ListedOnceIn
    <3>2. \A k \in 1 .. Len(subs) : pc[subs[k]] \notin {"idle", "opened"}
      BY <2>5 DEF Listed
    <3> HIDE DEF subs, x
    <3>3. 1 <= Len(subs) + 1
      BY <2>1
    <3>4. QED
      BY <2>2, <2>5, <3>1, <3>2, <3>3 DEF SnapshotOK, x
<1>5. CASE Send(p) \/ HandOver(p)
  <2>1. /\ ppc[p] = "sending" /\ ppc' = ppc /\ msg' = msg /\ snapshot' = snapshot
        /\ next[p] \in 1 .. Len(snapshot[p]) /\ next'[p] = next[p] + 1
    BY <1>5, SendEffect DEF TypeOK
  <2>2. QED
    BY <1>1, <2>1, PcForward DEF SnapshotOK, Started
<1>6. CASE Abort(p) \/ Return(p)
  BY <1>6 DEF SnapshotOK, Started, Abort, Return, InLoop, TypeOK
<1>7. QED
  BY <1>2, <1>3, <1>4, <1>5, <1>6, OthersCalls DEF PublishStep

LEMMA CallsOKNext == TypeOK /\ CallsOK /\ [Next]_vars => CallsOK'
<1> SUFFICES ASSUME TypeOK, CallsOK, [Next]_vars, NEW p \in Publishers
             PROVE  (msg[p].pub = p /\ (msg[p].n = 0 <=> ppc[p] = "idle"))'
  BY DEF CallsOK
<1>1. msg[p].pub = p /\ (msg[p].n = 0 <=> ppc[p] = "idle") /\ msg[p].n \in Nat
  BY DEF CallsOK, TypeOK, Message
<1>2. CASE SameCall(p)
  BY <1>1, <1>2 DEF SameCall
<1>3. CASE Call(p)
  <2>1. msg'[p].pub = p /\ msg'[p].n = msg[p].n + 1 /\ ppc'[p] = "called"
    BY <1>3 DEF Call, TypeOK
  <2>2. QED
    BY <1>1, <2>1
<1>4. CASE Snapshot(p) \/ Abort(p) \/ Return(p)
  BY <1>1, <1>4 DEF Snapshot, Abort, Return, InLoop, TypeOK
<1>5. CASE Send(p) \/ HandOver(p)
  BY <1>1, <1>5, SendEffect
<1>6. QED
  BY <1>2, <1>3, <1>4, <1>5, OthersCalls DEF PublishStep

\* Once in a channel, a message stays one of a started call.
LEMMA EntryStable ==
  ASSUME TypeOK, [Next]_vars, NEW s \in Sessions, NEW m \in Message, EntryOK(s, m)
  PROVE  EntryOK(s, m)'
<1> DEFINE p == m.pub
<1>1. p \in Publishers /\ m.n \in Nat /\ msg[p].n \in Nat
  BY DEF TypeOK, Message
<1> HIDE DEF p
<1>2. m.subject = SubjectOf[s] /\ m.n <= msg[p].n /\ (m.n = msg[p].n => m = msg[p] /\ Started(p))
  BY DEF EntryOK, p
<1>3. CASE SameCall(p)
  BY <1>2, <1>3 DEF EntryOK, SameCall, Started, p
<1>4. CASE Call(p)
  <2>1. msg'[p].n = msg[p].n + 1
    BY <1>1, <1>4 DEF Call, TypeOK
  <2>2. QED
    BY <1>1, <1>2, <2>1 DEF EntryOK, p
<1>5. CASE Snapshot(p) \/ Abort(p) \/ Return(p)
  BY <1>1, <1>2, <1>5 DEF EntryOK, Started, Snapshot, Abort, Return, TypeOK, p
<1>6. CASE Send(p) \/ HandOver(p)
  BY <1>1, <1>2, <1>6, SendEffect DEF EntryOK, Started, p
<1>7. QED
  BY <1>1, <1>3, <1>4, <1>5, <1>6, OthersCalls DEF PublishStep

LEMMA LogsOKNext ==
  TypeOK /\ SnapshotsOK /\ CallsOK /\ LogsOK /\ [Next]_vars => LogsOK'
<1> SUFFICES ASSUME TypeOK, SnapshotsOK, CallsOK, LogsOK, [Next]_vars,
                    NEW s \in Sessions, NEW i \in 1 .. Len(log'[s]),
                    NEW m, m = log'[s][i]
             PROVE  EntryOK(s, m)'
  BY DEF LogsOK
<1>1. log[s] \in Seq(Message) /\ Len(log[s]) \in Nat
  BY LenProperties DEF TypeOK
<1>2. ASSUME i \in 1 .. Len(log[s]), m = log[s][i] PROVE EntryOK(s, m)'
  <2>1. m \in Message /\ EntryOK(s, m)
    BY <1>1, <1>2, ElementOfSeq DEF LogsOK
  <2>2. QED
    BY <2>1, EntryStable
<1>3. CASE UNCHANGED log
  BY <1>2, <1>3
<1>4. ASSUME NEW p \in Publishers, Send(p) \/ HandOver(p) PROVE EntryOK(s, m)'
  <2>1. CASE s # Target(p)
    BY <1>2, <1>4, <2>1, SendEffect
  <2>2. CASE s = Target(p) /\ i \in 1 .. Len(log[s])
    BY <1>2, <1>4, <2>2, SendEffect
  <2>3. CASE s = Target(p) /\ i = Len(log[s]) + 1
    <3>1. m = msg[p] /\ msg' = msg /\ ppc' = ppc /\ ppc[p] = "sending"
      BY <1>4, <2>3, SendEffect
    <3>2. msg[p].subject = SubjectOf[s]
      BY <1>4, <2>3, <3>1, SendEffect DEF SnapshotsOK, SnapshotOK, Started, Target
    <3>3. msg[p].pub = p /\ msg[p].n \in Nat
      BY DEF CallsOK, TypeOK, Message
    <3>4. QED
      BY <3>1, <3>2, <3>3 DEF EntryOK, Started
  <2>4. QED
    BY <1>1, <1>4, <2>1, <2>2, <2>3, SendEffect
<1>5. QED
  BY <1>3, <1>4, LogFrame

\* The part of DeliveredPrefix that is about one publisher.
Delivered(p) ==
  Started(p) =>
    \A s \in Sessions :
      Has(s, msg[p]) <=> \E k \in 1 .. next[p] - 1 : snapshot[p][k] = s

AllDelivered == \A p \in Publishers : Delivered(p)

LEMMA AllDeliveredNext ==
  TypeOK /\ SnapshotsOK /\ CallsOK /\ LogsOK /\ AllDelivered /\ [Next]_vars => AllDelivered'
<1> SUFFICES ASSUME TypeOK, SnapshotsOK, CallsOK, LogsOK, AllDelivered, [Next]_vars,
                    NEW p \in Publishers, Started(p)',
                    NEW s \in Sessions, NEW m, m = msg'[p]
             PROVE  Has(s, m)' <=> \E k \in 1 .. next'[p] - 1 : snapshot'[p][k] = s
  BY DEF AllDelivered, Delivered
<1>1. \A q \in Publishers : msg[q] = msg[p] => q = p
  BY DEF CallsOK
\* p's own step is not a send: its message goes nowhere.
<1>2. ASSUME msg'[p] = msg[p], next'[p] = next[p], snapshot'[p] = snapshot[p], Started(p)
      PROVE  Has(s, m)' <=> \E k \in 1 .. next'[p] - 1 : snapshot'[p][k] = s
  <2>1. ASSUME NEW q \in Publishers, Send(q) \/ HandOver(q), m = msg[q] PROVE FALSE
    <3>1. q = p
      BY <1>1, <1>2, <2>1
    <3>2. next'[p] = next[p] + 1 /\ next[p] \in Nat
      BY <2>1, <3>1, SendEffect DEF TypeOK
    <3>3. QED
      BY <1>2, <3>2
  <2>2. Has(s, m)' <=> Has(s, m)
    BY <2>1, HasStep
  <2>3. QED
    BY <1>2, <2>2 DEF AllDelivered, Delivered
<1>3. CASE SameCall(p)
  BY <1>2, <1>3 DEF SameCall, Started
<1>4. CASE Call(p)
  BY <1>4 DEF Call, Started, TypeOK
<1>5. CASE Snapshot(p)
  <2>1. ppc[p] = "called" /\ next'[p] = 1 /\ msg' = msg /\ log' = log
    BY <1>5 DEF Snapshot, TypeOK
  <2>2. ~ Has(s, m)
    BY <2>1 DEF Has, LogsOK, EntryOK, Started, CallsOK
  <2>3. ~ Has(s, m)'
    BY <2>1, <2>2 DEF Has
  <2>4. QED
    BY <2>1, <2>3
<1>6. CASE Send(p) \/ HandOver(p)
  <2>1. /\ ppc[p] = "sending" /\ msg' = msg /\ snapshot' = snapshot
        /\ next[p] \in 1 .. Len(snapshot[p]) /\ next'[p] = next[p] + 1
        /\ Target(p) = snapshot[p][next[p]]
    BY <1>6, SendEffect DEF TypeOK, Target
  <2>2. Has(s, m)' <=> Has(s, m) \/ s = Target(p)
    BY <1>1, <1>6, <2>1, HasStep
  <2>3. Has(s, m) <=> \E k \in 1 .. next[p] - 1 : snapshot[p][k] = s
    BY <2>1 DEF AllDelivered, Delivered, Started
  <2>4. QED
    BY <2>1, <2>2, <2>3
<1>7. CASE Abort(p) \/ Return(p)
  BY <1>2, <1>7 DEF Abort, Return, InLoop, Started
<1>8. QED
  BY <1>3, <1>4, <1>5, <1>6, <1>7, OthersCalls DEF PublishStep

LEMMA DueOKNext == TypeOK /\ ListedOnce /\ DueOK /\ [Next]_vars => DueOK'
<1> SUFFICES ASSUME TypeOK, ListedOnce, DueOK, [Next]_vars, NEW p \in Publishers,
                    NEW s \in due'[p] \ cancelled'
             PROVE  /\ ppc'[p] = "called" => IsReady(s)' /\ SubjectOf[s] = msg'[p].subject
                    /\ Started(p)' => \E k \in 1 .. Len(snapshot'[p]) : snapshot'[p][k] = s
  BY DEF DueOK
<1>1. s \in Sessions /\ cancelled \subseteq cancelled' /\ s \notin cancelled
  <2>1. cancelled \subseteq cancelled'
    BY DEF Next, vars, SessionStep, Open, Register, SignalReady, Receive, HandlerReturn,
           Stop, Unregister, Clear, PublishStep, Call, Snapshot, Send, HandOver, Abort,
           Return, Cancel
  <2>2. TypeOK'
    BY TypeOKNext
  <2>3. QED
    BY <2>1, <2>2 DEF TypeOK
\* A session leaves its loop only when it is cancelled.
<1>2. IsReady(s) => IsReady(s)'
  <2>1. ASSUME NEW t \in Sessions, SessionStep(t), IsReady(s) PROVE IsReady(s)'
    BY <1>1, <2>1
    DEF TypeOK, IsReady, SessionStep, Open, Register, SignalReady, Receive,
        HandlerReturn, Stop, Unregister, Clear
  <2>2. ASSUME NEW q \in Publishers, PublishStep(q), IsReady(s) PROVE IsReady(s)'
    BY <1>1, <2>2
    DEF TypeOK, IsReady, PublishStep, Call, Snapshot, Send, HandOver, Abort, Return
  <2>3. CASE \/ UNCHANGED vars
             \/ \E a \in Sessions \cup Publishers : Cancel(a)
    BY <2>3 DEF vars, Cancel, IsReady
  <2>4. QED
    BY <2>1, <2>2, <2>3 DEF Next
<1>3. CASE SameCall(p)
  BY <1>1, <1>2, <1>3 DEF DueOK, SameCall, Started
<1>4. CASE Call(p)
  <2>1. PICK subject \in Subjects :
          /\ msg' = [msg EXCEPT ![p] = [pub |-> p, n |-> @.n + 1, subject |-> subject]]
          /\ due' = [due EXCEPT ![p] = {t \in Sessions : IsReady(t) /\ SubjectOf[t] = subject}]
    BY <1>4 DEF Call
  <2>2. msg'[p].subject = subject /\ IsReady(s) /\ SubjectOf[s] = subject
    BY <2>1 DEF TypeOK
  <2>3. ppc'[p] = "called"
    BY <1>4 DEF Call, TypeOK
  <2>4. QED
    BY <1>2, <2>2, <2>3 DEF Started
<1>5. CASE Snapshot(p)
  <2>1. /\ ppc[p] = "called" /\ ppc'[p] = "sending" /\ s \in due[p]
        /\ snapshot'[p] = subscribers[msg[p].subject]
    BY <1>5 DEF Snapshot, TypeOK
  <2>2. IsReady(s) /\ SubjectOf[s] = msg[p].subject /\ msg[p].subject \in Subjects
    BY <1>1, <2>1 DEF DueOK, TypeOK, Message
  <2>3. \E k \in 1 .. Len(snapshot'[p]) : snapshot'[p][k] = s
    BY <1>1, <2>1, <2>2 DEF ListedOnce, ListedOnceIn, IsReady, Listed
  <2>4. QED
    BY <2>1, <2>3
<1>6. CASE Send(p) \/ HandOver(p)
  BY <1>1, <1>6, SendEffect DEF DueOK, Started
<1>7. CASE Abort(p) \/ Return(p)
  <2>1. /\ ppc[p] = "sending" /\ ppc'[p] \in {"ok", "aborted"}
        /\ snapshot' = snapshot /\ due' = due
    BY <1>7 DEF Abort, Return, InLoop, TypeOK
  <2>2. QED
    BY <1>1, <2>1 DEF DueOK, Started
<1>8. QED
  BY <1>3, <1>4, <1>5, <1>6, <1>7, OthersCalls DEF PublishStep

-----------------------------------------------------------------------------
(* The safety theorems *)

DeliveryInv == SnapshotsOK /\ CallsOK /\ LogsOK /\ AllDelivered /\ DueOK

LEMMA DeliveryInvInit == Init => DeliveryInv
<1> SUFFICES ASSUME Init PROVE DeliveryInv
  OBVIOUS
<1>1. SnapshotsOK /\ AllDelivered
  BY DEF Init, SnapshotsOK, SnapshotOK, AllDelivered, Delivered, Started
<1>2. CallsOK
  BY DEF Init, CallsOK
<1>3. LogsOK
  BY DEF Init, LogsOK
<1>4. DueOK
  BY DEF Init, DueOK
<1>5. QED
  BY <1>1, <1>2, <1>3, <1>4 DEF DeliveryInv

LEMMA DeliveryInvHolds == SafeSpec => []DeliveryInv
<1>1. TypeOK /\ ListedOnce /\ DeliveryInv /\ [Next]_vars => DeliveryInv'
  BY SnapshotsOKNext, CallsOKNext, LogsOKNext, AllDeliveredNext, DueOKNext DEF DeliveryInv
<1>2. QED
  BY <1>1, TypeCorrect, EachListedOnce, DeliveryInvInit, PTL DEF SafeSpec

\* Whatever sessions and other publishers do meanwhile, a Publish reaches its
\* snapshot's channels in order and once, and nil means all of them (bus.go:53-61).
THEOREM DeliversPrefix == SafeSpec => []DeliveredPrefix
<1>1. DeliveryInv => DeliveredPrefix
  BY DEF DeliveryInv, AllDelivered, Delivered, SnapshotsOK, SnapshotOK, Started, DeliveredPrefix
<1>2. QED
  BY <1>1, DeliveryInvHolds, PTL

\* The promise of ReadySubscriber: no Publish called after ready() that returns
\* nil has missed the session (root subscriber.go:24-46).
THEOREM ReadySessionsReceive == SafeSpec => []ReadyReceives
<1>1. TypeOK /\ DeliveryInv => ReadyReceives
  <2> SUFFICES ASSUME TypeOK, DeliveryInv, NEW p \in Publishers, ppc[p] = "ok",
                      NEW s \in due[p] \ cancelled
               PROVE  Has(s, msg[p])
    BY DEF ReadyReceives
  <2>1. s \in Sessions /\ Len(snapshot[p]) \in Nat
    BY LenProperties DEF TypeOK
  <2>2. \E k \in 1 .. Len(snapshot[p]) : snapshot[p][k] = s
    BY DEF DeliveryInv, DueOK, Started
  <2>3. next[p] = Len(snapshot[p]) + 1
    BY DEF DeliveryInv, SnapshotsOK, SnapshotOK, Started
  <2>4. QED
    BY <2>1, <2>2, <2>3 DEF DeliveryInv, AllDelivered, Delivered, Started
<1>2. QED
  BY <1>1, TypeCorrect, DeliveryInvHolds, PTL

InOrder(s) ==
  \A i, j \in 1 .. Len(log[s]) :
    i < j /\ log[s][i].pub = log[s][j].pub => log[s][i].n < log[s][j].n

LEMMA InOrderOnceNext ==
  TypeOK /\ DeliveryInv /\ InOrderOnce /\ [Next]_vars => InOrderOnce'
<1> SUFFICES ASSUME TypeOK, DeliveryInv, InOrderOnce, [Next]_vars, NEW s \in Sessions
             PROVE  InOrder(s)'
  BY DEF InOrderOnce, Contract!InOrderOnce, InOrder
<1>1. InOrder(s)
  BY DEF InOrderOnce, Contract!InOrderOnce, InOrder
<1>2. CASE log'[s] = log[s]
  BY <1>1, <1>2 DEF InOrder
<1>3. ASSUME NEW p \in Publishers, Send(p) \/ HandOver(p), s = Target(p)
      PROVE  InOrder(s)'
  <2> DEFINE new == log'[s]
             old == log[s]
  <2>1. /\ Len(old) \in Nat
        /\ Len(new) = Len(old) + 1
        /\ \A i \in 1 .. Len(old) : new[i] = old[i]
        /\ new[Len(old) + 1] = msg[p]
    BY <1>3, SendEffect, LenProperties DEF TypeOK
  \* Earlier messages of p are of earlier calls.
  <2>2. ASSUME NEW i \in 1 .. Len(old), old[i].pub = p PROVE old[i].n < msg[p].n
    <3>1. old[i] \in Message /\ msg[p] \in Message
      BY <2>1, ElementOfSeq DEF TypeOK
    <3>2. EntryOK(s, old[i])
      BY DEF DeliveryInv, LogsOK
    <3>3. ~ Has(s, msg[p])
      <4>1. /\ ppc[p] = "sending" /\ next[p] \in 1 .. Len(snapshot[p])
            /\ s = snapshot[p][next[p]]
        BY <1>3, SendEffect DEF Target
      <4>2. Len(snapshot[p]) \in Nat
        BY LenProperties DEF TypeOK
      <4>3. ~ \E k \in 1 .. next[p] - 1 : snapshot[p][k] = s
        BY <4>1, <4>2 DEF DeliveryInv, SnapshotsOK, SnapshotOK, Started
      <4>4. QED
        BY <4>1, <4>3 DEF DeliveryInv, AllDelivered, Delivered, Started
    <3>4. old[i] # msg[p]
      BY <3>3 DEF Has
    <3>5. old[i].n \in Nat /\ msg[p].n \in Nat
      BY <3>1 DEF Message
    <3>6. QED
      BY <2>2, <3>2, <3>4, <3>5 DEF EntryOK
  <2>3. msg[p].pub = p
    BY DEF DeliveryInv, CallsOK
  <2>4. ASSUME NEW i \in 1 .. Len(new), NEW j \in 1 .. Len(new), i < j, new[i].pub = new[j].pub
        PROVE  new[i].n < new[j].n
    <3> HIDE DEF new, old
    <3>1. CASE j \in 1 .. Len(old)
      <4>1. i \in 1 .. Len(old) /\ new[i] = old[i] /\ new[j] = old[j]
        BY <2>1, <2>4, <3>1
      <4>2. QED
        BY <1>1, <2>4, <3>1, <4>1 DEF InOrder, old
    <3>2. CASE j = Len(old) + 1
      <4>1. i \in 1 .. Len(old) /\ new[i] = old[i] /\ new[j] = msg[p]
        BY <2>1, <2>4, <3>2
      <4>2. QED
        BY <2>2, <2>3, <2>4, <4>1
    <3>3. QED
      BY <2>1, <3>1, <3>2
  <2>5. QED
    BY <2>4 DEF InOrder
<1>4. QED
  BY <1>2, <1>3, LogFrame, SendEffect

\* No session is ever given a message twice, or two messages of one publishing
\* goroutine in the wrong order (bus.go:53, subscriber.go:78).
THEOREM AtMostOnceInOrder == SafeSpec => []InOrderOnce
<1>1. Init => InOrderOnce
  BY DEF Init, InOrderOnce, Contract!InOrderOnce
<1>2. QED
  BY <1>1, TypeCorrect, DeliveryInvHolds, InOrderOnceNext, PTL DEF SafeSpec

-----------------------------------------------------------------------------
(* The backlog gauge *)

LEMMA GaugeOKNext == TypeOK /\ GaugeOK /\ [Next]_vars => GaugeOK'
<1> SUFFICES ASSUME TypeOK, GaugeOK, [Next]_vars PROVE GaugeOK'
  OBVIOUS
<1> USE ConstantsAssumption
<1>1. ASSUME UNCHANGED ch, \A s \in Sessions : Active(s)' <=> Active(s) PROVE GaugeOK'
  BY <1>1 DEF GaugeOK
<1>2. ASSUME NEW s \in Sessions, SessionStep(s) PROVE GaugeOK'
  <2>1. CASE Open(s)
    <3>1. Owner[s] \in Exclusive => \A t \in Sessions : Owner[t] = Owner[s] => ~ Active(t)
      BY <2>1 DEF Open
    <3>2. /\ ch' = [ch EXCEPT ![Owner[s]] = s]
          /\ \A t \in Sessions : Active(t)' <=> Active(t) \/ t = s
      BY <2>1 DEF Open, Active, TypeOK
    <3>3. QED
      BY <3>1, <3>2 DEF GaugeOK, TypeOK
  <2>2. CASE Clear(s)
    <3>1. /\ ch' = [ch EXCEPT ![Owner[s]] = NoSession] /\ Active(s)
          /\ \A t \in Sessions : Active(t)' <=> Active(t) /\ t # s
      BY <2>2 DEF Clear, Active, TypeOK
    <3>2. QED
      BY <3>1 DEF GaugeOK, TypeOK
  <2>3. CASE \/ Register(s) \/ SignalReady(s) \/ Receive(s) \/ HandlerReturn(s)
             \/ Stop(s) \/ Unregister(s)
    BY <1>1, <2>3
    DEF Active, TypeOK, Register, SignalReady, Receive, HandlerReturn, Stop, Unregister
  <2>4. QED
    BY <1>2, <2>1, <2>2, <2>3 DEF SessionStep
<1>3. ASSUME NEW p \in Publishers, PublishStep(p) PROVE GaugeOK'
  <2>1. UNCHANGED ch /\ \A s \in Sessions : Active(s)' <=> Active(s)
    BY <1>3
    DEF PublishStep, Call, Snapshot, Send, HandOver, Abort, Return, Active, TypeOK
  <2>2. QED
    BY <1>1, <2>1
<1>4. CASE \/ UNCHANGED vars
           \/ \E a \in Sessions \cup Publishers : Cancel(a)
  BY <1>1, <1>4 DEF vars, Cancel, Active
<1>5. QED
  BY <1>2, <1>3, <1>4 DEF Next

\* With one Subscribe at a time per Subscriber the gauge is the backlog of that
\* subscription, and 0 without one (subscriber.go:34-45).
THEOREM GaugeIsBacklog == SafeSpec => []LenMatches
<1>1. Init => GaugeOK
  BY ConstantsAssumption DEF Init, GaugeOK, Active
<1>2. TypeOK /\ GaugeOK => LenMatches
  <2> SUFFICES ASSUME TypeOK, GaugeOK, NEW r \in Exclusive,
                      ~ \E s \in Sessions : Owner[s] = r /\ Active(s) /\ LenOf(r) = Buffered(s)
               PROVE  /\ \A s \in Sessions : Owner[s] = r => ~ Active(s)
                      /\ LenOf(r) = 0
    BY DEF LenMatches
  <2>1. ASSUME NEW s \in Sessions, Owner[s] = r PROVE ~ Active(s)
    BY <2>1, ConstantsAssumption DEF GaugeOK, LenOf
  <2>2. ch[r] = NoSession
    BY <2>1, ConstantsAssumption DEF GaugeOK, TypeOK
  <2>3. QED
    BY <2>1, <2>2 DEF LenOf
<1>3. QED
  BY <1>1, <1>2, TypeCorrect, GaugeOKNext, PTL DEF SafeSpec

-----------------------------------------------------------------------------
(* The bus implements the fire-and-forget contract *)

LEMMA TakenOKNext == TypeOK /\ TakenOK /\ [Next]_vars => TakenOK'
<1> SUFFICES ASSUME TypeOK, TakenOK, [Next]_vars, NEW s \in Sessions
             PROVE  (taken[s] <= Len(log[s]) /\ Buffered(s) <= Capacity(s))'
  BY DEF TakenOK
<1> USE ConstantsAssumption
<1>1. /\ taken[s] \in Nat /\ Len(log[s]) \in Nat /\ Capacity(s) \in Nat
      /\ taken[s] <= Len(log[s]) /\ Len(log[s]) - taken[s] <= Capacity(s)
  BY LenProperties DEF TypeOK, TakenOK, Buffered, Capacity
<1>2. CASE log'[s] = log[s] /\ taken'[s] = taken[s]
  BY <1>1, <1>2 DEF Buffered
<1>3. CASE Receive(s)
  <2>1. log' = log /\ taken'[s] = taken[s] + 1 /\ Len(log[s]) - taken[s] > 0
    BY <1>3 DEF Receive, TypeOK, Buffered
  <2>2. QED
    BY <1>1, <2>1 DEF Buffered
<1>4. ASSUME NEW t \in Sessions, SessionStep(t), ~ Receive(s)
      PROVE  log'[s] = log[s] /\ taken'[s] = taken[s]
  BY <1>4
  DEF SessionStep, Open, Register, SignalReady, Receive, HandlerReturn, Stop,
      Unregister, Clear, TypeOK
<1>5. ASSUME NEW p \in Publishers, Send(p), s = Target(p)
      PROVE  (taken[s] <= Len(log[s]) /\ Buffered(s) <= Capacity(s))'
  <2>1. taken' = taken /\ Len(log'[s]) = Len(log[s]) + 1 /\ Len(log[s]) - taken[s] < Capacity(s)
    BY <1>5, SendEffect DEF Send, Buffered
  <2>2. QED
    BY <1>1, <2>1 DEF Buffered
<1>6. ASSUME NEW p \in Publishers, HandOver(p), s = Target(p)
      PROVE  (taken[s] <= Len(log[s]) /\ Buffered(s) <= Capacity(s))'
  <2>1. taken'[s] = taken[s] + 1 /\ Len(log'[s]) = Len(log[s]) + 1
    BY <1>6, SendEffect DEF HandOver, TypeOK
  <2>2. QED
    BY <1>1, <2>1 DEF Buffered
<1>7. ASSUME NEW p \in Publishers, Send(p) \/ HandOver(p), s # Target(p)
      PROVE  log'[s] = log[s] /\ taken'[s] = taken[s]
  BY <1>7, SendEffect DEF Send, HandOver, TypeOK
<1>8. CASE \/ \E p \in Publishers : Call(p) \/ Snapshot(p) \/ Abort(p) \/ Return(p)
           \/ UNCHANGED vars
           \/ \E a \in Sessions \cup Publishers : Cancel(a)
  BY <1>2, <1>8 DEF Call, Snapshot, Abort, Return, vars, Cancel
<1>9. QED
  BY <1>2, <1>3, <1>4, <1>5, <1>6, <1>7, <1>8 DEF Next, PublishStep

LEMMA TakenOKHolds == SafeSpec => []TakenOK
<1>1. Init => TakenOK
  BY ConstantsAssumption DEF Init, TakenOK, Buffered, Capacity
<1>2. QED
  BY <1>1, TypeCorrect, TakenOKNext, PTL DEF SafeSpec

\* A step of the contract when no session's status changes.
LEMMA SameStatus ==
  ASSUME \A s \in Sessions : pc'[s] = pc[s] \/ {pc[s], pc'[s]} \subseteq {"idle", "opened"}
           \/ {pc[s], pc'[s]} \subseteq {"registered", "select", "handling"}
           \/ {pc[s], pc'[s]} \subseteq {"unsubscribing", "clearing", "done"}
  PROVE  [s \in Sessions |-> Status(s)]' = [s \in Sessions |-> Status(s)]
  BY DEF Status

LEMMA ContractStep ==
  TypeOK /\ TypeOK' /\ DeliveryInv /\ TakenOK /\ [Next]_vars => [Contract!Next]_(Contract!vars)
<1> SUFFICES ASSUME TypeOK, TypeOK', DeliveryInv, TakenOK, [Next]_vars
             PROVE  Contract!Next \/ UNCHANGED Contract!vars
  OBVIOUS
<1> DEFINE status == [s \in Sessions |-> Status(s)]
<1>1. ASSUME NEW s \in Sessions, SessionStep(s) PROVE Contract!Next \/ UNCHANGED Contract!vars
  <2>1. CASE Open(s) \/ SignalReady(s) \/ HandlerReturn(s) \/ Unregister(s) \/ Clear(s)
    <3>1. status' = status
      BY <2>1, SameStatus
      DEF Open, SignalReady, HandlerReturn, Unregister, Clear, TypeOK
    <3>2. QED
      BY <2>1, <3>1
      DEF Open, SignalReady, HandlerReturn, Unregister, Clear, Contract!vars
  <2>2. CASE Register(s)
    <3>1. status[s] = "new" /\ status' = [status EXCEPT ![s] = "open"]
      BY <2>2 DEF Register, Status, TypeOK
    <3>2. Contract!Open(s)
      BY <2>2, <3>1 DEF Register, Contract!Open
    <3>3. QED
      BY <3>2 DEF Contract!Next
  <2>3. CASE Stop(s)
    <3>1. status[s] = "open" /\ status' = [status EXCEPT ![s] = "closed"]
      BY <2>3 DEF Stop, Status, TypeOK
    <3>2. Contract!Close(s)
      BY <2>3, <3>1 DEF Stop, Contract!Close
    <3>3. QED
      BY <3>2 DEF Contract!Next
  <2>4. CASE Receive(s)
    <3>1. status' = status
      BY <2>4, SameStatus DEF Receive, TypeOK
    <3>2. status[s] = "open"
      BY <2>4 DEF Receive, Status
    <3>3. taken[s] < Len(log[s])
      BY <2>4, LenProperties DEF Receive, Buffered, TypeOK
    <3>4. Contract!Handle(s)
      BY <2>4, <3>1, <3>2, <3>3 DEF Receive, Contract!Handle
    <3>5. QED
      BY <3>4 DEF Contract!Next
  <2>5. QED
    BY <1>1, <2>1, <2>2, <2>3, <2>4 DEF SessionStep
<1>2. ASSUME NEW p \in Publishers, PublishStep(p) PROVE Contract!Next \/ UNCHANGED Contract!vars
  <2>1. CASE Call(p)
    <3>1. status' = status
      BY <2>1, SameStatus DEF Call
    <3>2. Contract!Publish(p)
      BY <2>1, <3>1 DEF Call, Contract!Publish
    <3>3. QED
      BY <3>2 DEF Contract!Next
  <2>2. CASE Snapshot(p) \/ Abort(p) \/ Return(p)
    <3>1. status' = status
      BY <2>2, SameStatus DEF Snapshot, Abort, Return
    <3>2. QED
      BY <2>2, <3>1 DEF Snapshot, Abort, Return, Contract!vars
  <2>3. CASE Send(p) \/ HandOver(p)
    <3> DEFINE t == Target(p)
    <3>1. /\ t \in Sessions /\ ppc[p] = "sending" /\ next[p] \in 1 .. Len(snapshot[p])
          /\ t = snapshot[p][next[p]] /\ Len(snapshot[p]) \in Nat
      BY <2>3, SendEffect, LenProperties DEF Target, TypeOK
    <3>2. status[t] \in {"open", "closed"}
      BY <3>1 DEF DeliveryInv, SnapshotsOK, SnapshotOK, Started, Status, TypeOK, SessionPc
    <3>3. msg[p].n > 0 /\ msg[p].subject = SubjectOf[t]
      <4>1. msg[p].n \in Nat /\ msg[p].n # 0
        BY <3>1 DEF DeliveryInv, CallsOK, TypeOK, Message
      <4>2. QED
        BY <3>1, <4>1 DEF DeliveryInv, SnapshotsOK, SnapshotOK, Started
    <3>4. ~ Has(t, msg[p])
      <4>1. ~ \E k \in 1 .. next[p] - 1 : snapshot[p][k] = t
        BY <3>1 DEF DeliveryInv, SnapshotsOK, SnapshotOK, Started
      <4>2. QED
        BY <3>1, <4>1 DEF DeliveryInv, AllDelivered, Delivered, Started
    <3> HIDE DEF t
    <3>5. Contract!MayAccept(t, p)
      BY <3>2, <3>3, <3>4 DEF Contract!MayAccept, Has
    <3>6. CASE Send(p)
      <4>1. status' = status
        BY <3>6, SameStatus DEF Send
      <4>2. Contract!Accept(t, p)
        BY <3>5, <3>6, <4>1 DEF Send, Contract!Accept, t
      <4>3. QED
        BY <3>1, <4>2 DEF Contract!Next
    <3>7. CASE HandOver(p)
      <4>1. status' = status
        BY <3>1, <3>7, SameStatus DEF HandOver, TypeOK, t
      <4>2. status[t] = "open"
        BY <3>1, <3>7 DEF HandOver, Status, t
      <4>3. taken[t] = Len(log[t])
        BY <3>1, <3>7, LenProperties DEF HandOver, TakenOK, Buffered, TypeOK, t
      <4>4. Contract!AcceptAndHandle(t, p)
        BY <3>5, <3>7, <4>1, <4>2, <4>3 DEF HandOver, Contract!AcceptAndHandle, t
      <4>5. QED
        BY <3>1, <4>4 DEF Contract!Next
    <3>8. QED
      BY <2>3, <3>6, <3>7
  <2>4. QED
    BY <1>2, <2>1, <2>2, <2>3 DEF PublishStep
<1>3. CASE \/ UNCHANGED vars
           \/ \E a \in Sessions \cup Publishers : Cancel(a)
  <2>1. status' = status
    BY <1>3, SameStatus DEF vars, Cancel
  <2>2. QED
    BY <1>3, <2>1 DEF vars, Cancel, Contract!vars
<1>4. QED
  BY <1>1, <1>2, <1>3 DEF Next

\* Bus, Publisher and Subscriber together are an implementation of the
\* fire-and-forget contract that publisher.go and subscriber.go describe.
THEOREM BusImplementsContract == SafeSpec => ImplementsContract
<1>1. Init => Contract!Init
  BY DEF Init, Contract!Init, Status
<1>2. QED
  BY <1>1, ContractStep, TypeCorrect, DeliveryInvHolds, TakenOKHolds, PTL
  DEF SafeSpec, ImplementsContract, Contract!Spec

=============================================================================
