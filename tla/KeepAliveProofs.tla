--------------------------- MODULE KeepAliveProofs ---------------------------
(* Proofs about KeepAlive, for every value of its constants. *)
EXTENDS KeepAlive, TLAPS

USE ConstantsAssumption

-----------------------------------------------------------------------------
(* Types *)

LEMMA TypeInit == Init => TypeOK
  <1> SUFFICES ASSUME Init
               PROVE  TypeOK
    OBVIOUS
  <1>1. due \in 1 .. Interval /\ lag \in 0 .. Latency
    BY DEF Init
  <1>2. age \in 0 .. AckWait /\ lost \in 0 .. MaxLost
    BY DEF Init
  <1> QED
    BY <1>1, <1>2 DEF Init, TypeOK

LEMMA TypeStep ==
  ASSUME TypeOK, [Next]_vars
  PROVE  TypeOK'
  <1> USE DEF TypeOK, call, clock, server
  <1>1. CASE Call
    BY <1>1 DEF Call, Start, HandlerReturn, StopFlag, CallStop, Settle
  <1>2. CASE Begin
    <2>1. due' \in 1 .. Interval /\ lag' \in 0 .. Latency
      BY <1>2 DEF Begin
    <2> QED
      BY <1>2, <2>1 DEF Begin
  <1>3. CASE Beat
    BY <1>3 DEF Beat, Redelivered
  <1>7. CASE End \/ ReceiveTick \/ Lock \/ CheckStopped
    BY <1>7 DEF End, ReceiveTick, Lock, CheckStopped
  <1>8. CASE Unlock
    <2>1. lag' \in 0 .. Latency
      BY <1>8 DEF Unlock
    <2> QED
      BY <1>8, <2>1 DEF Unlock
  <1>4. CASE Tick
    <2>1. lag' \in 0 .. Latency
      BY <1>4 DEF Tick
    <2>2. due' \in 1 .. Interval /\ fired' \in BOOLEAN
      <3>1. CASE ~ Ticking
        BY <1>4, <3>1 DEF Tick
      <3>2. CASE Ticking /\ due = 1
        BY <1>4, <3>2 DEF Tick
      <3>3. CASE Ticking /\ due # 1
        BY <1>4, <3>3 DEF Tick
      <3> QED
        BY <3>1, <3>2, <3>3
    <2>3. age' \in 0 .. AckWait
      BY <1>4 DEF Tick, Redelivered
    <2> QED
      BY <1>4, <2>1, <2>2, <2>3 DEF Tick
  <1>5. CASE Cancel
    BY <1>5 DEF Cancel
  <1>6. CASE UNCHANGED vars
    BY <1>6 DEF vars
  <1> QED
    BY <1>1, <1>2, <1>3, <1>4, <1>5, <1>6, <1>7, <1>8 DEF Next, Heartbeat

\* Every variable of the middleware, its goroutine and the clocks keeps its
\* type: the goroutine is never later than Latency, AckWait never overrun.
THEOREM TypeCorrect == SafeSpec => []TypeOK
  BY TypeInit, TypeStep, PTL DEF SafeSpec

-----------------------------------------------------------------------------
(* Call and goroutine *)

\* The mutex covers the check of the flag and the beat that follows it, the flag
\* is set before the settlement, and the goroutine ends on a signal only.
Synchronised ==
  /\ mu = "heartbeat" <=> hb \in {"locked", "beating", "unlocking"}
  /\ stopped <=> pc \in {"stopped", "settled"}
  /\ stop => stopped
  /\ hb = "none" <=> pc = "entry"
  /\ hb = "beating" => ~ stopped
  /\ hb = "ended" => done \/ stop

LEMMA SynchronisedInit == Init => Synchronised
  BY DEF Init, Synchronised

LEMMA SynchronisedStep ==
  ASSUME TypeOK, Synchronised, [Next]_vars
  PROVE  Synchronised'
  <1> USE DEF TypeOK, Synchronised, call, clock, server
  <1>1. CASE Start
    BY <1>1 DEF Start
  <1>2. CASE HandlerReturn
    BY <1>2 DEF HandlerReturn
  <1>3. CASE StopFlag
    BY <1>3 DEF StopFlag
  <1>4. CASE CallStop \/ Settle
    BY <1>4 DEF CallStop, Settle
  <1>5. CASE Begin \/ End \/ ReceiveTick \/ Lock
    BY <1>5 DEF Begin, End, ReceiveTick, Lock
  <1>6. CASE CheckStopped
    BY <1>6 DEF CheckStopped
  <1>7. CASE Beat \/ Unlock
    BY <1>7 DEF Beat, Unlock
  <1>8. CASE Tick \/ Cancel
    BY <1>8 DEF Tick, Cancel
  <1>9. CASE UNCHANGED vars
    BY <1>9 DEF vars
  <1> QED
    BY <1>1, <1>2, <1>3, <1>4, <1>5, <1>6, <1>7, <1>8, <1>9 DEF Next, Call, Heartbeat

LEMMA LastStep ==
  ASSUME TypeOK, Synchronised, SettlementIsLast, [Next]_vars
  PROVE  SettlementIsLast'
  <1> USE DEF SettlementIsLast, call, clock, server
  <1>1. CASE Call
    BY <1>1 DEF Call, Start, HandlerReturn, StopFlag, CallStop, Settle
  <1>2. CASE Beat
    <2>1. pc # "settled"
      BY <1>2 DEF Beat, Synchronised
    <2> QED
      BY <1>2, <2>1 DEF Beat
  <1>3. CASE Begin \/ End \/ ReceiveTick \/ Lock \/ CheckStopped \/ Unlock
    BY <1>3 DEF Begin, End, ReceiveTick, Lock, CheckStopped, Unlock
  <1>4. CASE Tick \/ Cancel
    BY <1>4 DEF Tick, Cancel
  <1>5. CASE UNCHANGED vars
    BY <1>5 DEF vars
  <1> QED
    BY <1>1, <1>2, <1>3, <1>4, <1>5 DEF Next, Heartbeat

\* The mutex of keepalive.go makes the settlement of a delivery the last thing
\* that is sent for it, whatever the heartbeat goroutine is doing when the
\* handler returns.
THEOREM NothingAfterSettlement == SafeSpec => []SettlementIsLast
  <1>1. Init => SettlementIsLast
    BY DEF Init, SettlementIsLast
  <1> QED
    BY <1>1, TypeInit, TypeStep, SynchronisedInit, SynchronisedStep, LastStep, PTL
       DEF SafeSpec

-----------------------------------------------------------------------------
(* Time *)

\* What is known of the age of the delivery, by where the goroutine is in its
\* cycle: Interval - due ticks into it, with lost beats behind it.
Cycle == Waited + Latency + (Interval - due) + lost * Interval

BeforeStart ==
  hb \in {"none", "starting"} =>
    /\ due = Interval /\ ~ fired /\ lost = 0
    /\ age <= Waited + lag
    /\ hb = "none" => lag = 0

Idle ==
  hb = "waiting" /\ ~ fired => lag = 0 /\ age <= Cycle

BeatOwed ==
  (hb = "waiting" /\ fired) \/ hb \in {"locking", "locked", "beating"} =>
    lag = Interval - due /\ age <= Cycle + Interval

BeatDone ==
  hb = "unlocking" => lag = Interval - due /\ age <= Cycle

OneTick == Busy => ~ fired

\* As long as the handler has not returned and the goroutine lives.
OnTime ==
  ~ stopped => BeforeStart /\ Idle /\ BeatOwed /\ BeatDone /\ OneTick

\* Multiplication is monotonic.
LEMMA TimesMonotonic ==
  ASSUME NEW a \in Nat, NEW b \in Nat, NEW c \in Nat, a <= b
  PROVE  a * c <= b * c /\ a * c \in Nat /\ b * c \in Nat
  BY SMT

\* One more lost beat is one more interval.
LEMMA OneMore ==
  ASSUME NEW a \in Nat, NEW c \in Nat
  PROVE  (a + 1) * c = a * c + c /\ a * c \in Nat /\ 0 * c = 0
  BY SMT

\* What KeepAlive owes: with the interval well below AckWait, a delivery whose
\* goroutine is on time is not redelivered.
LEMMA OnTimeSuffices ==
  ASSUME TypeOK, Synchronised, OnTime, WellBelow, ~ stopped, hb # "ended"
  PROVE  ~ Redelivered
  <1> DEFINE L == lost * Interval
             M == MaxLost * Interval
  <1>1. L <= M /\ L \in Nat /\ M \in Nat
    BY TimesMonotonic DEF TypeOK
  <1>2. Waited + 2 * Latency + M + Interval < AckWait
    BY OneMore DEF WellBelow
  <1>3. Cycle = Waited + Latency + (Interval - due) + L
    BY DEF Cycle
  <1> HIDE DEF L, M
  <1>4. CASE hb \in {"none", "starting"}
    BY <1>1, <1>2, <1>4 DEF OnTime, BeforeStart, TypeOK, Redelivered
  <1>5. CASE hb = "waiting" /\ ~ fired
    BY <1>1, <1>2, <1>3, <1>5 DEF OnTime, Idle, TypeOK, Redelivered
  <1>6. CASE (hb = "waiting" /\ fired) \/ hb \in {"locking", "locked", "beating"}
    BY <1>1, <1>2, <1>3, <1>6 DEF OnTime, BeatOwed, TypeOK, Redelivered
  <1>7. CASE hb = "unlocking"
    BY <1>1, <1>2, <1>3, <1>7 DEF OnTime, BeatDone, TypeOK, Redelivered
  <1> QED
    BY <1>4, <1>5, <1>6, <1>7 DEF TypeOK

LEMMA OnTimeInit == Init => OnTime
  BY DEF Init, OnTime, BeforeStart, Idle, BeatOwed, BeatDone, OneTick, Busy

LEMMA TickOnTime ==
  ASSUME TypeOK, Synchronised, OnTime, WellBelow, Tick
  PROVE  OnTime'
  <1> USE DEF TypeOK, call
  <1> SUFFICES ASSUME ~ stopped, hb # "ended", hb # "none"
               PROVE  (BeforeStart /\ Idle /\ BeatOwed /\ BeatDone /\ OneTick)'
    BY DEF Tick, OnTime, Synchronised, BeforeStart, Idle, BeatOwed, BeatDone, OneTick, Busy
  <1> DEFINE L == lost * Interval
  <1>1. L \in Nat
    BY OneMore
  <1>2. age' = age + 1
    BY OnTimeSuffices DEF Tick
  <1>3. /\ Cycle = Waited + Latency + (Interval - due) + L
        /\ Cycle' = Waited + Latency + (Interval - due') + L
    BY DEF Cycle, Tick
  <1>4. UNCHANGED <<hb, stopped, lost>>
    BY DEF Tick
  <1> HIDE DEF L
  <1>5. CASE hb = "starting"
    <2>1. lag' = lag + 1 /\ UNCHANGED <<due, fired>>
      BY <1>5 DEF Tick, Overdue, Ticking, Busy
    <2> QED
      BY <1>2, <1>4, <1>5, <2>1
         DEF OnTime, BeforeStart, Idle, BeatOwed, BeatDone, OneTick, Busy
  <1>6. CASE hb = "waiting" /\ ~ fired
    <2>1. lag' = lag /\ lag = 0 /\ age <= Cycle
      BY <1>6 DEF Tick, Overdue, Busy, OnTime, Idle
    <2>2. IF due = 1 THEN due' = Interval /\ fired' = TRUE
                     ELSE due' = due - 1 /\ fired' = fired
      BY <1>6 DEF Tick, Ticking
    <2>3. IF due = 1 THEN age' <= Cycle' + Interval ELSE age' <= Cycle'
      BY <1>1, <1>2, <1>3, <2>1, <2>2
    <2>4. Idle' /\ BeatOwed'
      BY <1>4, <1>6, <2>1, <2>2, <2>3 DEF Idle, BeatOwed
    <2> QED
      BY <1>4, <1>6, <2>4 DEF BeforeStart, BeatDone, OneTick, Busy
  <1>7. CASE (hb = "waiting" /\ fired) \/ Busy
    <2>1. lag < Latency /\ lag' = lag + 1
      BY <1>7 DEF Tick, Overdue, Busy
    <2>2. lag = Interval - due
      BY <1>7 DEF OnTime, BeatOwed, BeatDone, Busy
    <2>3. due' = due - 1 /\ fired' = fired
      BY <1>7, <2>1, <2>2 DEF Tick, Ticking, Busy
    <2>4. lag' = Interval - due' /\ Cycle' = Cycle + 1
      BY <1>1, <1>3, <2>1, <2>2, <2>3
    <2>5. Cycle \in Int
      BY <1>1, <1>3
    <2>6. BeatOwed' /\ BeatDone'
      BY <1>2, <1>4, <1>7, <2>3, <2>4, <2>5 DEF OnTime, BeatOwed, BeatDone, Busy
    <2> QED
      BY <1>4, <1>7, <2>3, <2>6 DEF OnTime, BeforeStart, Idle, OneTick, Busy
  <1> QED
    BY <1>5, <1>6, <1>7 DEF Busy

LEMMA BeatOnTime ==
  ASSUME TypeOK, Synchronised, OnTime, WellBelow, Beat
  PROVE  OnTime'
  <1> USE DEF TypeOK, call, clock
  <1>1. /\ hb = "beating" /\ hb' = "unlocking" /\ ~ stopped
        /\ UNCHANGED <<stopped, due, fired, lag>>
    BY DEF Beat, Synchronised
  <1>2. lag = Interval - due /\ age <= Cycle + Interval
    BY <1>1 DEF OnTime, BeatOwed
  <1>3. age' <= Cycle'
    <2> DEFINE L == lost * Interval
    <2>1. L \in Nat /\ (lost + 1) * Interval = L + Interval /\ 0 * Interval = 0
      BY OneMore
    <2>2. CASE age' = 0 /\ lost' = 0
      <3>1. Cycle' = Waited + Latency + (Interval - due)
        BY <1>1, <2>1, <2>2 DEF Cycle
      <3> QED
        BY <2>2, <3>1
    <2>3. CASE lost' = lost + 1 /\ age' = age
      <3>1. Cycle' = Waited + Latency + (Interval - due) + (L + Interval)
        BY <1>1, <2>1, <2>3 DEF Cycle
      <3>2. Cycle = Waited + Latency + (Interval - due) + L
        BY DEF Cycle
      <3> HIDE DEF L
      <3> QED
        BY <1>2, <2>1, <2>3, <3>1, <3>2
    <2>4. ~ Redelivered
      BY <1>1, OnTimeSuffices
    <2> QED
      BY <2>2, <2>3, <2>4 DEF Beat
  <1> QED
    BY <1>1, <1>2, <1>3
       DEF OnTime, BeforeStart, Idle, BeatOwed, BeatDone, OneTick, Busy

LEMMA OnTimeStep ==
  ASSUME TypeOK, Synchronised, OnTime, WellBelow, [Next]_vars
  PROVE  OnTime'
  <1> USE DEF TypeOK, OnTime, BeforeStart, Idle, BeatOwed, BeatDone, OneTick, Busy,
              call, clock, server
  <1> DEFINE L == lost * Interval
  <1>1. L \in Nat /\ 0 * Interval = 0
    BY OneMore
  <1>2. Cycle = Waited + Latency + (Interval - due) + L
    BY DEF Cycle
  <1>3. due' = due /\ lost' = lost => Cycle' = Cycle
    BY DEF Cycle
  <1>4. CASE Call
    BY <1>3, <1>4 DEF Call, Start, HandlerReturn, StopFlag, CallStop, Settle, Synchronised
  <1>5. CASE Begin
    <2>1. /\ hb = "starting" /\ hb' = "waiting" /\ due' = Interval /\ lag' = 0
          /\ UNCHANGED <<stopped, fired, age, lost>>
      BY <1>5 DEF Begin
    <2>2. lost = 0 => Cycle' = Waited + Latency
      BY <1>1, <2>1 DEF Cycle
    <2> QED
      BY <2>1, <2>2
  <1>6. CASE End \/ Lock \/ CheckStopped
    BY <1>3, <1>6 DEF End, Lock, CheckStopped
  <1>7. CASE ReceiveTick \/ Unlock
    BY <1>3, <1>7 DEF ReceiveTick, Unlock
  <1>8. CASE Cancel \/ UNCHANGED vars
    BY <1>3, <1>8 DEF Cancel, vars
  <1> QED
    BY <1>4, <1>5, <1>6, <1>7, <1>8, TickOnTime, BeatOnTime DEF Next, Heartbeat

\* For every interval, AckWait, waiting time, latency and number of lost beats
\* that fit together, a running handler keeps its message until its context is
\* cancelled: the precise form of "well below the timeout" (keepalive.go:14-15).
THEOREM HandlerKeepsMessage == SafeSpec => []KeptAlive
  <1> DEFINE Inv == TypeOK /\ Synchronised /\ (WellBelow => OnTime)
  <1>1. Init => Inv
    BY TypeInit, SynchronisedInit, OnTimeInit
  <1>2. Inv /\ [Next]_vars => Inv'
    BY TypeStep, SynchronisedStep, OnTimeStep DEF WellBelow
  <1>3. Inv => KeptAlive
    <2> SUFFICES ASSUME Inv, WellBelow, Redelivered, pc = "running", ~ done
                 PROVE  FALSE
      BY DEF KeptAlive
    <2>1. ~ stopped /\ hb # "ended"
      BY DEF Synchronised
    <2> QED
      BY <2>1, OnTimeSuffices
  <1> HIDE DEF Inv
  <1> QED
    BY <1>1, <1>2, <1>3, PTL DEF SafeSpec
=============================================================================
