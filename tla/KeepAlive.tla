------------------------------ MODULE KeepAlive ------------------------------
(***************************************************************************)
(* middleware/keepalive.go: the heartbeat goroutine beside the handler of  *)
(* one delivery, inside AutoAck or RetryAck, with the server's AckWait     *)
(* timer as the environment.  Time is counted in ticks.                    *)
(*                                                                         *)
(* The delivery has an acker and the interval is positive: other messages  *)
(* are passed through.  The middleware hears of no failed InProgress, so a *)
(* beat that does not arrive is simply lost.                               *)
(***************************************************************************)
EXTENDS Integers

CONSTANTS
  Interval,  \* KeepAlive's interval
  AckWait,   \* the consumer's
  Waited,    \* bound: ticks a delivery may have waited in the client's buffer
  Latency,   \* bound: ticks until the heartbeat goroutine does what it could
  MaxLost,   \* bound: beats lost one after the other
  Cancels    \* whether the subscription's context may be cancelled

ASSUME ConstantsAssumption ==
  /\ Interval \in Nat \ {0} /\ AckWait \in Nat \ {0}
  /\ Waited \in Nat /\ Latency \in Nat /\ MaxLost \in Nat
  /\ Latency < Interval /\ Waited < AckWait
  /\ Cancels \in BOOLEAN

VARIABLES
  pc,       \* the call: "entry", "running" the handler, "returned", "stopped", "settled"
  stopped,  \* its flag
  stop,     \* whether it has called stop()
  done,     \* whether the context it was given is done
  hb,       \* where the heartbeat goroutine is
  mu,       \* who holds the mutex
  due,      \* ticks to the ticker's next tick
  fired,    \* whether a tick is in ticker.C, which has room for one
  lag,      \* ticks the goroutine has let pass with something to do
  age,      \* server: ticks since the delivery, or the last beat
  lost,     \* beats lost since
  last      \* history: what was last sent for the delivery

call == <<pc, stopped, stop>>
clock == <<due, fired, lag>>
server == <<age, lost>>
vars == <<call, done, hb, mu, clock, server, last>>

\* AckWait is over: the server delivers the message once more.
Redelivered == age = AckWait

Init ==
  /\ pc = "entry" /\ stopped = FALSE /\ stop = FALSE /\ done = FALSE
  /\ hb = "none" /\ mu = "free"
  /\ due = Interval /\ fired = FALSE /\ lag = 0
  /\ age \in 0 .. Waited /\ lost = 0
  /\ last = "none"

-----------------------------------------------------------------------------
(* Plausible bugs: what the actions below must not be.  Nothing uses them but  *)
(* the mutation runs.                                                          *)

\* A ticker that starts with a tick of zero.
BeginZero ==
  /\ hb = "starting"
  /\ hb' = "waiting"
  /\ due' = 0 /\ lag' = 0
  /\ UNCHANGED <<call, done, mu, fired, server, last>>

\* The flag is set without the mutex.
StopFlagUnlocked ==
  /\ pc = "returned"
  /\ stopped' = TRUE
  /\ pc' = "stopped"
  /\ UNCHANGED <<stop, done, hb, mu, clock, server, last>>

\* stop() is only called on an error path.
CallStopNever ==
  /\ pc = "stopped"
  /\ pc' = "settled"
  /\ last' = "settlement"
  /\ UNCHANGED <<stopped, stop, done, hb, mu, clock, server>>

\* time.NewTimer in place of time.NewTicker: it fires once.
ReceiveTickOnce ==
  /\ hb = "waiting" /\ fired
  /\ fired' = FALSE
  /\ hb' = "ended"
  /\ UNCHANGED <<call, done, mu, due, lag, server, last>>

-----------------------------------------------------------------------------
(* The call *)

\* GoWithCancel starts the goroutine, then the handler is called.
Start ==
  /\ pc = "entry"
  /\ pc' = "running"
  /\ hb' = "starting"
  /\ UNCHANGED <<stopped, stop, done, mu, clock, server, last>>

HandlerReturn ==
  /\ pc = "running"
  /\ pc' = "returned"
  /\ UNCHANGED <<stopped, stop, done, hb, mu, clock, server, last>>

StopFlag ==
  /\ pc = "returned"
  /\ mu = "free"
  /\ stopped' = TRUE
  /\ pc' = "stopped"
  /\ UNCHANGED <<stop, done, hb, mu, clock, server, last>>

\* stop() cancels the goroutine's context and does not wait for it.
CallStop ==
  /\ pc = "stopped" /\ ~ stop
  /\ stop' = TRUE
  /\ UNCHANGED <<pc, stopped, done, hb, mu, clock, server, last>>

\* The middleware around this one settles the delivery.
Settle ==
  /\ pc = "stopped" /\ stop
  /\ pc' = "settled"
  /\ last' = "settlement"
  /\ UNCHANGED <<stopped, stop, done, hb, mu, clock, server>>

-----------------------------------------------------------------------------
(* The heartbeat goroutine *)

\* The goroutine runs: time.NewTicker(interval).
Begin ==
  /\ hb = "starting"
  /\ hb' = "waiting"
  /\ due' = Interval /\ lag' = 0
  /\ UNCHANGED <<call, done, mu, fired, server, last>>

\* select: a context that is done and a tick that is there are equally good.
End ==
  /\ hb = "waiting"
  /\ done \/ stop
  /\ hb' = "ended"
  /\ UNCHANGED <<call, done, mu, clock, server, last>>

ReceiveTick ==
  /\ hb = "waiting" /\ fired
  /\ fired' = FALSE
  /\ hb' = "locking"
  /\ UNCHANGED <<call, done, mu, due, lag, server, last>>

Lock ==
  /\ hb = "locking"
  /\ mu = "free"
  /\ mu' = "heartbeat"
  /\ hb' = "locked"
  /\ UNCHANGED <<call, done, clock, server, last>>

CheckStopped ==
  /\ hb = "locked"
  /\ hb' = IF stopped THEN "unlocking" ELSE "beating"
  /\ UNCHANGED <<call, done, mu, clock, server, last>>

\* msg.InProgress(); its error is dropped.
Beat ==
  /\ hb = "beating"
  /\ hb' = "unlocking"
  /\ last' = "inProgress"
  /\ \/ age' = (IF Redelivered THEN age ELSE 0) /\ lost' = 0
     \/ lost < MaxLost /\ lost' = lost + 1 /\ UNCHANGED age
  /\ UNCHANGED <<call, done, mu, clock>>

Unlock ==
  /\ hb = "unlocking"
  /\ mu' = "free"
  /\ hb' = "waiting"
  /\ lag' = 0
  /\ UNCHANGED <<call, done, due, fired, server, last>>

-----------------------------------------------------------------------------
(* Time and the context *)

Busy == hb \in {"locking", "locked", "beating", "unlocking"}
Overdue == hb = "starting" \/ fired \/ Busy
Ticking == hb = "waiting" \/ Busy

\* One tick passes, if that makes the goroutine no later than Latency.  A tick
\* for which ticker.C has no room is dropped.
Tick ==
  /\ pc # "entry"
  /\ hb # "ended" /\ Overdue => lag < Latency
  /\ lag' = IF hb # "ended" /\ Overdue THEN lag + 1 ELSE lag
  /\ IF ~ Ticking
       THEN UNCHANGED <<due, fired>>
       ELSE IF due = 1 THEN due' = Interval /\ fired' = TRUE
                       ELSE due' = due - 1 /\ UNCHANGED fired
  /\ age' = IF Redelivered THEN age ELSE age + 1
  /\ UNCHANGED <<call, done, hb, mu, lost, last>>

Cancel ==
  /\ Cancels /\ ~ done
  /\ done' = TRUE
  /\ UNCHANGED <<call, hb, mu, clock, server, last>>

-----------------------------------------------------------------------------
Call == Start \/ HandlerReturn \/ StopFlag \/ CallStop \/ Settle
Heartbeat ==
  Begin \/ End \/ ReceiveTick \/ Lock \/ CheckStopped \/ Beat \/ Unlock

Next == Call \/ Heartbeat \/ Tick \/ Cancel

SafeSpec == Init /\ [][Next]_vars

\* Handlers return and goroutines are scheduled; sync.Mutex starves nobody; a
\* select that sees a done context again and again picks it; time owes nothing.
Fairness ==
  /\ WF_vars(Call) /\ WF_vars(Heartbeat)
  /\ SF_vars(StopFlag) /\ SF_vars(End)

Spec == SafeSpec /\ Fairness

-----------------------------------------------------------------------------
(* Properties *)

TypeOK ==
  /\ pc \in {"entry", "running", "returned", "stopped", "settled"}
  /\ stopped \in BOOLEAN /\ stop \in BOOLEAN /\ done \in BOOLEAN
  /\ hb \in {"none", "starting", "waiting", "locking", "locked", "beating", "unlocking", "ended"}
  /\ mu \in {"free", "heartbeat"}
  /\ due \in 1 .. Interval /\ fired \in BOOLEAN /\ lag \in 0 .. Latency
  /\ age \in 0 .. AckWait /\ lost \in 0 .. MaxLost
  /\ last \in {"none", "inProgress", "settlement"}

\* The heartbeat is asynchronous, yet nothing is sent for a delivery after its
\* settlement: a late InProgress would be an answer to a message that the
\* server has already closed, or delivered to someone else.
SettlementIsLast == pc = "settled" => last = "settlement"

\* "Well below the timeout": the wait in the client's buffer, the goroutine's
\* latency and the lost beats have to fit in.
WellBelow == Waited + 2 * Latency + (MaxLost + 1) * Interval < AckWait

\* While the handler runs its message is not redelivered, as long as the
\* context lives and the interval is well below AckWait, however the ticks,
\* the goroutine and lost beats fall.
KeptAlive == WellBelow /\ Redelivered /\ pc = "running" => done

\* The call comes to its end with the delivery settled, although it takes the
\* mutex from a goroutine that may be in the middle of a beat, and no heartbeat
\* goroutine stays behind.
EndsClean == <>[](pc = "settled" /\ hb = "ended")
=============================================================================
