----------------------------- MODULE RiskLimits -----------------------------
(***************************************************************************)
(* RiskService (app/services/risk_service.py) and the RiskState of one     *)
(* engine, against the clock and the orders of its worker                  *)
(* (app/workers/trading_worker.py): validate is called at the start of an  *)
(* iteration, record_order when place() has returned ACCEPTED, and time    *)
(* passes in between.                                                      *)
(*                                                                         *)
(* consecutive_losses and daily_profit_loss are 0 for good: record_result, *)
(* which counts them, is called nowhere in app/.  Whether a loss limit is  *)
(* met is therefore a matter of the settings alone.  The blocks that keep  *)
(* no state (amount, stale data, latency, payout, connection) and the want *)
(* of a signal are one choice, Declines.  The clock is utcnow(), taken to  *)
(* be monotonic.                                                           *)
(***************************************************************************)
EXTENDS Integers, Sequences, FiniteSets

CONSTANTS MaxOrdersPerHour, \* settings.max_orders_per_hour
          LossLimits,       \* values of max_consecutive_losses and of max_daily_loss
          Hour,             \* length of an hour in ticks of the clock
          Cooldown,         \* values cooldown_seconds is set to
          MaxTime,          \* bound: the clock stops there
          MaxOrders         \* bound: the trades made

ASSUME LimitsAssumption ==
    /\ MaxOrdersPerHour \in Nat
    /\ LossLimits \subseteq Int
    /\ Hour \in Nat \ {0}
    /\ Cooldown \subseteq Nat
    /\ MaxTime \in Nat /\ MaxOrders \in Nat

Never == -1
NoAttempt == [wait |-> 0, at |-> Never]

VARIABLES
    settings,         \* the loss limits the process was started with
    now,              \* utcnow()
    pc,               \* the worker: "idle", validated and "checked", or "placing"
    cooldown,         \* rt.config.cooldown_seconds
    orderTimes,       \* state.order_times, of which only the number is asked: a set, by order
    lastOrderAt,      \* state.last_order_at
    locked,           \* state.locked
    attempt,          \* history: the order on its way, as validated and posted
    accepted,         \* history: the accepted orders
    trades            \* history: when the orders of the trades made were posted

state   == <<orderTimes, lastOrderAt, locked>>
history == <<attempt, accepted, trades>>
vars    == <<settings, now, pc, cooldown, state, history>>

-----------------------------------------------------------------------------
TypeOK ==
    /\ settings \in [losses : LossLimits, daily : LossLimits]
    /\ now \in 0..MaxTime
    /\ pc \in {"idle", "checked", "placing"}
    /\ cooldown \in Cooldown
    /\ orderTimes \subseteq [order : Nat, at : 0..MaxTime]
    /\ lastOrderAt \in {Never} \union 0..MaxTime
    /\ locked \in BOOLEAN
    /\ attempt \in [wait : Cooldown, at : {Never} \union 0..MaxTime] \union {NoAttempt}
    /\ accepted \in Seq([wait : Cooldown, at : 0..MaxTime])
    /\ trades \in Seq(0..MaxTime)

Init ==
    /\ settings \in [losses : LossLimits, daily : LossLimits]
    /\ now = 0 /\ pc = "idle"
    /\ cooldown \in Cooldown
    /\ orderTimes = {} /\ lastOrderAt = Never
    /\ locked = FALSE
    /\ attempt = NoAttempt
    /\ accepted = <<>> /\ trades = <<>>

-----------------------------------------------------------------------------
\* RiskService

\* The two reasons that lock, of losses that are 0.
LossLimitMet == 0 >= settings.losses \/ 0 <= -settings.daily

\* Mutant: the hour is counted from its other end.
RecentOutside(times) == {x \in times : x.at < now - Hour}

\* order_times without what is an hour old.
Recent(times) == {x \in times : x.at > now - Hour}

\* Mutant: the cooldown is over before its end.
CoolingLess == lastOrderAt # Never /\ lastOrderAt + cooldown > now + 1

\* The cooldown of the last accepted order has not passed.
Cooling == lastOrderAt # Never /\ lastOrderAt + cooldown > now

Blocked(times) ==
    \/ locked
    \/ Cardinality(times) >= MaxOrdersPerHour
    \/ LossLimitMet
    \/ Cooling

Validate ==
    /\ pc = "idle"
    /\ orderTimes' = Recent(orderTimes)
    /\ locked' = (locked \/ LossLimitMet)
    /\ IF Blocked(Recent(orderTimes))
       THEN UNCHANGED <<pc, attempt>>
       ELSE pc' = "checked" /\ attempt' = [wait |-> cooldown, at |-> Never]
    /\ UNCHANGED <<settings, now, cooldown, lastOrderAt, accepted, trades>>

\* POST /engine/unlock-risk clears the lock, and nothing else.
Unlock ==
    /\ locked
    /\ locked' = FALSE
    /\ UNCHANGED <<settings, now, pc, cooldown, orderTimes, lastOrderAt, history>>

\* PATCH /engine/config sets another cooldown, unless an order is active.
PatchCooldown(c) ==
    /\ pc # "placing"
    /\ cooldown' = c
    /\ UNCHANGED <<settings, now, pc, state, history>>

-----------------------------------------------------------------------------
\* The worker

\* No order comes of this iteration.
Declines ==
    /\ pc = "checked"
    /\ pc' = "idle"
    /\ attempt' = NoAttempt
    /\ UNCHANGED <<settings, now, cooldown, state, accepted, trades>>

\* The order leaves; validate is not asked again.
Posts ==
    /\ pc = "checked"
    /\ Len(trades) < MaxOrders
    /\ pc' = "placing"
    /\ attempt' = [attempt EXCEPT !.at = now]
    /\ UNCHANGED <<settings, now, cooldown, state, accepted, trades>>

\* The order is over, and the broker made the trade or not.
Trades(made) ==
    /\ attempt' = NoAttempt
    /\ trades' = IF made THEN Append(trades, attempt.at) ELSE trades

\* Mutant: record_order stores when the cooldown ends.
AcceptedUntil(made) ==
    /\ pc = "placing"
    /\ pc' = "idle"
    /\ lastOrderAt' = now + cooldown
    /\ orderTimes' = orderTimes \union {[order |-> Len(accepted) + 1, at |-> now]}
    /\ accepted' = Append(accepted, attempt)
    /\ Trades(made)
    /\ UNCHANGED <<settings, now, cooldown, locked>>

\* place() returns ACCEPTED, of a trade or not (OrderSubmission): record_order.
Accepted(made) ==
    /\ pc = "placing"
    /\ pc' = "idle"
    /\ lastOrderAt' = now
    /\ orderTimes' = orderTimes \union {[order |-> Len(accepted) + 1, at |-> now]}
    /\ accepted' = Append(accepted, attempt)
    /\ Trades(made)
    /\ UNCHANGED <<settings, now, cooldown, locked>>

\* place() returns any other status: nothing is recorded.  REJECTED is no trade,
\* UNKNOWN and FAILED may be one (OrderSubmission).
NotAccepted(made) ==
    /\ pc = "placing"
    /\ pc' = "idle"
    /\ Trades(made)
    /\ UNCHANGED <<settings, now, cooldown, state, accepted>>

-----------------------------------------------------------------------------
\* The clock

Tick ==
    /\ now < MaxTime
    /\ now' = now + 1
    /\ UNCHANGED <<settings, pc, cooldown, state, history>>

Next ==
    \/ Validate \/ Unlock \/ Declines \/ Posts \/ Tick
    \/ \E c \in Cooldown : PatchCooldown(c)
    \/ \E made \in BOOLEAN : Accepted(made) \/ NotAccepted(made)

Spec == Init /\ [][Next]_vars

-----------------------------------------------------------------------------
\* How many of the times fall in the hour that ends with time t.
InHourOf(t, times) == Cardinality({i \in DOMAIN times : times[i] \in (t - Hour + 1)..t})

\* Of the orders that were accepted at most MaxOrdersPerHour were posted in any
\* hour, though time passes between validate, the POST and record_order
\* (risk_service.py:24, 28, 42-43, trading_worker.py:67, 93-97).
HourlyLimitHolds ==
    \A i \in DOMAIN accepted :
        InHourOf(accepted[i].at, [j \in DOMAIN accepted |-> accepted[j].at]) <= MaxOrdersPerHour

\* Two accepted orders are posted at least the cooldown apart that was in force
\* when the second was validated, however it is patched (risk_service.py:31-32).
CooldownHolds ==
    \A i \in DOMAIN accepted :
        i > 1 => accepted[i].at >= accepted[i - 1].at + accepted[i].wait

-----------------------------------------------------------------------------
\* What the README says, and the code does not keep

\* MAX_ORDERS_PER_HOUR is a limit (README.md:59): the trades the broker made
\* keep it as well.
HourlyLimitOfTrades ==
    \A i \in DOMAIN trades : InHourOf(trades[i], trades) <= MaxOrdersPerHour

=============================================================================
