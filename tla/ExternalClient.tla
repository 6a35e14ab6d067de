---------------------------- MODULE ExternalClient ----------------------------
(***************************************************************************)
(* PocketOptionClient (app/services/pocketoption_client.py): one object    *)
(* with one field, last_latency_ms, shared by every task of the process;   *)
(* and its users, as far as an answer or an exception steers them: the     *)
(* iterations of TradingWorkers (app/workers/trading_worker.py) through    *)
(* healthy(), MarketDataService and OrderService, and request handlers.    *)
(*                                                                         *)
(* running is the task whose code the event loop is in the middle of: no   *)
(* other one moves until it awaits again.  A call made by that code goes   *)
(* on in the same turn, so it matters where an await is and where it is    *)
(* not.  A latency is abstracted to whether it exceeds the limit, and what *)
(* comes back to the few kinds of answer that _request tells apart.        *)
(* The database is left out, and with it the awaits that make no call.  An *)
(* engine that has lost its connection waits here; EngineLifecycle counts  *)
(* the polls after which it gives up, and has the flag its session shares. *)
(***************************************************************************)
EXTENDS Naturals

CONSTANTS Worker,     \* tasks of engines
          Handler,    \* tasks of HTTP requests
          Nobody,     \* no task is running
          MinPayout   \* settings.min_payout > 0

ASSUME ClientAssumption ==
    /\ Worker \intersect Handler = {}
    /\ Nobody \notin Worker \union Handler
    /\ MinPayout \in BOOLEAN

Task == Worker \union Handler

VARIABLES
    running, \* whose code is being run
    stage,   \* the call a task is making, or where it is between two calls
    at,      \* how far _request has got with it
    attempt, \* local of _request, from 1
    latency, \* last_latency_ms > settings.max_external_latency_ms
    blocked, \* local of iteration(): risk_blocks is not empty
    took,    \* history: the latency of the candles a worker has just got
    cause    \* history: what the call that raised got for its last attempt

callVars == <<running, stage, at, attempt>>
history  == <<took, cause>>
vars == <<callVars, latency, blocked, history>>

-----------------------------------------------------------------------------
\* The calls of an iteration, and those of the routes: "read" is each of balance(),
\* assets() and so on, which differ in nothing that counts here.
Probing     == {"probe", "recheck"}
WorkerCall  == Probing \union {"candles", "payouts", "order"}
HandlerCall == {"init", "read", "logout"}

\* What an attempt brings: nothing (a time-out, a network or protocol error),
\* HTTP 429, 502, 503 or 504, another status or no JSON, a body httpx cannot
\* decode, a list or an object.
Transient == {"silence", "busy"}
Reply     == Transient \union {"refused", "undecodable", "list", "object"}

Raised   == {"unavailable", "error", "other"}
Returned == {"data"} \union Raised

TypeOK ==
    /\ running \in Task \union {Nobody}
    /\ stage \in [Task -> WorkerCall \union HandlerCall \union {"top", "lost", "over"}]
    /\ at \in [Task -> {"idle", "sent", "sleeping"} \union Returned]
    /\ attempt \in [Task -> 0..3]
    /\ latency \in BOOLEAN
    /\ blocked \in [Worker -> BOOLEAN]
    /\ took \in [Worker -> BOOLEAN]
    /\ cause \in [Task -> Reply \union {"none"}]

Init ==
    /\ running = Nobody
    /\ stage = [t \in Task |-> "top"]
    /\ at = [t \in Task |-> "idle"]
    /\ attempt = [t \in Task |-> 0]
    /\ latency = FALSE
    /\ blocked = [w \in Worker |-> FALSE]
    /\ took = [w \in Worker |-> FALSE]
    /\ cause = [t \in Task |-> "none"]

-----------------------------------------------------------------------------
\* _request

\* The loop gives a turn to a task that is ready when no other one has it.
HasTurn(t) == running \in {t, Nobody}

\* Mutant: an order is retried like any other call.
AttemptsAlways(s) == 3

\* retry=False for orders and disconnects.
Attempts(s) == IF s \in {"order", "logout"} THEN 1 ELSE 3

\* Only candles() allows a list.
Usable(s, a) == a = "object" \/ (a = "list" /\ s = "candles")

\* Whether there is another attempt after answer a.
Retries(t, a) == a \in Transient /\ attempt[t] < Attempts(stage[t])

\* The latency of an attempt is taken as soon as something comes back, or does not.
Measures(t) ==
    /\ latency' \in BOOLEAN
    /\ took' = [w \in Worker |-> IF w = t THEN latency' /\ stage[w] = "candles" ELSE took[w]]

\* A task calls: the first attempt is sent, and the loop is free.
Sends(t, s) ==
    /\ stage' = [stage EXCEPT ![t] = s]
    /\ at' = [at EXCEPT ![t] = "sent"]
    /\ attempt' = [attempt EXCEPT ![t] = 1]
    /\ running' = Nobody

\* Mutant: the call returns through one more await.
ReturnsLater(t) ==
    /\ at[t] = "sent" /\ HasTurn(t)
    /\ \E a \in Reply : Usable(stage[t], a)
    /\ Measures(t)
    /\ at' = [at EXCEPT ![t] = "data"]
    /\ UNCHANGED <<running, stage, attempt, blocked, cause>>

\* The answer is data: the caller goes on with it in the same turn.
Returns(t) ==
    /\ at[t] = "sent" /\ HasTurn(t)
    /\ \E a \in Reply : Usable(stage[t], a)
    /\ Measures(t)
    /\ at' = [at EXCEPT ![t] = "data"]
    /\ running' = t
    /\ UNCHANGED <<stage, attempt, blocked, cause>>

\* Trouble that may pass, and an attempt is left: asyncio.sleep.
BacksOff(t) ==
    /\ at[t] = "sent" /\ HasTurn(t)
    /\ \E a \in Reply : Retries(t, a)
    /\ Measures(t)
    /\ at' = [at EXCEPT ![t] = "sleeping"]
    /\ running' = Nobody
    /\ UNCHANGED <<stage, attempt, blocked, cause>>

\* Mutant: the loop does not count.
ResendsForEver(t) ==
    /\ at[t] = "sleeping" /\ HasTurn(t)
    /\ at' = [at EXCEPT ![t] = "sent"]
    /\ running' = Nobody
    /\ UNCHANGED <<stage, attempt, latency, blocked, history>>

Resends(t) ==
    /\ at[t] = "sleeping" /\ HasTurn(t)
    /\ at' = [at EXCEPT ![t] = "sent"]
    /\ attempt' = [attempt EXCEPT ![t] = @ + 1]
    /\ running' = Nobody
    /\ UNCHANGED <<stage, latency, blocked, history>>

\* ExternalConnectionError, ExternalAPIError, or what httpx raised itself, which
\* no handler of _request catches.
Exception(a) ==
    CASE a = "silence"     -> "unavailable"
      [] a = "undecodable" -> "other"
      [] OTHER             -> "error"

\* The last attempt failed, or trouble that does not pass.  A body that cannot be
\* decoded leaves the latency as it was.
Raises(t) ==
    \E a \in Reply :
        /\ at[t] = "sent" /\ HasTurn(t)
        /\ ~Usable(stage[t], a) /\ ~Retries(t, a)
        /\ cause' = [cause EXCEPT ![t] = a]
        /\ at' = [at EXCEPT ![t] = Exception(a)]
        /\ IF a = "undecodable" THEN UNCHANGED <<latency, took>> ELSE Measures(t)
        /\ running' = t
        /\ UNCHANGED <<stage, attempt, blocked>>

-----------------------------------------------------------------------------
\* TradingWorker

\* Between two calls the worker waits for its next iteration, for a connection,
\* or for nothing any more.
Rests(w, s) ==
    /\ stage' = [stage EXCEPT ![w] = s]
    /\ at' = [at EXCEPT ![w] = "idle"]
    /\ attempt' = [attempt EXCEPT ![w] = 0]
    /\ running' = Nobody

\* What is only known about the call that has ended.
Forgets(t) ==
    /\ took' = [w \in Worker |-> IF w = t THEN FALSE ELSE took[w]]
    /\ cause' = [cause EXCEPT ![t] = "none"]

\* The connection is probed at the head of the loop, or again once a session has
\* been connected for an engine that had lost its own.
Probes(w) ==
    /\ stage[w] \in {"top", "lost"} /\ HasTurn(w)
    /\ Sends(w, "probe")
    /\ Forgets(w)
    /\ UNCHANGED <<latency, blocked>>

\* healthy() is true: candles next, or the order.
Healthy(w) ==
    /\ stage[w] \in Probing /\ at[w] = "data" /\ HasTurn(w)
    /\ Sends(w, IF stage[w] = "probe" THEN "candles" ELSE "order")
    /\ Forgets(w)
    /\ UNCHANGED <<latency, blocked>>

\* It is false when the API says so or cannot be reached; other exceptions pass.
Unhealthy(w) ==
    /\ stage[w] \in Probing /\ at[w] \in {"data", "unavailable"} /\ HasTurn(w)
    /\ Rests(w, "lost")
    /\ Forgets(w)
    /\ UNCHANGED <<latency, blocked>>

\* With blocks there is nothing left but to record; else healthy() once more.
Decide(w, blocks) == IF blocks THEN Rests(w, "top") ELSE Sends(w, "recheck")

\* The candles are complete and have a time: indicators, scores and validate(),
\* which reads last_latency_ms.  others stands for every other reason not to order.
Validates(w, others) ==
    /\ stage[w] = "candles" /\ at[w] = "data" /\ HasTurn(w)
    /\ IF MinPayout
       THEN /\ blocked' = [blocked EXCEPT ![w] = latency \/ others]
            /\ Sends(w, "payouts")
       ELSE Decide(w, latency \/ others) /\ UNCHANGED blocked
    /\ Forgets(w)
    /\ UNCHANGED latency

\* A payout that is too low blocks as well.
ChecksPayout(w, low) ==
    /\ stage[w] = "payouts" /\ at[w] = "data" /\ HasTurn(w)
    /\ Decide(w, blocked[w] \/ low)
    /\ blocked' = [blocked EXCEPT ![w] = FALSE]
    /\ Forgets(w)
    /\ UNCHANGED latency

\* Candles or payouts of another shape are ValueErrors and TypeErrors of ours.
Unusable(w) ==
    /\ stage[w] \in {"candles", "payouts"} /\ at[w] = "data" /\ HasTurn(w)
    /\ Rests(w, "over")
    /\ blocked' = [blocked EXCEPT ![w] = FALSE]
    /\ Forgets(w)
    /\ UNCHANGED latency

\* Whatever becomes of the order, place() catches it.
Placed(w) ==
    /\ stage[w] = "order" /\ at[w] \in Returned /\ HasTurn(w)
    /\ Rests(w, "top")
    /\ Forgets(w)
    /\ UNCHANGED <<latency, blocked>>

\* Mutant: a lost connection is an exception like the others.
FailsAlways(w) ==
    /\ stage[w] \in WorkerCall /\ at[w] \in Raised /\ HasTurn(w)
    /\ Rests(w, "over")
    /\ blocked' = [blocked EXCEPT ![w] = FALSE]
    /\ Forgets(w)
    /\ UNCHANGED latency

\* The exception ends the engine with ERROR.
Fails(w) ==
    /\ HasTurn(w)
    /\ \/ stage[w] \in Probing /\ at[w] \in {"error", "other"}
       \/ stage[w] \in {"candles", "payouts"} /\ at[w] \in Raised
    /\ Rests(w, "over")
    /\ blocked' = [blocked EXCEPT ![w] = FALSE]
    /\ Forgets(w)
    /\ UNCHANGED latency

-----------------------------------------------------------------------------
\* Routes

\* A client's request makes a call of the route it is for.
Requests(h, s) ==
    /\ stage[h] = "top" /\ HasTurn(h)
    /\ Sends(h, s)
    /\ Forgets(h)
    /\ UNCHANGED <<latency, blocked>>

\* The handler answers its client, or makes its next call as another request.
Answered(h) ==
    /\ stage[h] \in HandlerCall /\ at[h] \in Returned /\ HasTurn(h)
    /\ Rests(h, "top")
    /\ Forgets(h)
    /\ UNCHANGED <<latency, blocked>>

-----------------------------------------------------------------------------
\* _request goes on.
RequestStep(t) == Returns(t) \/ BacksOff(t) \/ Resends(t) \/ Raises(t)

\* An iteration that has begun goes on.
IterationStep(w) ==
    \/ RequestStep(w)
    \/ Healthy(w) \/ Unhealthy(w)
    \/ \E others \in BOOLEAN : Validates(w, others)
    \/ \E low \in BOOLEAN : ChecksPayout(w, low)
    \/ Unusable(w) \/ Placed(w) \/ Fails(w)

HandlerStep(h) == RequestStep(h) \/ Answered(h)

Next ==
    \/ \E w \in Worker : Probes(w) \/ IterationStep(w)
    \/ \E h \in Handler : HandlerStep(h) \/ \E s \in HandlerCall : Requests(h, s)

Spec == Init /\ [][Next]_vars

\* httpx bounds each wait for the network, and no answer is taken to trickle in for
\* ever.  The loop gives a turn to each task that is ready, in the order in which
\* they become so.
Fairness ==
    /\ \A w \in Worker : SF_vars(IterationStep(w))
    /\ \A h \in Handler : SF_vars(HandlerStep(h))

FairSpec == Spec /\ Fairness

-----------------------------------------------------------------------------
Validating(w) == stage[w] = "candles" /\ stage'[w] \in {"payouts", "recheck", "top"}

\* The latency that validate() reads from the shared client is that of the
\* iteration's own candles, whatever other engines and routes call meanwhile: there
\* is no await between pocketoption_client.py:27 and trading_worker.py:67.  Their slow
\* answers do not block its order, and their fast ones do not hide that its data
\* came late.
LatencyIsOwn == [][\A w \in Worker : Validating(w) => latency = took[w]]_vars

\* An order, or a disconnect, is sent once, any other request at most three times,
\* and one that raised for trouble that passes was sent as often as it may be: no
\* attempt is given away, and none is one too many (pocketoption_client.py:22-40).
AttemptsAreUsed ==
    \A t \in Task :
        /\ attempt[t] <= (IF stage[t] \in {"order", "logout"} THEN 1 ELSE 3)
        /\ cause[t] \in Transient
              => stage[t] \in {"order", "logout"} \/ attempt[t] = 3

\* What can pass does not end an engine at once: an iteration ends its worker only
\* after three attempts, or for an answer that no attempt would change; never
\* because the API cannot be reached by a probe, and never because of an order
\* (connection_service.py:94-98, order_service.py:27-30, pocketoption_client.py:30-38).
EndsForCause ==
    [][\A w \in Worker : stage[w] # "over" /\ stage'[w] = "over" =>
          /\ stage[w] # "order"
          /\ stage[w] \in Probing => cause[w] # "silence"
          /\ cause[w] \in Transient => attempt[w] = 3]_vars

\* An iteration that has begun comes to its end: the attempts of each call are
\* bounded, and no task keeps the loop (pocketoption_client.py:23-40).
IterationEnds == \A w \in Worker : stage[w] \in WorkerCall ~> stage[w] \notin WorkerCall

=============================================================================
