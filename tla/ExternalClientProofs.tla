------------------------ MODULE ExternalClientProofs ------------------------
(***************************************************************************)
(* Proofs about ExternalClient, for any number of engines and of requests: *)
(* attempts are bounded and used up, the latency that validate() reads is  *)
(* that of the iteration's own candles, and what can pass ends no engine   *)
(* at once.  They rest on one fact: whoever has an answer has the turn.    *)
(***************************************************************************)
EXTENDS ExternalClient, TLAPS

\* A task that goes on with an answer or an exception is the one that is running.
TurnInv == \A t \in Task : at[t] \in Returned => running = t

\* Where a task can be, and how many attempts it has made of its call.
CallInv ==
    \A t \in Task :
        /\ t \in Worker  => stage[t] \in WorkerCall \union {"top", "lost", "over"}
        /\ t \in Handler => stage[t] \in HandlerCall \union {"top"}
        /\ at[t] = "idle" <=> stage[t] \in {"top", "lost", "over"}
        /\ at[t] # "idle" => attempt[t] >= 1
        /\ attempt[t] <= Attempts(stage[t])
        /\ at[t] = "sleeping" => attempt[t] < Attempts(stage[t])

\* What is known of an exception, until its caller has dealt with it.
CauseInv ==
    \A t \in Task :
        /\ at[t] \in Raised => cause[t] \in Reply /\ at[t] = Exception(cause[t])
        /\ at[t] \notin Raised => cause[t] = "none"
        /\ cause[t] \in Transient => attempt[t] = Attempts(stage[t])

\* The latency of candles that have just come is still there.
LatencyInv == \A w \in Worker : stage[w] = "candles" /\ at[w] = "data" => took[w] = latency

Inv == TypeOK /\ TurnInv /\ CallInv /\ CauseInv /\ LatencyInv

\* The types of the variables that are not boolean.
OtherTypes ==
    /\ running \in Task \union {Nobody}
    /\ stage \in [Task -> WorkerCall \union HandlerCall \union {"top", "lost", "over"}]
    /\ at \in [Task -> {"idle", "sent", "sleeping"} \union Returned]
    /\ attempt \in [Task -> 0..3]
    /\ cause \in [Task -> Reply \union {"none"}]

-----------------------------------------------------------------------------
\* Nobody has called anything yet.
LEMMA InitInv == Init => Inv
<1> SUFFICES ASSUME Init PROVE Inv
  OBVIOUS
<1> USE ClientAssumption DEF Init, Task, Probing, WorkerCall, HandlerCall, Raised, Returned
<1>1. TypeOK
  <2>1. OtherTypes
    BY DEF OtherTypes
  <2>2. latency \in BOOLEAN /\ blocked \in [Worker -> BOOLEAN] /\ took \in [Worker -> BOOLEAN]
    OBVIOUS
  <2> QED
    BY <2>1, <2>2 DEF TypeOK, OtherTypes
<1>2. TurnInv
  BY DEF TurnInv
<1>3. CallInv
  BY DEF CallInv, Attempts
<1>4. CauseInv
  BY DEF CauseInv, Transient
<1>5. LatencyInv
  BY DEF LatencyInv
<1> QED
  BY <1>1, <1>2, <1>3, <1>4, <1>5 DEF Inv

\* A task that moves has the turn, so no other one has an answer in its hands.
LEMMA OthersWait ==
    ASSUME TurnInv, NEW t \in Task, HasTurn(t), NEW u \in Task, u # t
    PROVE  at[u] \notin Returned
BY ClientAssumption DEF TurnInv, HasTurn, Task

\* The steps of _request keep the invariant.
LEMMA RequestKeepsInv ==
    ASSUME Inv, NEW t \in Task, RequestStep(t)
    PROVE  Inv'
<1> USE ClientAssumption
    DEF Inv, TypeOK, TurnInv, CallInv, CauseInv, LatencyInv, Task, WorkerCall, HandlerCall,
        Probing, Returned, Raised, Attempts, Transient, Reply, HasTurn, Measures, callVars, history
<1>0. \A u \in Task : HasTurn(t) /\ u # t => at[u] \notin Returned
  BY OthersWait
<1>1. CASE Returns(t)
  BY <1>0, <1>1 DEF Returns, Usable
<1>2. CASE BacksOff(t)
  BY <1>0, <1>2 DEF BacksOff, Retries
<1>3. CASE Resends(t)
  BY <1>0, <1>3 DEF Resends
<1>4. CASE Raises(t)
  <2>1. PICK a \in Reply :
            /\ at[t] = "sent" /\ ~Usable(stage[t], a) /\ ~Retries(t, a)
            /\ cause' = [cause EXCEPT ![t] = a]
            /\ at' = [at EXCEPT ![t] = Exception(a)]
            /\ running' = t
            /\ UNCHANGED <<stage, attempt, blocked>>
            /\ (UNCHANGED <<latency, took>> \/ Measures(t))
    BY <1>4 DEF Raises
  <2>2. Exception(a) \in Raised
    BY <2>1 DEF Exception
  <2>3. HasTurn(t)
    BY <1>4 DEF Raises
  <2>4. TypeOK'
    <3>1. latency' \in BOOLEAN /\ took' \in [Worker -> BOOLEAN] /\ blocked' \in [Worker -> BOOLEAN]
      <4>1. CASE UNCHANGED <<latency, took>>
        BY <2>1, <4>1
      <4>2. CASE Measures(t)
        BY <2>1, <4>2
      <4> QED
        BY <2>1, <4>1, <4>2
    <3>2. OtherTypes'
      BY <2>1, <2>2 DEF OtherTypes
    <3> QED
      BY <3>1, <3>2 DEF OtherTypes
  <2>5. TurnInv' /\ CallInv'
    BY <1>0, <2>1, <2>2, <2>3
  <2>6. CauseInv'
    BY <2>1, <2>2 DEF Retries
  <2>7. LatencyInv'
    BY <1>0, <2>1, <2>2, <2>3
  <2> QED
    BY <2>4, <2>5, <2>6, <2>7
<1> QED
  BY <1>1, <1>2, <1>3, <1>4 DEF RequestStep

\* So does a task that makes its next call,
LEMMA CallKeepsInv ==
    ASSUME Inv, NEW t \in Task, HasTurn(t),
           NEW s, t \in Worker => s \in WorkerCall, t \in Handler => s \in HandlerCall,
           Sends(t, s), Forgets(t), blocked' \in [Worker -> BOOLEAN], latency' = latency
    PROVE  Inv'
<1> USE ClientAssumption
    DEF Inv, TypeOK, TurnInv, CallInv, CauseInv, LatencyInv, Task, WorkerCall, HandlerCall,
        Probing, Returned, Raised, Attempts, Transient, Reply, Forgets, Sends
<1>0. \A u \in Task : u # t => at[u] \notin Returned
  BY OthersWait
<1>1. TypeOK'
  <2>1. latency' \in BOOLEAN /\ took' \in [Worker -> BOOLEAN] /\ blocked' \in [Worker -> BOOLEAN]
    OBVIOUS
  <2>2. OtherTypes'
    BY DEF OtherTypes
  <2> QED
    BY <2>1, <2>2 DEF OtherTypes
<1>2. TurnInv'
  BY <1>0
<1>3. CallInv'
  OBVIOUS
<1>4. CauseInv'
  OBVIOUS
<1>5. LatencyInv'
  BY <1>0
<1> QED
  BY <1>1, <1>2, <1>3, <1>4, <1>5

\* and one that has no more to ask for.
LEMMA RestKeepsInv ==
    ASSUME Inv, NEW t \in Task, HasTurn(t),
           NEW s \in {"top", "lost", "over"}, t \in Handler => s = "top",
           Rests(t, s), Forgets(t), blocked' \in [Worker -> BOOLEAN], latency' = latency
    PROVE  Inv'
<1> USE ClientAssumption
    DEF Inv, TypeOK, TurnInv, CallInv, CauseInv, LatencyInv, Task, WorkerCall, HandlerCall,
        Probing, Returned, Raised, Attempts, Transient, Reply, Forgets, Rests
<1>0. \A u \in Task : u # t => at[u] \notin Returned
  BY OthersWait
<1>1. TypeOK'
  <2>1. latency' \in BOOLEAN /\ took' \in [Worker -> BOOLEAN] /\ blocked' \in [Worker -> BOOLEAN]
    OBVIOUS
  <2>2. OtherTypes'
    BY DEF OtherTypes
  <2> QED
    BY <2>1, <2>2 DEF OtherTypes
<1>2. TurnInv'
  BY <1>0
<1>3. CallInv'
  OBVIOUS
<1>4. CauseInv'
  OBVIOUS
<1>5. LatencyInv'
  BY <1>0
<1> QED
  BY <1>1, <1>2, <1>3, <1>4, <1>5

\* Every action of a worker or a handler is one of these.
LEMMA StepInv == Inv /\ [Next]_vars => Inv'
<1> SUFFICES ASSUME Inv, [Next]_vars PROVE Inv'
  OBVIOUS
<1> USE ClientAssumption
<1>1. blocked \in [Worker -> BOOLEAN] /\ at \in [Task -> {"idle", "sent", "sleeping"} \union Returned]
  BY DEF Inv, TypeOK
<1>2. \A w \in Worker : w \in Task /\ w \notin Handler
  BY DEF Task
<1>3. \A h \in Handler : h \in Task /\ h \notin Worker
  BY DEF Task
<1>4. {"probe", "recheck", "candles", "payouts", "order"} \subseteq WorkerCall
  BY DEF WorkerCall, Probing
<1>5. ASSUME NEW w \in Worker, Probes(w) PROVE Inv'
  BY <1>1, <1>2, <1>4, <1>5, CallKeepsInv DEF Probes
<1>6. ASSUME NEW t \in Task, RequestStep(t) PROVE Inv'
  BY <1>6, RequestKeepsInv
<1>7. ASSUME NEW w \in Worker, Healthy(w) PROVE Inv'
  BY <1>1, <1>2, <1>4, <1>7, CallKeepsInv DEF Healthy
<1>8. ASSUME NEW w \in Worker, Unhealthy(w) PROVE Inv'
  BY <1>1, <1>2, <1>8, RestKeepsInv DEF Unhealthy
<1>9. ASSUME NEW w \in Worker, NEW others \in BOOLEAN, Validates(w, others) PROVE Inv'
  <2>1. HasTurn(w) /\ Forgets(w) /\ latency' = latency
    BY <1>9 DEF Validates
  <2>2. blocked' \in [Worker -> BOOLEAN]
    <3>1. CASE MinPayout
      BY <1>1, <1>9, <3>1 DEF Validates
    <3>2. CASE ~MinPayout
      BY <1>1, <1>9, <3>2 DEF Validates
    <3> QED
      BY <3>1, <3>2
  <2>3. Sends(w, "payouts") \/ Sends(w, "recheck") \/ Rests(w, "top")
    BY <1>9 DEF Validates, Decide
  <2> QED
    BY <1>2, <1>4, <2>1, <2>2, <2>3, CallKeepsInv, RestKeepsInv
<1>10. ASSUME NEW w \in Worker, NEW low \in BOOLEAN, ChecksPayout(w, low) PROVE Inv'
  <2>1. HasTurn(w) /\ Forgets(w) /\ latency' = latency
    BY <1>10 DEF ChecksPayout
  <2>2. blocked' \in [Worker -> BOOLEAN]
    BY <1>1, <1>10 DEF ChecksPayout
  <2>3. Sends(w, "recheck") \/ Rests(w, "top")
    BY <1>10 DEF ChecksPayout, Decide
  <2> QED
    BY <1>2, <1>4, <2>1, <2>2, <2>3, CallKeepsInv, RestKeepsInv
<1>11. ASSUME NEW w \in Worker, Unusable(w) PROVE Inv'
  <2>1. blocked' \in [Worker -> BOOLEAN]
    BY <1>1, <1>11 DEF Unusable
  <2> QED
    BY <1>2, <1>11, <2>1, RestKeepsInv DEF Unusable
<1>12. ASSUME NEW w \in Worker, Placed(w) PROVE Inv'
  BY <1>1, <1>2, <1>12, RestKeepsInv DEF Placed
<1>13. ASSUME NEW w \in Worker, Fails(w) PROVE Inv'
  <2>1. blocked' \in [Worker -> BOOLEAN]
    BY <1>1, <1>13 DEF Fails
  <2> QED
    BY <1>2, <1>13, <2>1, RestKeepsInv DEF Fails
<1>14. ASSUME NEW h \in Handler, NEW s \in HandlerCall, Requests(h, s) PROVE Inv'
  BY <1>1, <1>3, <1>14, CallKeepsInv DEF Requests
<1>15. ASSUME NEW h \in Handler, Answered(h) PROVE Inv'
  BY <1>1, <1>3, <1>15, RestKeepsInv DEF Answered
<1>16. CASE UNCHANGED vars
  BY <1>16
  DEF vars, callVars, history, Inv, TypeOK, TurnInv, CallInv, CauseInv, LatencyInv
<1> QED
  BY <1>2, <1>3, <1>5, <1>6, <1>7, <1>8, <1>9, <1>10, <1>11, <1>12, <1>13, <1>14, <1>15, <1>16
  DEF Next, IterationStep, HandlerStep

\* The invariant holds in every reachable state, fairness or not.
THEOREM Invariance == Spec => []Inv
BY InitInv, StepInv, PTL DEF Spec

\* Type correctness of the client's model, with at most three attempts of a call.
THEOREM ClientTypes == Spec => []TypeOK
BY Invariance, PTL DEF Inv

\* However many engines and requests share the client, an order is sent once, other
\* calls at most three times, and no attempt is given away
\* (pocketoption_client.py:22-40).
THEOREM AttemptsBoundedAndUsed == Spec => []AttemptsAreUsed
<1>1. Inv => AttemptsAreUsed
  BY DEF Inv, CallInv, CauseInv, AttemptsAreUsed, Attempts
<1> QED
  BY <1>1, Invariance, PTL

\* A worker's call is ended, and its next one begun, by nobody else.
LEMMA OwnStage ==
    ASSUME Inv, Next, NEW w \in Worker, stage'[w] # stage[w]
    PROVE  \/ Probes(w) \/ Healthy(w) \/ Unhealthy(w)
           \/ \E others \in BOOLEAN : Validates(w, others)
           \/ \E low \in BOOLEAN : ChecksPayout(w, low)
           \/ Unusable(w) \/ Placed(w) \/ Fails(w)
<1>1. ASSUME NEW t \in Task, RequestStep(t) PROVE FALSE
  BY <1>1 DEF RequestStep, Returns, BacksOff, Resends, Raises
<1>2. ASSUME NEW t \in Task, NEW s, t # w, stage' = [stage EXCEPT ![t] = s] PROVE FALSE
  BY <1>2 DEF Inv, TypeOK, Task
<1>3. \A t, s : Sends(t, s) \/ Rests(t, s) => stage' = [stage EXCEPT ![t] = s]
  BY DEF Sends, Rests
<1>4. \A h \in Handler : h \in Task /\ h # w
  BY ClientAssumption DEF Task
<1>5. \A v \in Worker : v \in Task
  BY DEF Task
<1>6. ASSUME NEW h \in Handler, Answered(h) \/ \E s \in HandlerCall : Requests(h, s) PROVE FALSE
  BY <1>2, <1>3, <1>4, <1>6 DEF Answered, Requests
<1>7. ASSUME NEW v \in Worker, v # w, Probes(v) \/ IterationStep(v) PROVE FALSE
  <2>1. CASE Probes(v) \/ Healthy(v) \/ Unhealthy(v) \/ Unusable(v) \/ Placed(v) \/ Fails(v)
    BY <1>2, <1>3, <1>5, <1>7, <2>1 DEF Probes, Healthy, Unhealthy, Unusable, Placed, Fails
  <2>2. CASE \E others \in BOOLEAN : Validates(v, others)
    BY <1>2, <1>3, <1>5, <1>7, <2>2 DEF Validates, Decide
  <2>3. CASE \E low \in BOOLEAN : ChecksPayout(v, low)
    BY <1>2, <1>3, <1>5, <1>7, <2>3 DEF ChecksPayout, Decide
  <2> QED
    BY <1>1, <1>5, <1>7, <2>1, <2>2, <2>3 DEF IterationStep
<1> QED
  BY <1>1, <1>4, <1>5, <1>6, <1>7 DEF Next, IterationStep, HandlerStep

\* Of any number of engines each validates its signal with the latency of its own
\* candles (pocketoption_client.py:27, trading_worker.py:67).
THEOREM OwnLatency == Spec => LatencyIsOwn
<1>1. Inv /\ [Next]_vars => [\A w \in Worker : Validating(w) => latency = took[w]]_vars
  <2> SUFFICES ASSUME Inv, Next, NEW w \in Worker, Validating(w) PROVE latency = took[w]
    BY DEF vars
  <2>1. stage[w] = "candles" /\ stage'[w] \in {"payouts", "recheck", "top"}
    BY DEF Validating
  <2>2. stage \in [Task -> WorkerCall \union HandlerCall \union {"top", "lost", "over"}] /\ w \in Task
    BY DEF Inv, TypeOK, Task
  <2>3. PICK s \in {"payouts", "recheck", "top"} : stage'[w] = s /\ s # stage[w]
    BY <2>1
  <2>4. \/ \E others \in BOOLEAN : Validates(w, others)
        \/ Unusable(w) \/ Fails(w)
    BY <2>1, <2>3, OwnStage
    DEF Probes, Healthy, Unhealthy, ChecksPayout, Placed, Probing
  <2>5. ~Unusable(w) /\ ~Fails(w)
    BY <2>1, <2>2 DEF Unusable, Fails, Rests
  <2> QED
    BY <2>1, <2>4, <2>5 DEF Validates, Inv, LatencyInv
<1> QED
  BY <1>1, Invariance, PTL DEF Spec, LatencyIsOwn

\* Whatever answers come, and whatever other tasks do, an engine is ended by an
\* exception that no attempt was left for, or that none would have changed; never by
\* silence on a probe, and never by an order
\* (connection_service.py:94-98, order_service.py:27-30, pocketoption_client.py:30-38).
THEOREM EndedForCause == Spec => EndsForCause
<1> DEFINE A(w) == /\ stage[w] # "order"
                   /\ stage[w] \in Probing => cause[w] # "silence"
                   /\ cause[w] \in Transient => attempt[w] = 3
<1>1. Inv /\ [Next]_vars
        => [\A w \in Worker : stage[w] # "over" /\ stage'[w] = "over" => A(w)]_vars
  <2> SUFFICES ASSUME Inv, Next, NEW w \in Worker, stage[w] # "over", stage'[w] = "over"
               PROVE  A(w)
    BY DEF vars
  <2>1. stage \in [Task -> WorkerCall \union HandlerCall \union {"top", "lost", "over"}] /\ w \in Task
    BY DEF Inv, TypeOK, Task
  <2>2. \A s : Sends(w, s) \/ Rests(w, s) => s = "over"
    BY <2>1 DEF Sends, Rests
  <2>3. Unusable(w) \/ Fails(w)
    BY <2>2, OwnStage DEF Probes, Healthy, Unhealthy, Validates, ChecksPayout, Placed, Decide
  <2>4. cause[w] \in Transient => at[w] \in Raised /\ attempt[w] = Attempts(stage[w])
    BY <2>1 DEF Inv, CauseInv, Transient
  <2>5. CASE Unusable(w)
    BY <2>4, <2>5 DEF Unusable, Raised, Probing
  <2>6. CASE Fails(w)
    <3>1. stage[w] \in Probing \union {"candles", "payouts"} /\ at[w] \in Raised
      BY <2>6 DEF Fails, Raised
    <3>2. at[w] = Exception(cause[w])
      BY <2>1, <3>1 DEF Inv, CauseInv
    <3>3. stage[w] \in Probing => cause[w] # "silence"
      BY <2>6, <3>2 DEF Fails, Exception, Probing
    <3>4. Attempts(stage[w]) = 3 /\ stage[w] # "order"
      BY <3>1 DEF Attempts, Probing
    <3> QED
      BY <2>4, <3>3, <3>4
  <2> QED
    BY <2>3, <2>5, <2>6
<1> QED
  BY <1>1, Invariance, PTL DEF Spec, EndsForCause

=============================================================================
