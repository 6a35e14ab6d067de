------------------------ MODULE EngineLifecycleProofs ------------------------
(***************************************************************************)
(* Proofs about EngineLifecycle, for any sets of engines, sessions and     *)
(* requests: type correctness, every safety property of the module, and    *)
(* that it implements EngineContract.                                      *)
(***************************************************************************)
EXTENDS EngineLifecycle, TLAPS

\* The requests in flight: what each holds on to while it awaits.
CallInv ==
    \A c \in Call :
        /\ call[c].pc \in {"starting", "launching"} =>
              /\ call[c].eng \in Engine
              /\ status[call[c].eng] # "NONE"
              /\ worker[call[c].eng] = "absent"
        /\ call[c].pc = "launching" => status[call[c].eng] # "STARTING"
        /\ call[c].pc = "resuming" => call[c].eng \in Engine
        /\ call[c].pc \in Stopping =>
              /\ call[c].eng \in Engine
              /\ status[call[c].eng] \in {"STOPPING", "STOPPED"}
        /\ call[c].pc \in {"waiting", "stopped"} => stopEvent[call[c].eng]

\* manager.lock: one request at a time is inside start.
LockInv ==
    \A c, d \in Call : call[c].pc \in Starting /\ call[d].pc \in Starting => c = d

\* Whoever names an engine names one that exists.
ReferenceInv ==
    /\ \A s \in Session : bySession[s] # NoEngine => status[bySession[s]] # "NONE"
    /\ \A e \in toStop : status[e] # "NONE"

\* Where a worker can be, by the status of its engine and by its events.
WorkerInv ==
    \A e \in Engine :
        /\ status[e] \in {"NONE", "STARTING"} => worker[e] = "absent"
        /\ finished[e] <=> worker[e] = "done"
        /\ worker[e] = "cancelled" => status[e] = "STOPPED"
        /\ status[e] = "CONNECTION_LOST" => worker[e] \in {"top", "probing", "lost"}
        /\ status[e] = "ERROR" /\ worker[e] = "top" => stopEvent[e]
        /\ stopEvent[e] \/ worker[e] = "failing" => status[e] \in {"STOPPING", "STOPPED", "ERROR"}
        /\ worker[e] = "absent" => ~activeOrder[e]

\* Three failures in a row end the loop.
FailureInv ==
    \A e \in Engine :
        failures[e] = 3 =>
            \/ worker[e] \in {"lost", "failing", "crashing", "cancelled", "done"}
            \/ worker[e] = "top" /\ stopEvent[e]

\* After the one late order the worker is beyond the point where it decides.
LateInv ==
    \A e \in Engine :
        /\ late[e] <= 1
        /\ late[e] = 1 /\ (stopEvent[e] \/ status[e] = "PAUSED") =>
              worker[e] \notin BeforeOrder

\* A lock found by an iteration disarms its signal, and no worker with a locked
\* state is on its way to RUNNING.
LockedInv ==
    \A e \in Engine : riskLocked[e] =>
        /\ worker[e] \in {"payouts", "locking"} => ~armed[e]
        /\ \/ status[e] \in {"STOPPING", "STOPPED", "ERROR"}
           \/ /\ status[e] \in {"PAUSED", "RISK_LOCKED"}
              /\ worker[e] \in {"payouts", "locking", "recording", "top", "done"}
           \/ status[e] = "RUNNING" /\ worker[e] = "payouts"

\* In ERROR no iteration is in progress.
ErrorEndsWork ==
    \A e \in Engine : status[e] = "ERROR" => worker[e] \in {"failing", "top", "crashing", "done"}

Inv ==
    /\ TypeOK /\ CallInv /\ LockInv /\ ReferenceInv /\ WorkerInv
    /\ FailureInv /\ LateInv /\ LockedInv
    /\ StoppedIsQuiet /\ ActiveOrderWhilePlacing /\ RiskLockHolds /\ ErrorEndsWork

-----------------------------------------------------------------------------
\* Lemmas about the operators the handlers share

\* The table of transitions, by target.
LEMMA Table ==
  ASSUME NEW st \in Status \union {"NONE"}
  PROVE  /\ CanTransition(st, "PAUSED", FALSE) <=> st = "RUNNING"
         /\ CanTransition(st, "RUNNING", FALSE) <=> st \in {"STARTING", "PAUSED", "CONNECTION_LOST"}
         /\ CanTransition(st, "RUNNING", TRUE) <=>
               st \in {"STARTING", "PAUSED", "CONNECTION_LOST", "RISK_LOCKED"}
         /\ CanTransition(st, "CONNECTION_LOST", FALSE) <=> st \in {"RUNNING", "PAUSED"}
         /\ CanTransition(st, "ERROR", FALSE) <=> st \in {"STARTING", "RUNNING", "CONNECTION_LOST"}
         /\ CanTransition(st, "STOPPED", FALSE) <=> st \in {"STOPPING", "ERROR"}
         /\ CanTransition(st, "STOPPING", FALSE) <=>
               st \in {"STARTING", "RUNNING", "PAUSED", "CONNECTION_LOST", "RISK_LOCKED", "ERROR"}
BY DEF CanTransition, Transitions, Status

\* An answer to healthy() keeps the types of what ConnectionService holds.
LEMMA AnswerTypes ==
  ASSUME TypeOK, NEW p, NEW s, NEW up \in BOOLEAN, Answer(p, s, up)
  PROVE  /\ session' \in [Session -> {"absent", "connected", "disconnected"}]
         /\ adrift' \subseteq Engine \union Call
<1>1. CASE p \in adrift
  BY <1>1 DEF Answer, TypeOK
<1>2. CASE p \notin adrift /\ up
  BY <1>2 DEF Answer, TypeOK
<1>3. CASE p \notin adrift /\ ~up
  BY <1>3 DEF Answer, TypeOK
<1> QED
  BY <1>1, <1>2, <1>3

\* Raise has two outcomes: ERROR, or the end of the task at once.
LEMMA RaiseOutcomes ==
  ASSUME TypeOK, NEW e \in Engine, Raise(e)
  PROVE  \/ /\ status[e] \in {"STARTING", "RUNNING", "CONNECTION_LOST"}
            /\ status' = [status EXCEPT ![e] = "ERROR"]
            /\ worker' = [worker EXCEPT ![e] = "crashing"]
            /\ finished' = finished
         \/ /\ status[e] \notin {"STARTING", "RUNNING", "CONNECTION_LOST"}
            /\ status' = status
            /\ worker' = [worker EXCEPT ![e] = "done"]
            /\ finished' = [finished EXCEPT ![e] = TRUE]
<1>1. CanTransition(status[e], "ERROR", FALSE)
        <=> status[e] \in {"STARTING", "RUNNING", "CONNECTION_LOST"}
  BY Table DEF TypeOK
<1>2. CASE CanTransition(status[e], "ERROR", FALSE)
  BY <1>1, <1>2 DEF Raise, SetStatus, Await
<1>3. CASE ~CanTransition(status[e], "ERROR", FALSE)
  BY <1>1, <1>3 DEF Raise, SetStatus, Await
<1> QED
  BY <1>2, <1>3

\* BeginStop waits for a worker already told, or enters STOPPING.
LEMMA BeginStopOutcomes ==
  ASSUME TypeOK, NEW e \in Engine, NEW c, NEW op, BeginStop(c, op, e)
  PROVE  \/ /\ status[e] = "STOPPING"
            /\ status' = status
            /\ stopEvent' = [stopEvent EXCEPT ![e] = TRUE]
            /\ late' = IF stopEvent[e] THEN late ELSE [late EXCEPT ![e] = 0]
            /\ call' = [call EXCEPT ![c] = [pc |-> "waiting", op |-> op, eng |-> e, ses |-> owner[e]]]
         \/ /\ status[e] \in Status \ {"STOPPING", "STOPPED"}
            /\ status' = [status EXCEPT ![e] = "STOPPING"]
            /\ stopEvent' = stopEvent
            /\ late' = late
            /\ call' = [call EXCEPT ![c] = [pc |-> "stopping", op |-> op, eng |-> e, ses |-> owner[e]]]
<1>1. CanTransition(status[e], "STOPPING", FALSE) => status[e] \in Status \ {"STOPPING", "STOPPED"}
  BY Table DEF TypeOK, Status
<1>2. CASE status[e] = "STOPPING"
  BY <1>2 DEF BeginStop, SetStopEvent
<1>3. CASE status[e] # "STOPPING"
  BY <1>1, <1>3 DEF BeginStop, SetStatus
<1> QED
  BY <1>2, <1>3

\* Unhealthy: the first loss, a loss counted, the third one, or an exception.
LEMMA UnhealthyOutcomes ==
  ASSUME TypeOK, NEW e \in Engine, Unhealthy(e)
  PROVE  /\ failures' = [failures EXCEPT ![e] = failures[e] + 1]
         /\ \/ /\ status[e] \in {"RUNNING", "PAUSED"}
               /\ status' = [status EXCEPT ![e] = "CONNECTION_LOST"]
               /\ worker' = [worker EXCEPT ![e] = "lost"]
               /\ finished' = finished
            \/ /\ status[e] \notin {"RUNNING", "PAUSED", "CONNECTION_LOST"}
               /\ Raise(e)
            \/ /\ status[e] = "CONNECTION_LOST" /\ failures[e] + 1 >= 3
               /\ status' = [status EXCEPT ![e] = "ERROR"]
               /\ worker' = [worker EXCEPT ![e] = "failing"]
               /\ finished' = finished
            \/ /\ status[e] = "CONNECTION_LOST" /\ failures[e] + 1 < 3
               /\ status' = status
               /\ worker' = [worker EXCEPT ![e] = "top"]
               /\ finished' = finished
<1>1. CanTransition(status[e], "CONNECTION_LOST", FALSE) <=> status[e] \in {"RUNNING", "PAUSED"}
  BY Table DEF TypeOK
<1>2. failures' = [failures EXCEPT ![e] = failures[e] + 1] /\ failures'[e] = failures[e] + 1
  BY DEF Unhealthy, TypeOK
<1>3. CASE status[e] # "CONNECTION_LOST" /\ CanTransition(status[e], "CONNECTION_LOST", FALSE)
  BY <1>1, <1>2, <1>3 DEF Unhealthy, SetStatus, Await
<1>4. CASE status[e] # "CONNECTION_LOST" /\ ~CanTransition(status[e], "CONNECTION_LOST", FALSE)
  BY <1>1, <1>2, <1>4 DEF Unhealthy
<1>5. CASE status[e] = "CONNECTION_LOST"
  BY <1>2, <1>5 DEF Unhealthy, SetStatus, Await
<1> QED
  BY <1>3, <1>4, <1>5

\* Moving a request to its next await, or ending it, keeps the requests well
\* formed and the other ones as they are.
LEMMA GotoTypes ==
  ASSUME call \in [Call -> Request], NEW c \in Call, NEW pc \in CallPC, Goto(c, pc)
  PROVE  /\ call' \in [Call -> Request]
         /\ call'[c] = [pc |-> pc, op |-> call[c].op, eng |-> call[c].eng, ses |-> call[c].ses]
         /\ \A d \in Call \ {c} : call'[d] = call[d]
BY DEF Request, Goto

LEMMA ReturnTypes ==
  ASSUME call \in [Call -> Request], NEW c \in Call, Return(c)
  PROVE  /\ call' \in [Call -> Request]
         /\ call'[c] = Idle
         /\ \A d \in Call \ {c} : call'[d] = call[d]
BY DEF Request, Return, Idle, CallPC

\* StartRuns: the engine runs, or has been stopped meanwhile.
LEMMA StartRunsOutcomes ==
  ASSUME TypeOK, NEW c \in Call, StartRuns(c), call[c].eng \in Engine
  PROVE  \/ /\ status[call[c].eng] \in {"STARTING", "PAUSED", "CONNECTION_LOST"}
            /\ status' = [status EXCEPT ![call[c].eng] = "RUNNING"]
            /\ Goto(c, "launching")
         \/ status' = status /\ Return(c)
<1>1. CanTransition(status[call[c].eng], "RUNNING", FALSE)
        <=> status[call[c].eng] \in {"STARTING", "PAUSED", "CONNECTION_LOST"}
  BY Table DEF TypeOK
<1>2. CASE CanTransition(status[call[c].eng], "RUNNING", FALSE)
  BY <1>1, <1>2 DEF StartRuns, SetStatus
<1>3. CASE ~CanTransition(status[call[c].eng], "RUNNING", FALSE)
  BY <1>3 DEF StartRuns
<1> QED
  BY <1>2, <1>3

\* StopWaited: the engine is STOPPED now, or was before.
LEMMA StopWaitedOutcomes ==
  ASSUME TypeOK, NEW c \in Call, StopWaited(c), call[c].eng \in Engine,
         status[call[c].eng] \in {"STOPPING", "STOPPED"}
  PROVE  /\ worker' = IF ~finished[call[c].eng] /\ worker[call[c].eng] \in Alive
                      THEN [worker EXCEPT ![call[c].eng] = "cancelled"]
                      ELSE worker
         /\ \/ /\ status[call[c].eng] = "STOPPING"
               /\ status' = [status EXCEPT ![call[c].eng] = "STOPPED"]
               /\ Goto(c, "stopped")
            \/ status[call[c].eng] = "STOPPED" /\ status' = status /\ Return(c)
<1>1. CanTransition(status[call[c].eng], "STOPPED", FALSE) <=> status[call[c].eng] = "STOPPING"
  BY Table DEF TypeOK
<1>2. worker' = IF ~finished[call[c].eng] /\ worker[call[c].eng] \in Alive
                THEN [worker EXCEPT ![call[c].eng] = "cancelled"]
                ELSE worker
  <2>1. CASE finished[call[c].eng]
    BY <2>1 DEF StopWaited
  <2>2. CASE ~finished[call[c].eng]
    BY <2>2 DEF StopWaited, Cancelled
  <2> QED
    BY <2>1, <2>2
<1>3. CASE status[call[c].eng] = "STOPPING"
  BY <1>1, <1>2, <1>3 DEF StopWaited, SetStatus
<1>4. CASE status[call[c].eng] = "STOPPED"
  BY <1>1, <1>2, <1>4 DEF StopWaited
<1> QED
  BY <1>3, <1>4

\* UnlockRisk: the engine runs again, or cannot.
LEMMA UnlockOutcomes ==
  ASSUME TypeOK, NEW e \in Engine, UnlockRisk(e)
  PROVE  \/ /\ status[e] \in {"STARTING", "PAUSED", "CONNECTION_LOST", "RISK_LOCKED"}
            /\ status' = [status EXCEPT ![e] = "RUNNING"]
         \/ /\ status[e] \notin {"STARTING", "PAUSED", "CONNECTION_LOST", "RISK_LOCKED"}
            /\ status' = status
<1>1. CanTransition(status[e], "RUNNING", TRUE)
        <=> status[e] \in {"STARTING", "PAUSED", "CONNECTION_LOST", "RISK_LOCKED"}
  BY Table DEF TypeOK
<1>2. CASE CanTransition(status[e], "RUNNING", TRUE)
  BY <1>1, <1>2 DEF UnlockRisk, SetStatus
<1>3. CASE ~CanTransition(status[e], "RUNNING", TRUE)
  BY <1>1, <1>3 DEF UnlockRisk
<1> QED
  BY <1>2, <1>3

\* ResumeProbed: a paused engine or one that lost its connection runs again, if
\* risk is not locked.
LEMMA ResumeOutcomes ==
  ASSUME TypeOK, NEW c \in Call, NEW up \in BOOLEAN, ResumeProbed(c, up), call[c].eng \in Engine
  PROVE  \/ /\ ~riskLocked[call[c].eng]
            /\ status[call[c].eng] \in {"STARTING", "PAUSED", "CONNECTION_LOST"}
            /\ status' = [status EXCEPT ![call[c].eng] = "RUNNING"]
         \/ status' = status
<1>1. CanTransition(status[call[c].eng], "RUNNING", FALSE)
        <=> status[call[c].eng] \in {"STARTING", "PAUSED", "CONNECTION_LOST"}
  BY Table DEF TypeOK
<1>2. CASE up /\ MayResume(call[c].eng)
  BY <1>1, <1>2 DEF ResumeProbed, MayResume, SetStatus
<1>3. CASE ~(up /\ MayResume(call[c].eng))
  BY <1>3 DEF ResumeProbed
<1> QED
  BY <1>2, <1>3


\* Writing a request keeps the requests well formed and the other ones as they are.
LEMMA CallUpdate ==
  ASSUME call \in [Call -> Request], NEW c \in Call, NEW r \in Request, call' = [call EXCEPT ![c] = r]
  PROVE  /\ call' \in [Call -> Request]
         /\ call'[c] = r
         /\ \A d \in Call \ {c} : call'[d] = call[d]
OBVIOUS

\* What a request is made of.
LEMMA RequestTypes ==
  ASSUME call \in [Call -> Request], NEW c \in Call
  PROVE  /\ call[c].pc \in CallPC
         /\ call[c].eng \in Engine \union {NoEngine}
         /\ call[c].ses \in Session \union {NoSession}
BY DEF Request

\* A request that moves without touching an engine, to an await where it holds
\* on to nothing or to an engine it only wants to resume, keeps the invariant.
LEMMA FrameKeepsInv ==
  ASSUME Inv, NEW c \in Call,
         call' \in [Call -> Request], \A d \in Call \ {c} : call'[d] = call[d],
         \/ call'[c].pc \in {"idle", "disconnecting"}
         \/ call'[c].pc = "resuming" /\ call'[c].eng \in Engine
         \/ call'[c].pc \in {"probing", "listing"} /\ (call[c].pc \in Starting \/ LockFree),
         session' \in [Session -> {"absent", "connected", "disconnected"}],
         adrift' \subseteq Engine \union Call,
         bySession' \in [Session -> Engine \union {NoEngine}],
         \A s \in Session : bySession'[s] \in {bySession[s], NoEngine},
         UNCHANGED <<engineVars, workerVars, lifeVars, late>>
  PROVE  Inv'
<1> USE LifecycleAssumption
    DEF Inv, TypeOK, CallInv, LockInv, ReferenceInv, WorkerInv, FailureInv, LateInv, LockedInv,
        StoppedIsQuiet, ActiveOrderWhilePlacing, RiskLockHolds, ErrorEndsWork,
        WorkerPC, Alive, BeforeOrder, Probing, Placing, Starting, Stopping, CallPC, Status,
        engineVars, workerVars, sessionVars, lifeVars
<1>1. TypeOK'
  OBVIOUS
<1>2. CallInv'
  OBVIOUS
<1>3. LockInv'
  BY DEF LockFree
<1>4. ReferenceInv' /\ WorkerInv' /\ FailureInv' /\ LateInv' /\ LockedInv'
  OBVIOUS
<1>5. StoppedIsQuiet' /\ ActiveOrderWhilePlacing' /\ RiskLockHolds' /\ ErrorEndsWork'
  OBVIOUS
<1> QED
  BY <1>1, <1>2, <1>3, <1>4, <1>5

LEMMA InitInv == Init => Inv
<1> SUFFICES ASSUME Init PROVE Inv
  OBVIOUS
<1>1. Idle \in Request
  BY DEF Idle, Request, CallPC
<1>2. TypeOK
  <2>1. call \in [Call -> Request]
    BY <1>1 DEF Init
  <2>2. /\ status \in [Engine -> Status \union {"NONE"}]
        /\ owner \in [Engine -> Session \union {NoSession}]
        /\ worker \in [Engine -> WorkerPC]
        /\ failures \in [Engine -> 0..3]
    BY DEF Init, WorkerPC, Status
  <2>3. /\ late \in [Engine -> Nat]
        /\ bySession \in [Session -> Engine \union {NoEngine}]
        /\ session \in [Session -> {"absent", "connected", "disconnected"}]
    BY DEF Init
  <2> QED
    BY <2>1, <2>2, <2>3 DEF Init, TypeOK
<1>3. CallInv /\ LockInv /\ ReferenceInv
  BY DEF Init, Idle, CallInv, LockInv, ReferenceInv, Starting, Stopping
<1>4. WorkerInv /\ FailureInv /\ LateInv /\ LockedInv
  BY DEF Init, WorkerInv, FailureInv, LateInv, LockedInv
<1>5. StoppedIsQuiet /\ ActiveOrderWhilePlacing /\ RiskLockHolds /\ ErrorEndsWork
  BY DEF Init, StoppedIsQuiet, ActiveOrderWhilePlacing, RiskLockHolds, ErrorEndsWork,
         Alive, BeforeOrder, Placing
<1> QED
  BY <1>2, <1>3, <1>4, <1>5 DEF Inv

\* start, holding manager.lock.
LEMMA StartKeepsInv ==
  ASSUME Inv, NEW c \in Call, StartStep(c) \/ \E s \in Session : StartRequest(c, s)
  PROVE  Inv'
<1> USE LifecycleAssumption
    DEF Inv, TypeOK, CallInv, LockInv, ReferenceInv, WorkerInv, FailureInv, LateInv, LockedInv,
        StoppedIsQuiet, ActiveOrderWhilePlacing, RiskLockHolds, ErrorEndsWork,
        WorkerPC, Alive, BeforeOrder, Probing, Placing, Starting, Stopping, CallPC, Status,
        engineVars, workerVars, sessionVars, lifeVars
<1>1. ASSUME NEW s \in Session, StartRequest(c, s) PROVE Inv'
  <2> DEFINE r == [pc |-> "probing", op |-> "start", eng |-> NoEngine, ses |-> s]
  <2>1. r \in Request /\ call' = [call EXCEPT ![c] = r]
    BY <1>1 DEF StartRequest, Request
  <2>2. /\ call' \in [Call -> Request]
        /\ call'[c].pc = "probing"
        /\ \A d \in Call \ {c} : call'[d] = call[d]
    BY <2>1, CallUpdate
  <2> QED
    BY <1>1, <2>2, FrameKeepsInv DEF StartRequest
<1>2. ASSUME NEW up \in BOOLEAN, StartProbed(c, up) PROVE Inv'
  <2>1. /\ session' \in [Session -> {"absent", "connected", "disconnected"}]
        /\ adrift' \subseteq Engine \union Call
    BY <1>2, AnswerTypes DEF StartProbed
  <2>2. CASE Goto(c, "listing")
    <3>1. call \in [Call -> Request] /\ "listing" \in CallPC
      OBVIOUS
    <3>2. /\ call' \in [Call -> Request]
          /\ call'[c] = [pc |-> "listing", op |-> call[c].op, eng |-> call[c].eng, ses |-> call[c].ses]
          /\ \A d \in Call \ {c} : call'[d] = call[d]
      BY <2>2, <3>1, GotoTypes, Zenon
    <3> QED
      BY <1>2, <2>1, <3>2, FrameKeepsInv, SMTT(30) DEF StartProbed
  <2>3. CASE Return(c)
    BY <1>2, <2>1, <2>3, ReturnTypes, FrameKeepsInv DEF StartProbed, Idle
  <2> QED
    BY <1>2, <2>2, <2>3 DEF StartProbed
<1>3. ASSUME NEW e \in Engine, StartCreates(c, e) PROVE Inv'
  <2> DEFINE s == call[c].ses
  <2>1. /\ s \in Session \union {NoSession}
        /\ call[c].pc = "listing"
        /\ worker[e] = "absent" /\ ~activeOrder[e] /\ ~riskLocked[e] /\ late[e] <= 1
    BY <1>3, RequestTypes DEF StartCreates
  <2>2. /\ status' = [status EXCEPT ![e] = "STARTING"]
        /\ owner' = [owner EXCEPT ![e] = s]
        /\ bySession' = [bySession EXCEPT ![s] = e]
    BY <1>3 DEF StartCreates, SetStatus
  <2>3. /\ call' \in [Call -> Request]
        /\ call'[c].pc = "starting" /\ call'[c].eng = e
        /\ \A d \in Call \ {c} : call'[d] = call[d]
    <3> DEFINE r == [pc |-> "starting", op |-> "start", eng |-> e, ses |-> s]
    <3>1. r \in Request
      BY <2>1 DEF Request
    <3> QED
      BY <1>3, <3>1, CallUpdate DEF StartCreates
  <2>4. UNCHANGED <<stopEvent, finished, riskLocked, activeOrder, workerVars,
                    sessionVars, lifeVars, late>>
    BY <1>3 DEF StartCreates
  <2> HIDE DEF s
  <2>5. TypeOK'
    BY <2>1, <2>2, <2>3, <2>4
  <2>6. CallInv' /\ LockInv'
    BY <1>3, <2>1, <2>2, <2>3, <2>4 DEF StartCreates
  <2>7. ReferenceInv' /\ WorkerInv' /\ FailureInv' /\ LateInv' /\ LockedInv'
    BY <1>3, <2>1, <2>2, <2>4 DEF StartCreates
  <2>8. StoppedIsQuiet' /\ ActiveOrderWhilePlacing' /\ RiskLockHolds' /\ ErrorEndsWork'
    BY <2>1, <2>2, <2>4
  <2> QED
    BY <2>5, <2>6, <2>7, <2>8
<1>4. ASSUME StartRuns(c) PROVE Inv'
  <2> DEFINE e == call[c].eng
  <2>1. /\ e \in Engine /\ worker[e] = "absent"
        /\ UNCHANGED <<owner, stopEvent, finished, riskLocked, activeOrder, workerVars,
                       bySession, sessionVars, lifeVars, late>>
        /\ call[c].pc = "starting"
    BY <1>4 DEF StartRuns
  <2>2. CASE /\ status[e] \in {"STARTING", "PAUSED", "CONNECTION_LOST"}
             /\ status' = [status EXCEPT ![e] = "RUNNING"]
             /\ Goto(c, "launching")
    <3>0. call \in [Call -> Request] /\ "launching" \in CallPC
      OBVIOUS
    <3>1. /\ call' \in [Call -> Request]
          /\ call'[c] = [pc |-> "launching", op |-> call[c].op, eng |-> e, ses |-> call[c].ses]
          /\ \A d \in Call \ {c} : call'[d] = call[d]
      BY <2>2, <3>0, GotoTypes, Zenon
    <3> HIDE DEF e
    <3>2. TypeOK'
      BY <2>1, <2>2, <3>1
    <3>3. CallInv' /\ LockInv'
      <4>1. call'[c].pc = "launching" /\ call'[c].eng = e
        BY <3>1
      <4>2. \A d \in Call \ {c} : call[d].pc \notin Starting
        BY <2>1
      <4>3. LockInv'
        BY <3>1, <4>2
      <4>4. ASSUME NEW d \in Call \ {c} PROVE CallInv!(d)'
        BY <2>1, <2>2, <3>1, <4>2
      <4> QED
        BY <2>1, <2>2, <3>1, <4>1, <4>3, <4>4
    <3>4. ReferenceInv' /\ WorkerInv' /\ FailureInv' /\ LateInv' /\ LockedInv'
      BY <2>1, <2>2
    <3>5. StoppedIsQuiet' /\ ActiveOrderWhilePlacing' /\ RiskLockHolds' /\ ErrorEndsWork'
      BY <2>1, <2>2
    <3> QED
      BY <3>2, <3>3, <3>4, <3>5
  <2>3. CASE status' = status /\ Return(c)
    BY <2>1, <2>3, ReturnTypes, FrameKeepsInv DEF Idle
  <2> QED
    BY <1>4, <2>1, <2>2, <2>3, StartRunsOutcomes
<1>5. ASSUME StartLaunches(c) PROVE Inv'
  <2> DEFINE e == call[c].eng
  <2>1. /\ e \in Engine /\ worker[e] = "absent"
        /\ status[e] \notin {"NONE", "STARTING"}
        /\ call[c].pc = "launching"
        /\ worker' = [worker EXCEPT ![e] = "top"]
        /\ UNCHANGED <<engineVars, failures, armed, bySession, sessionVars, lifeVars, late>>
    BY <1>5 DEF StartLaunches
  <2>2. /\ call' \in [Call -> Request]
        /\ call'[c].pc = "idle"
        /\ \A d \in Call \ {c} : call'[d] = call[d]
    BY <1>5, ReturnTypes DEF StartLaunches, Idle
  <2> HIDE DEF e
  <2>3. TypeOK'
    BY <2>1, <2>2
  <2>4. CallInv' /\ LockInv'
    BY <2>1, <2>2, SMTT(30)
  <2>5. ReferenceInv' /\ WorkerInv' /\ FailureInv' /\ LateInv' /\ LockedInv'
    BY <2>1
  <2>6. StoppedIsQuiet' /\ ActiveOrderWhilePlacing' /\ RiskLockHolds' /\ ErrorEndsWork'
    BY <2>1
  <2> QED
    BY <2>3, <2>4, <2>5, <2>6
<1>6. ASSUME StartRaises(c) PROVE Inv'
  BY <1>6, ReturnTypes, FrameKeepsInv DEF StartRaises, Idle
<1> QED
  BY <1>1, <1>2, <1>3, <1>4, <1>5, <1>6 DEF StartStep

\* Beginning to stop an engine, for a client, for DELETE or at the shutdown.
LEMMA BeginStopKeepsInv ==
  ASSUME Inv, NEW c \in Call, NEW op \in {"stop", "delete"}, NEW e \in Engine,
         call[c].pc = "idle", status[e] # "NONE",
         BeginStop(c, op, e), toStop' \subseteq toStop, closing' \in BOOLEAN,
         UNCHANGED <<owner, finished, riskLocked, activeOrder, workerVars, bySession, sessionVars>>
  PROVE  Inv'
<1> USE LifecycleAssumption
    DEF Inv, TypeOK, CallInv, LockInv, ReferenceInv, WorkerInv, FailureInv, LateInv, LockedInv,
        StoppedIsQuiet, ActiveOrderWhilePlacing, RiskLockHolds, ErrorEndsWork,
        WorkerPC, Alive, BeforeOrder, Probing, Placing, Starting, Stopping, CallPC, Status,
        engineVars, workerVars, sessionVars, lifeVars
<1>1. CASE status[e] = "STOPPING"
  <2>1. /\ status' = status
        /\ stopEvent' = [stopEvent EXCEPT ![e] = TRUE]
        /\ late' = IF stopEvent[e] THEN late ELSE [late EXCEPT ![e] = 0]
        /\ call' = [call EXCEPT ![c] = [pc |-> "waiting", op |-> op, eng |-> e, ses |-> owner[e]]]
    BY <1>1, BeginStopOutcomes
  <2>2. [pc |-> "waiting", op |-> op, eng |-> e, ses |-> owner[e]] \in Request
    BY DEF Request
  <2>3. /\ call' \in [Call -> Request]
        /\ call'[c].pc = "waiting" /\ call'[c].eng = e
        /\ \A d \in Call \ {c} : call'[d] = call[d]
    BY <2>1, <2>2, CallUpdate
  <2>4. TypeOK'
    BY <2>1, <2>3
  <2>5. CallInv' /\ LockInv'
    BY <1>1, <2>1, <2>3
  <2>6. ReferenceInv' /\ WorkerInv' /\ FailureInv' /\ LateInv' /\ LockedInv'
    BY <1>1, <2>1
  <2>7. StoppedIsQuiet' /\ ActiveOrderWhilePlacing' /\ RiskLockHolds' /\ ErrorEndsWork'
    BY <1>1, <2>1
  <2> QED
    BY <2>4, <2>5, <2>6, <2>7
<1>2. CASE status[e] # "STOPPING"
  <2>1. /\ status[e] \in Status \ {"STOPPING", "STOPPED"}
        /\ status' = [status EXCEPT ![e] = "STOPPING"]
        /\ UNCHANGED <<stopEvent, late>>
        /\ call' = [call EXCEPT ![c] = [pc |-> "stopping", op |-> op, eng |-> e, ses |-> owner[e]]]
    BY <1>2, BeginStopOutcomes
  <2>2. [pc |-> "stopping", op |-> op, eng |-> e, ses |-> owner[e]] \in Request
    BY DEF Request
  <2>3. /\ call' \in [Call -> Request]
        /\ call'[c].pc = "stopping" /\ call'[c].eng = e
        /\ \A d \in Call \ {c} : call'[d] = call[d]
    BY <2>1, <2>2, CallUpdate
  <2>4. TypeOK'
    BY <2>1, <2>3
  <2>5. CallInv' /\ LockInv'
    BY <1>2, <2>1, <2>3
  <2>6. ReferenceInv' /\ WorkerInv' /\ FailureInv' /\ LateInv' /\ LockedInv'
    BY <1>2, <2>1
  <2>7. StoppedIsQuiet' /\ ActiveOrderWhilePlacing' /\ RiskLockHolds' /\ ErrorEndsWork'
    BY <1>2, <2>1, SMTT(30)
  <2> QED
    BY <2>4, <2>5, <2>6, <2>7
<1> QED
  BY <1>1, <1>2

\* stop and DELETE.
LEMMA StopKeepsInv ==
  ASSUME Inv, NEW c \in Call,
         \/ StopStep(c)
         \/ \E e \in Engine : StopRequest(c, e) \/ ShutdownStops(c, e)
         \/ \E s \in Session : DeleteStops(c, s) \/ DeleteDisconnects(c, s)
  PROVE  Inv'
<1> USE LifecycleAssumption
    DEF Inv, TypeOK, CallInv, LockInv, ReferenceInv, WorkerInv, FailureInv, LateInv, LockedInv,
        StoppedIsQuiet, ActiveOrderWhilePlacing, RiskLockHolds, ErrorEndsWork,
        WorkerPC, Alive, BeforeOrder, Probing, Placing, Starting, Stopping, CallPC, Status,
        engineVars, workerVars, sessionVars, lifeVars
<1>1. ASSUME NEW e \in Engine, StopRequest(c, e) PROVE Inv'
  BY <1>1, BeginStopKeepsInv DEF StopRequest, Free, Known
<1>2. ASSUME NEW e \in Engine, ShutdownStops(c, e) PROVE Inv'
  BY <1>2, BeginStopKeepsInv DEF ShutdownStops
<1>3. ASSUME NEW s \in Session, DeleteStops(c, s) PROVE Inv'
  BY <1>3, BeginStopKeepsInv DEF DeleteStops, Free, SessionIsFree
<1>4. ASSUME NEW s \in Session \union {NoSession},
             call' = [call EXCEPT ![c] = [pc |-> "disconnecting", op |-> "delete",
                                          eng |-> NoEngine, ses |-> s]]
      PROVE  /\ call' \in [Call -> Request]
             /\ call'[c].pc = "disconnecting"
             /\ \A d \in Call \ {c} : call'[d] = call[d]
  <2>1. [pc |-> "disconnecting", op |-> "delete", eng |-> NoEngine, ses |-> s] \in Request
    BY DEF Request
  <2> QED
    BY <1>4, <2>1, CallUpdate
<1>5. ASSUME NEW s \in Session, DeleteDisconnects(c, s) PROVE Inv'
  <2>1. /\ call' \in [Call -> Request]
        /\ call'[c].pc = "disconnecting"
        /\ \A d \in Call \ {c} : call'[d] = call[d]
    BY <1>4, <1>5 DEF DeleteDisconnects, BeginDisconnect
  <2> QED
    BY <1>5, <2>1, FrameKeepsInv, SMTT(30) DEF DeleteDisconnects
<1>6. ASSUME StopSignals(c) PROVE Inv'
  <2> DEFINE e == call[c].eng
  <2>1. call[c].pc = "stopping" /\ e \in Engine
    BY <1>6 DEF StopSignals
  <2>2. call \in [Call -> Request] /\ "waiting" \in CallPC
    OBVIOUS
  <2>3. /\ call' \in [Call -> Request]
        /\ call'[c] = [pc |-> "waiting", op |-> call[c].op, eng |-> e, ses |-> call[c].ses]
        /\ \A d \in Call \ {c} : call'[d] = call[d]
    BY <1>6, <2>2, GotoTypes, Zenon DEF StopSignals
  <2>4. /\ stopEvent' = [stopEvent EXCEPT ![e] = TRUE]
        /\ late' = IF stopEvent[e] THEN late ELSE [late EXCEPT ![e] = 0]
        /\ UNCHANGED <<status, owner, finished, riskLocked, activeOrder, workerVars,
                       bySession, sessionVars, lifeVars>>
    BY <1>6 DEF StopSignals, SetStopEvent
  <2> HIDE DEF e
  <2>5. TypeOK'
    BY <2>1, <2>3, <2>4
  <2>6. CallInv' /\ LockInv'
    <3>1. call'[c].pc = "waiting" /\ call'[c].eng = e /\ stopEvent'[e]
      BY <2>1, <2>3, <2>4
    <3>2. LockInv'
      BY <2>3, <3>1
    <3>3. ASSUME NEW d \in Call \ {c} PROVE CallInv!(d)'
      BY <2>1, <2>3, <2>4
    <3>4. CallInv!(c)'
      BY <2>1, <2>4, <3>1 DEF e
    <3> QED
      BY <3>2, <3>3, <3>4
  <2>7. ReferenceInv' /\ WorkerInv' /\ FailureInv' /\ LateInv' /\ LockedInv'
    <3>1. ReferenceInv' /\ FailureInv' /\ LockedInv'
      BY <2>1, <2>4
    <3>2. status[e] \in {"STOPPING", "STOPPED"}
      BY <2>1 DEF e
    <3>3. WorkerInv'
      BY <2>1, <2>4, <3>2
    <3>4. LateInv'
      BY <2>1, <2>4
    <3> QED
      BY <3>1, <3>3, <3>4
  <2>8. StoppedIsQuiet' /\ ActiveOrderWhilePlacing' /\ RiskLockHolds' /\ ErrorEndsWork'
    BY <2>1, <2>4
  <2> QED
    BY <2>5, <2>6, <2>7, <2>8
<1>7. ASSUME StopWaited(c) PROVE Inv'
  <2> DEFINE e == call[c].eng
  <2>1. /\ e \in Engine /\ status[e] \in {"STOPPING", "STOPPED"} /\ stopEvent[e]
        /\ call[c].pc = "waiting"
        /\ UNCHANGED <<owner, stopEvent, finished, riskLocked, activeOrder, failures, armed,
                       bySession, sessionVars, lifeVars, late>>
    BY <1>7 DEF StopWaited
  <2>2. worker' = IF ~finished[e] /\ worker[e] \in Alive
                  THEN [worker EXCEPT ![e] = "cancelled"]
                  ELSE worker
    BY <1>7, <2>1, StopWaitedOutcomes
  <2>3. /\ status' = [status EXCEPT ![e] = "STOPPED"]
        /\ call' \in [Call -> Request]
        /\ call'[c].pc \in {"stopped", "idle"}
        /\ call'[c].pc = "stopped" => call'[c].eng = e
        /\ \A d \in Call \ {c} : call'[d] = call[d]
    <3>1. call \in [Call -> Request] /\ "stopped" \in CallPC
      OBVIOUS
    <3>2. CASE status[e] = "STOPPING"
      <4>1. status' = [status EXCEPT ![e] = "STOPPED"] /\ Goto(c, "stopped")
        BY <1>7, <2>1, <3>2, StopWaitedOutcomes
      <4>2. /\ call' \in [Call -> Request]
            /\ call'[c] = [pc |-> "stopped", op |-> call[c].op, eng |-> e, ses |-> call[c].ses]
            /\ \A d \in Call \ {c} : call'[d] = call[d]
        BY <3>1, <4>1, GotoTypes, Zenon
      <4> QED
        BY <4>1, <4>2
    <3>3. CASE status[e] = "STOPPED"
      <4>1. status' = status /\ Return(c)
        BY <1>7, <2>1, <3>3, StopWaitedOutcomes
      <4> QED
        BY <2>1, <3>3, <4>1, ReturnTypes DEF Idle
    <3> QED
      BY <2>1, <3>2, <3>3
  <2> HIDE DEF e
  <2>4. TypeOK'
    BY <2>1, <2>2, <2>3
  <2>5. CallInv' /\ LockInv'
    <3>1. LockInv'
      BY <2>1, <2>3
    <3>2. ASSUME NEW d \in Call \ {c} PROVE CallInv!(d)'
      BY <2>1, <2>2, <2>3
    <3>3. CallInv!(c)'
      BY <2>1, <2>3
    <3> QED
      BY <3>1, <3>2, <3>3
  <2>6. ReferenceInv' /\ WorkerInv' /\ FailureInv' /\ LateInv' /\ LockedInv'
    BY <2>1, <2>2, <2>3
  <2>7. StoppedIsQuiet' /\ ActiveOrderWhilePlacing' /\ RiskLockHolds' /\ ErrorEndsWork'
    BY <2>1, <2>2, <2>3
  <2> QED
    BY <2>4, <2>5, <2>6, <2>7
<1>8. ASSUME StopReturns(c) PROVE Inv'
  <2>1. /\ call' \in [Call -> Request]
        /\ call'[c].pc \in {"idle", "disconnecting"}
        /\ \A d \in Call \ {c} : call'[d] = call[d]
    <3>1. CASE Return(c)
      BY <3>1, ReturnTypes DEF Idle
    <3>2. CASE call' = [call EXCEPT ![c] = [pc |-> "disconnecting", op |-> "delete",
                                            eng |-> NoEngine, ses |-> call[c].ses]]
      <4>1. call[c].ses \in Session \union {NoSession}
        BY RequestTypes
      <4> QED
        BY <1>4, <3>2, <4>1
    <3> QED
      BY <1>8, <3>1, <3>2 DEF StopReturns, BeginDisconnect
  <2>2. /\ bySession' \in [Session -> Engine \union {NoEngine}]
        /\ \A s \in Session : bySession'[s] \in {bySession[s], NoEngine}
    <3> DEFINE t == call[c].ses
    <3>1. bySession' = [bySession EXCEPT ![t] = NoEngine]
      BY <1>8 DEF StopReturns
    <3>2. /\ bySession \in [Session -> Engine \union {NoEngine}]
          /\ DOMAIN bySession = Session
      OBVIOUS
    <3> HIDE DEF t
    <3>3. bySession' = [s \in Session |-> IF s = t THEN NoEngine ELSE bySession[s]]
      BY <3>1, <3>2, Zenon
    <3> QED
      BY <3>2, <3>3
  <2> QED
    BY <1>8, <2>1, <2>2, FrameKeepsInv, SMTT(30) DEF StopReturns
<1>9. ASSUME StopRaises(c) PROVE Inv'
  BY <1>9, ReturnTypes, FrameKeepsInv DEF StopRaises, Idle
<1>10. ASSUME Disconnected(c) PROVE Inv'
  <2>1. /\ adrift' \subseteq Engine \union Call
        /\ session' \in [Session -> {"absent", "connected", "disconnected"}]
    BY <1>10 DEF Disconnected, Probers
  <2>2. Return(c)
    BY <1>10, SMTT(30) DEF Disconnected
  <2> QED
    BY <1>10, <2>1, <2>2, ReturnTypes, FrameKeepsInv DEF Disconnected, Idle
<1> QED
  BY <1>1, <1>2, <1>3, <1>5, <1>6, <1>7, <1>8, <1>9, <1>10 DEF StopStep

\* The other requests.
LEMMA RequestsKeepInv ==
  ASSUME Inv,
         \/ \E s \in Session, up \in BOOLEAN : Connect(s, up)
         \/ \E e \in Engine : Pause(e) \/ UnlockRisk(e)
         \/ \E c \in Call : ResumeStep(c) \/ \E e \in Engine : ResumeRequest(c, e)
         \/ Shutdown
  PROVE  Inv'
<1> USE LifecycleAssumption
    DEF Inv, TypeOK, CallInv, LockInv, ReferenceInv, WorkerInv, FailureInv, LateInv, LockedInv,
        StoppedIsQuiet, ActiveOrderWhilePlacing, RiskLockHolds, ErrorEndsWork,
        WorkerPC, Alive, BeforeOrder, Probing, Placing, Starting, Stopping, CallPC, Status,
        engineVars, workerVars, sessionVars, lifeVars
<1>1. ASSUME NEW s \in Session, NEW up \in BOOLEAN, Connect(s, up) PROVE Inv'
  BY <1>1 DEF Connect
<1>2. ASSUME NEW e \in Engine, Pause(e) PROVE Inv'
  <2>1. status[e] = "RUNNING" /\ status' = [status EXCEPT ![e] = "PAUSED"]
    BY <1>2, Table, ZenonT(40) DEF Pause, SetStatus
  <2> QED
    BY <1>2, <2>1 DEF Pause, Known
<1>3. ASSUME NEW e \in Engine, UnlockRisk(e) PROVE Inv'
  <2>1. CASE /\ status[e] \in {"STARTING", "PAUSED", "CONNECTION_LOST", "RISK_LOCKED"}
             /\ status' = [status EXCEPT ![e] = "RUNNING"]
    BY <1>3, <2>1 DEF UnlockRisk, Known
  <2>2. CASE /\ status[e] \notin {"STARTING", "PAUSED", "CONNECTION_LOST", "RISK_LOCKED"}
             /\ status' = status
    BY <1>3, <2>2 DEF UnlockRisk, Known
  <2> QED
    BY <1>3, <2>1, <2>2, UnlockOutcomes
<1>4. ASSUME NEW c \in Call, NEW e \in Engine, ResumeRequest(c, e) PROVE Inv'
  <2>1. [pc |-> "resuming", op |-> "resume", eng |-> e, ses |-> owner[e]] \in Request
    BY DEF Request
  <2>2. /\ call' \in [Call -> Request]
        /\ call'[c].pc = "resuming" /\ call'[c].eng = e
        /\ \A d \in Call \ {c} : call'[d] = call[d]
    BY <1>4, <2>1, CallUpdate DEF ResumeRequest
  <2> QED
    BY <1>4, <2>2, FrameKeepsInv DEF ResumeRequest
<1>5. ASSUME NEW c \in Call, NEW up \in BOOLEAN, ResumeProbed(c, up) PROVE Inv'
  <2> DEFINE e == call[c].eng
  <2>1. /\ session' \in [Session -> {"absent", "connected", "disconnected"}]
        /\ adrift' \subseteq Engine \union Call
    BY <1>5, AnswerTypes DEF ResumeProbed
  <2>2. /\ call' \in [Call -> Request]
        /\ call'[c].pc = "idle"
        /\ \A d \in Call \ {c} : call'[d] = call[d]
    BY <1>5, ReturnTypes DEF ResumeProbed, Idle
  <2>3. /\ e \in Engine
        /\ UNCHANGED <<owner, stopEvent, finished, riskLocked, activeOrder, workerVars,
                       bySession, lifeVars, late>>
    BY <1>5 DEF ResumeProbed
  <2>4. CASE /\ ~riskLocked[e]
             /\ status[e] \in {"STARTING", "PAUSED", "CONNECTION_LOST"}
             /\ status' = [status EXCEPT ![e] = "RUNNING"]
    <3> HIDE DEF e
    <3>1. TypeOK'
      BY <2>1, <2>2, <2>3, <2>4
    <3>2. CallInv' /\ LockInv'
      BY <2>2, <2>3, <2>4, SMTT(30)
    <3>3. ReferenceInv' /\ WorkerInv' /\ FailureInv' /\ LateInv' /\ LockedInv'
      BY <2>3, <2>4
    <3>4. StoppedIsQuiet' /\ ActiveOrderWhilePlacing' /\ RiskLockHolds' /\ ErrorEndsWork'
      BY <2>3, <2>4
    <3> QED
      BY <3>1, <3>2, <3>3, <3>4
  <2>5. CASE status' = status
    BY <2>1, <2>2, <2>3, <2>5, FrameKeepsInv, ZenonT(40)
  <2> QED
    BY <1>5, <2>3, <2>4, <2>5, ResumeOutcomes
<1>6. ASSUME NEW c \in Call, ResumeRaises(c) PROVE Inv'
  BY <1>6, ReturnTypes, FrameKeepsInv, SMTT(30) DEF ResumeRaises, Idle
<1>7. ASSUME Shutdown PROVE Inv'
  BY <1>7 DEF Shutdown
<1> QED
  BY <1>1, <1>2, <1>3, <1>4, <1>5, <1>6, <1>7 DEF ResumeStep

\* A step of a worker only: what it must keep for its engine.  Requests hold on
\* to other things, and the parts of the invariant about them follow.
LEMMA WorkerFrame ==
  ASSUME Inv, NEW e \in Engine, TypeOK',
         worker[e] # "absent", worker'[e] # "absent",
         status'[e] = status[e] \/ (status[e] \notin {"NONE", "STOPPING", "STOPPED"} /\ status'[e] # "NONE"),
         \A f \in Engine \ {e} :
            /\ status'[f] = status[f] /\ worker'[f] = worker[f] /\ finished'[f] = finished[f]
            /\ stopEvent'[f] = stopEvent[f] /\ riskLocked'[f] = riskLocked[f]
            /\ activeOrder'[f] = activeOrder[f] /\ failures'[f] = failures[f]
            /\ armed'[f] = armed[f] /\ late'[f] = late[f],
         stopEvent[e] => stopEvent'[e],
         WorkerInv!(e)', FailureInv!(e)', LateInv!(e)', LockedInv!(e)',
         StoppedIsQuiet!(e)', ActiveOrderWhilePlacing!(e)', RiskLockHolds!(e)', ErrorEndsWork!(e)',
         UNCHANGED <<owner, bySession, call, lifeVars>>
  PROVE  Inv'
<1> USE LifecycleAssumption
    DEF Inv, TypeOK, CallInv, LockInv, ReferenceInv, WorkerInv, FailureInv, LateInv, LockedInv,
        StoppedIsQuiet, ActiveOrderWhilePlacing, RiskLockHolds, ErrorEndsWork,
        WorkerPC, Alive, BeforeOrder, Probing, Placing, Starting, Stopping, CallPC, Status,
        engineVars, workerVars, sessionVars, lifeVars
<1>1. CallInv' /\ LockInv' /\ ReferenceInv'
  OBVIOUS
<1>2. WorkerInv' /\ FailureInv'
  BY SMTT(30)
<1>3. LateInv' /\ LockedInv'
  BY SMTT(30)
<1>4. StoppedIsQuiet' /\ ActiveOrderWhilePlacing'
  OBVIOUS
<1>5. RiskLockHolds' /\ ErrorEndsWork'
  BY SMTT(30)
<1> QED
  BY <1>1, <1>2, <1>3, <1>4, <1>5

\* An exception that leaves the loop of a worker.
LEMMA RaiseKeepsInv ==
  ASSUME Inv, NEW e \in Engine, Raise(e),
         worker[e] \in Alive \ {"crashing"}, ~(worker[e] = "top" /\ stopEvent[e]),
         worker[e] = "failing" => status[e] # "STARTING",
         \A f \in Engine \ {e} : failures'[f] = failures[f],
         failures' \in [Engine -> 0..3],
         session' \in [Session -> {"absent", "connected", "disconnected"}],
         adrift' \subseteq Engine \union Call,
         UNCHANGED <<owner, stopEvent, riskLocked, activeOrder, armed, bySession, call, lifeVars, late>>
  PROVE  Inv'
<1> USE LifecycleAssumption
    DEF Inv, TypeOK, CallInv, LockInv, ReferenceInv, WorkerInv, FailureInv, LateInv, LockedInv,
        StoppedIsQuiet, ActiveOrderWhilePlacing, RiskLockHolds, ErrorEndsWork,
        WorkerPC, Alive, BeforeOrder, Probing, Placing, Starting, Stopping, CallPC, Status,
        engineVars, workerVars, sessionVars, lifeVars
<1>1. CASE status[e] \in {"STARTING", "RUNNING", "CONNECTION_LOST"}
  <2>1. /\ status' = [status EXCEPT ![e] = "ERROR"]
        /\ worker' = [worker EXCEPT ![e] = "crashing"]
        /\ finished' = finished
    BY <1>1, RaiseOutcomes
  <2> QED
    BY <1>1, <2>1, WorkerFrame
<1>2. CASE status[e] \notin {"STARTING", "RUNNING", "CONNECTION_LOST"}
  <2>1. /\ status' = status
        /\ worker' = [worker EXCEPT ![e] = "done"]
        /\ finished' = [finished EXCEPT ![e] = TRUE]
    BY <1>2, RaiseOutcomes
  <2> QED
    BY <1>2, <2>1, WorkerFrame
<1> QED
  BY <1>1, <1>2

\* healthy() is false.
LEMMA UnhealthyKeepsInv ==
  ASSUME Inv, NEW e \in Engine, Unhealthy(e),
         worker[e] = "probing" \/ (worker[e] = "top" /\ ~stopEvent[e] /\ ~AtRest(e)),
         session' \in [Session -> {"absent", "connected", "disconnected"}],
         adrift' \subseteq Engine \union Call,
         UNCHANGED <<owner, stopEvent, riskLocked, activeOrder, armed, bySession, call, lifeVars, late>>
  PROVE  Inv'
<1> USE LifecycleAssumption
    DEF Inv, TypeOK, CallInv, LockInv, ReferenceInv, WorkerInv, FailureInv, LateInv, LockedInv,
        StoppedIsQuiet, ActiveOrderWhilePlacing, RiskLockHolds, ErrorEndsWork,
        WorkerPC, Alive, BeforeOrder, Probing, Placing, Starting, Stopping, CallPC, Status,
        engineVars, workerVars, sessionVars, lifeVars
<1>1. failures[e] \in 0..2 /\ failures' = [failures EXCEPT ![e] = failures[e] + 1]
  BY UnhealthyOutcomes
<1>2. CASE /\ status[e] \in {"RUNNING", "PAUSED"}
           /\ status' = [status EXCEPT ![e] = "CONNECTION_LOST"]
           /\ worker' = [worker EXCEPT ![e] = "lost"]
           /\ finished' = finished
  BY <1>1, <1>2, WorkerFrame DEF AtRest
<1>3. CASE status[e] \notin {"RUNNING", "PAUSED", "CONNECTION_LOST"} /\ Raise(e)
  BY <1>1, <1>3, RaiseKeepsInv
<1>4. CASE /\ status[e] = "CONNECTION_LOST" /\ failures[e] + 1 >= 3
           /\ status' = [status EXCEPT ![e] = "ERROR"]
           /\ worker' = [worker EXCEPT ![e] = "failing"]
           /\ finished' = finished
  BY <1>1, <1>4, WorkerFrame
<1>5. CASE /\ status[e] = "CONNECTION_LOST" /\ failures[e] + 1 < 3
           /\ status' = status
           /\ worker' = [worker EXCEPT ![e] = "top"]
           /\ finished' = finished
  BY <1>1, <1>5, WorkerFrame
<1> QED
  BY <1>2, <1>3, <1>4, <1>5, UnhealthyOutcomes

LEMMA ProbeFailsKeepsInv ==
  ASSUME Inv, NEW e \in Engine, WorkerProbeFails(e)
  PROVE  Inv'
<1>1. TypeOK
  BY DEF Inv
<1>2. /\ session' \in [Session -> {"absent", "connected", "disconnected"}]
      /\ adrift' \subseteq Engine \union Call
  BY <1>1, AnswerTypes DEF WorkerProbeFails
<1>3. /\ worker[e] = "probing" /\ Unhealthy(e)
      /\ UNCHANGED <<owner, stopEvent, riskLocked, activeOrder, armed, bySession, call,
                     lifeVars, late>>
  BY DEF WorkerProbeFails
<1> QED
  BY <1>2, <1>3, UnhealthyKeepsInv DEF lifeVars

\* The loop of a worker.
LEMMA LoopKeepsInv ==
  ASSUME Inv, NEW e \in Engine, LoopStep(e)
  PROVE  Inv'
<1> USE LifecycleAssumption
    DEF Inv, TypeOK, CallInv, LockInv, ReferenceInv, WorkerInv, FailureInv, LateInv, LockedInv,
        StoppedIsQuiet, ActiveOrderWhilePlacing, RiskLockHolds, ErrorEndsWork,
        WorkerPC, Alive, BeforeOrder, Probing, Placing, Starting, Stopping, CallPC, Status,
        engineVars, workerVars, sessionVars, lifeVars
<1> USE DEF Await, SetStatus
<1>1. ASSUME WorkerLeaves(e) PROVE Inv'
  <2>1. /\ worker[e] = "top" /\ stopEvent[e]
        /\ worker' = [worker EXCEPT ![e] = "done"]
        /\ finished' = [finished EXCEPT ![e] = TRUE]
        /\ UNCHANGED <<status, owner, stopEvent, riskLocked, activeOrder, failures, armed,
                       bySession, sessionVars, call, lifeVars, late>>
    BY <1>1 DEF WorkerLeaves
  <2>2. TypeOK'
    BY <2>1
  <2>3. WorkerInv!(e)' /\ FailureInv!(e)' /\ LateInv!(e)' /\ LockedInv!(e)'
    <3>1. worker'[e] = "done" /\ finished'[e]
      BY <2>1
    <3>2. WorkerInv!(e)'
      BY <2>1, <3>1
    <3>3. FailureInv!(e)' /\ LateInv!(e)'
      BY <2>1, <3>1
    <3>4. LockedInv!(e)'
      BY <2>1, <3>1
    <3> QED
      BY <3>2, <3>3, <3>4
  <2>4. /\ StoppedIsQuiet!(e)' /\ ActiveOrderWhilePlacing!(e)'
        /\ RiskLockHolds!(e)' /\ ErrorEndsWork!(e)'
    BY <2>1
  <2> QED
    BY <2>1, <2>2, <2>3, <2>4, WorkerFrame, SMTT(30)
<1>2. ASSUME WorkerProbes(e) PROVE Inv'
  BY <1>2, WorkerFrame DEF WorkerProbes, AtRest
<1>3. ASSUME WorkerFindsNoConnection(e) PROVE Inv'
  BY <1>3, UnhealthyKeepsInv DEF WorkerFindsNoConnection
<1>4. ASSUME WorkerProbeFails(e) PROVE Inv'
  BY <1>4, ProbeFailsKeepsInv, Zenon
<1>5. ASSUME WorkerLost(e) PROVE Inv'
  <2>1. CASE failures[e] >= 3 /\ Raise(e)
    BY <1>5, <2>1, RaiseKeepsInv DEF WorkerLost
  <2>2. CASE /\ failures[e] >= 3
             /\ status[e] \in {"STARTING", "RUNNING", "CONNECTION_LOST"}
             /\ status' = [status EXCEPT ![e] = "ERROR"]
             /\ worker' = [worker EXCEPT ![e] = "failing"]
             /\ finished' = finished
    BY <1>5, <2>2, WorkerFrame DEF WorkerLost
  <2>3. CASE failures[e] < 3
    <3>1. /\ worker[e] = "lost"
          /\ worker' = [worker EXCEPT ![e] = "top"]
          /\ UNCHANGED <<engineVars, failures, armed, bySession, sessionVars, call, lifeVars, late>>
      <4>1. ~(failures[e] >= 3)
        BY <2>3
      <4> QED
        BY <1>5, <4>1, Zenon DEF WorkerLost
    <3> QED
      BY <2>3, <3>1, WorkerFrame
  <2>4. CanTransition(status[e], "ERROR", FALSE)
          => status[e] \in {"STARTING", "RUNNING", "CONNECTION_LOST"}
    BY Table, ZenonT(40)
  <2>5. CASE failures[e] >= 3
    <3>1. Raise(e) \/ /\ CanTransition(status[e], "ERROR", FALSE)
                      /\ status' = [status EXCEPT ![e] = "ERROR"]
                      /\ worker' = [worker EXCEPT ![e] = "failing"]
                      /\ finished' = finished
      BY <1>5, <2>5, Zenon DEF WorkerLost
    <3> QED
      BY <2>1, <2>2, <2>4, <2>5, <3>1
  <2> QED
    BY <2>3, <2>5
<1>6. ASSUME WorkerGivesUp(e) PROVE Inv'
  BY <1>6, WorkerFrame DEF WorkerGivesUp, SetStopEvent
<1>7. ASSUME WorkerProbeSucceeds(e) PROVE Inv'
  <2>1. /\ session' \in [Session -> {"absent", "connected", "disconnected"}]
        /\ adrift' \subseteq Engine \union Call
    BY <1>7, AnswerTypes DEF WorkerProbeSucceeds
  <2>2. CASE status[e] = "CONNECTION_LOST"
    <3>1. /\ worker[e] = "probing"
          /\ worker' = [worker EXCEPT ![e] = "recovering"]
          /\ status' = [status EXCEPT ![e] = "RUNNING"]
          /\ failures' = [failures EXCEPT ![e] = 0]
          /\ UNCHANGED <<owner, stopEvent, finished, riskLocked, activeOrder, armed, bySession,
                         call, lifeVars, late>>
      BY <1>7, <2>2 DEF WorkerProbeSucceeds
    <3> QED
      BY <2>1, <2>2, <3>1, WorkerFrame
  <2>3. CASE status[e] # "CONNECTION_LOST"
    <3>1. /\ worker[e] = "probing"
          /\ worker' = [worker EXCEPT ![e] = "candles"]
          /\ failures' = [failures EXCEPT ![e] = 0]
          /\ UNCHANGED <<status, owner, stopEvent, finished, riskLocked, activeOrder, armed,
                         bySession, call, lifeVars, late>>
      BY <1>7, <2>3 DEF WorkerProbeSucceeds
    <3> QED
      BY <2>1, <2>3, <3>1, WorkerFrame
  <2> QED
    BY <2>2, <2>3
<1>8. ASSUME WorkerRecovered(e) PROVE Inv'
  BY <1>8, WorkerFrame, SMTT(30) DEF WorkerRecovered
<1> QED
  BY <1>1, <1>2, <1>3, <1>4, <1>5, <1>6, <1>7, <1>8 DEF LoopStep

\* One iteration of a worker.
LEMMA IterationKeepsInv ==
  ASSUME Inv, NEW e \in Engine, IterationStep(e)
  PROVE  Inv'
<1> USE LifecycleAssumption
    DEF Inv, TypeOK, CallInv, LockInv, ReferenceInv, WorkerInv, FailureInv, LateInv, LockedInv,
        StoppedIsQuiet, ActiveOrderWhilePlacing, RiskLockHolds, ErrorEndsWork,
        WorkerPC, Alive, BeforeOrder, Probing, Placing, Starting, Stopping, CallPC, Status,
        engineVars, workerVars, sessionVars, lifeVars
<1> USE DEF Await, SetStatus, Decide
<1>1. ASSUME NEW signal \in BOOLEAN, WorkerEvaluates(e, signal) PROVE Inv'
  <2> DEFINE locked == riskLocked[e] \/ e \in LossLimited
  <2>1. /\ worker[e] = "candles" /\ locked \in BOOLEAN
        /\ signal => ~locked /\ ~activeOrder[e]
        /\ riskLocked' = [riskLocked EXCEPT ![e] = locked]
        /\ armed' = [armed EXCEPT ![e] = signal]
        /\ UNCHANGED <<owner, stopEvent, finished, activeOrder, failures, bySession,
                       sessionVars, call, lifeVars, late>>
    BY <1>1 DEF WorkerEvaluates
  <2>2. ASSUME Checked(e, locked, signal) \/ (UNCHANGED status /\ Await(e, "payouts"))
        PROVE  Inv'
    <3> HIDE DEF locked
    <3>1. CASE status' = status /\ worker' = [worker EXCEPT ![e] = "payouts"]
      BY <2>1, <3>1, WorkerFrame
    <3>2. CASE /\ locked /\ status[e] = "RUNNING"
               /\ status' = [status EXCEPT ![e] = "RISK_LOCKED"]
               /\ worker' = [worker EXCEPT ![e] = "locking"]
      BY <2>1, <3>2, WorkerFrame
    <3>3. CASE ~(locked /\ status[e] = "RUNNING") /\ status' = status /\ Decide(e, signal)
      <4>1. CASE signal /\ worker' = [worker EXCEPT ![e] = "rechecking"]
        BY <2>1, <3>3, <4>1, WorkerFrame
      <4>2. CASE worker' = [worker EXCEPT ![e] = "recording"]
        BY <2>1, <3>3, <4>2, WorkerFrame
      <4> QED
        BY <3>3, <4>1, <4>2
    <3> QED
      BY <2>2, <3>1, <3>2, <3>3 DEF Checked
  <2>3. Checked(e, locked, signal) \/ (UNCHANGED status /\ Await(e, "payouts"))
    BY <1>1 DEF WorkerEvaluates
  <2> QED
    BY ONLY <2>2, <2>3
<1>2. ASSUME NEW enough \in BOOLEAN, WorkerChecksPayout(e, enough) PROVE Inv'
  <2>1. /\ worker[e] = "payouts"
        /\ armed' = [armed EXCEPT ![e] = armed[e] /\ enough]
        /\ UNCHANGED <<owner, stopEvent, finished, riskLocked, activeOrder, failures,
                       bySession, sessionVars, call, lifeVars, late>>
    BY <1>2 DEF WorkerChecksPayout
  <2>2. CASE /\ riskLocked[e] /\ status[e] = "RUNNING"
             /\ status' = [status EXCEPT ![e] = "RISK_LOCKED"]
             /\ worker' = [worker EXCEPT ![e] = "locking"]
    BY <2>1, <2>2, WorkerFrame
  <2>3. CASE /\ ~(riskLocked[e] /\ status[e] = "RUNNING")
             /\ status' = status /\ Decide(e, armed[e] /\ enough)
    BY <2>1, <2>3, WorkerFrame
  <2> QED
    BY <1>2, <2>2, <2>3 DEF WorkerChecksPayout, Checked
<1>3. ASSUME WorkerLocked(e) PROVE Inv'
  BY <1>3, WorkerFrame DEF WorkerLocked
<1>4. ASSUME NEW up \in BOOLEAN, WorkerRechecks(e, up) PROVE Inv'
  <2>1. /\ session' \in [Session -> {"absent", "connected", "disconnected"}]
        /\ adrift' \subseteq Engine \union Call
    BY <1>4, AnswerTypes DEF WorkerRechecks
  <2>2. /\ worker[e] = "rechecking"
        /\ UNCHANGED <<status, owner, stopEvent, finished, riskLocked, failures, armed,
                       bySession, call, lifeVars, late>>
    BY <1>4 DEF WorkerRechecks
  <2>3. CASE /\ activeOrder' = [activeOrder EXCEPT ![e] = TRUE]
             /\ worker' = [worker EXCEPT ![e] = "claiming"]
    BY <2>1, <2>2, <2>3, WorkerFrame
  <2>4. CASE /\ activeOrder' = activeOrder
             /\ worker' = [worker EXCEPT ![e] = "recording"]
    BY <2>1, <2>2, <2>4, WorkerFrame
  <2> QED
    BY <1>4, <2>3, <2>4, Zenon DEF WorkerRechecks
<1>5. ASSUME WorkerPosts(e) PROVE Inv'
  BY <1>5, WorkerFrame DEF WorkerPosts
<1>6. ASSUME WorkerPlaced(e) PROVE Inv'
  BY <1>6, WorkerFrame DEF WorkerPlaced
<1>7. ASSUME WorkerRecorded(e) PROVE Inv'
  BY <1>7, WorkerFrame DEF WorkerRecorded
<1> QED
  BY <1>1, <1>2, <1>3, <1>4, <1>5, <1>6, <1>7 DEF IterationStep

\* A worker ends, by an exception or cancelled.
LEMMA EndKeepsInv ==
  ASSUME Inv, NEW e \in Engine, WorkerRaises(e) \/ WorkerEnds(e)
  PROVE  Inv'
<1> USE LifecycleAssumption
    DEF Inv, TypeOK, CallInv, LockInv, ReferenceInv, WorkerInv, FailureInv, LateInv, LockedInv,
        StoppedIsQuiet, ActiveOrderWhilePlacing, RiskLockHolds, ErrorEndsWork,
        WorkerPC, Alive, BeforeOrder, Probing, Placing, Starting, Stopping, CallPC, Status,
        engineVars, workerVars, sessionVars, lifeVars
<1>1. ASSUME WorkerRaises(e) PROVE Inv'
  BY <1>1, RaiseKeepsInv DEF WorkerRaises, CanRaise
<1>2. ASSUME WorkerEnds(e) PROVE Inv'
  BY <1>2, WorkerFrame DEF WorkerEnds, Await
<1> QED
  BY <1>1, <1>2

\* A step that changes nothing.
LEMMA StutterKeepsInv == Inv /\ UNCHANGED vars => Inv'
BY DEF vars, engineVars, workerVars, sessionVars, lifeVars,
       Inv, TypeOK, CallInv, LockInv, ReferenceInv, WorkerInv, FailureInv, LateInv, LockedInv,
       StoppedIsQuiet, ActiveOrderWhilePlacing, RiskLockHolds, ErrorEndsWork

LEMMA StepKeepsInv == Inv /\ [Next]_vars => Inv'
<1> SUFFICES ASSUME Inv, [Next]_vars PROVE Inv'
  OBVIOUS
<1>1. CASE ClientStep
  BY <1>1, StartKeepsInv, StopKeepsInv, RequestsKeepInv, Zenon DEF ClientStep
<1>2. CASE \E c \in Call, e \in Engine : ShutdownStops(c, e)
  BY <1>2, StopKeepsInv, Zenon
<1>3. CASE \E c \in Call : CallStep(c)
  BY <1>3, StartKeepsInv, StopKeepsInv, RequestsKeepInv, Zenon DEF CallStep
<1>4. CASE \E e \in Engine : WorkerStep(e)
  BY <1>4, LoopKeepsInv, IterationKeepsInv, EndKeepsInv, Zenon DEF WorkerStep
<1> QED
  BY <1>1, <1>2, <1>3, <1>4, StutterKeepsInv DEF Next

-----------------------------------------------------------------------------
\* No step takes an engine out of STOPPED

LEMMA BeginStopKeepsStopped ==
  ASSUME TypeOK, NEW c, NEW op, NEW f \in Engine, BeginStop(c, op, f),
         NEW e \in Engine, status[e] = "STOPPED"
  PROVE  status'[e] = "STOPPED"
BY BeginStopOutcomes DEF TypeOK

LEMMA ClientKeepsStopped ==
  ASSUME Inv, ClientStep, NEW e \in Engine, status[e] = "STOPPED"
  PROVE  status'[e] = "STOPPED"
<1>1. TypeOK
  BY DEF Inv
<1>2. ASSUME NEW c \in Call, NEW f \in Engine, StopRequest(c, f) PROVE status'[e] = "STOPPED"
  BY <1>1, <1>2, BeginStopKeepsStopped DEF StopRequest
<1>3. ASSUME NEW c \in Call, NEW s \in Session, DeleteStops(c, s) PROVE status'[e] = "STOPPED"
  <2>1. bySession[s] \in Engine
    BY <1>1, <1>3 DEF DeleteStops, SessionIsFree, TypeOK
  <2> QED
    BY <1>1, <1>3, <2>1, BeginStopKeepsStopped DEF DeleteStops
<1>4. ASSUME NEW f \in Engine, Pause(f) PROVE status'[e] = "STOPPED"
  <2>1. status[f] = "RUNNING"
    BY <1>1, <1>4, Table DEF Pause, TypeOK
  <2> QED
    BY <1>1, <1>4, <2>1 DEF Pause, SetStatus, TypeOK
<1>5. ASSUME NEW f \in Engine, UnlockRisk(f) PROVE status'[e] = "STOPPED"
  BY <1>1, <1>5, UnlockOutcomes DEF TypeOK
<1>6. CASE UNCHANGED status
  BY <1>6
<1> QED
  BY <1>2, <1>3, <1>4, <1>5, <1>6
     DEF ClientStep, Connect, StartRequest, DeleteDisconnects, ResumeRequest, Shutdown, engineVars

LEMMA CallKeepsStopped ==
  ASSUME Inv, NEW c \in Call, CallStep(c), NEW e \in Engine, status[e] = "STOPPED"
  PROVE  status'[e] = "STOPPED"
<1>1. TypeOK /\ CallInv
  BY DEF Inv
<1>2. ASSUME NEW f \in Engine, StartCreates(c, f) PROVE status'[e] = "STOPPED"
  BY <1>1, <1>2 DEF StartCreates, SetStatus, TypeOK
<1>3. CASE StartRuns(c)
  BY <1>1, <1>3, StartRunsOutcomes DEF StartRuns, CallInv, TypeOK
<1>4. CASE StopWaited(c)
  <2>1. call[c].eng \in Engine /\ status[call[c].eng] \in {"STOPPING", "STOPPED"}
    BY <1>1, <1>4 DEF StopWaited, CallInv, Stopping
  <2> QED
    BY <1>1, <1>4, <2>1, StopWaitedOutcomes DEF TypeOK
<1>5. ASSUME NEW up \in BOOLEAN, ResumeProbed(c, up) PROVE status'[e] = "STOPPED"
  <2>1. call[c].eng \in Engine
    BY <1>1, <1>5 DEF ResumeProbed, CallInv
  <2> QED
    BY <1>1, <1>5, <2>1, ResumeOutcomes DEF TypeOK
<1>6. CASE UNCHANGED status
  BY <1>6
<1> QED
  BY <1>2, <1>3, <1>4, <1>5, <1>6
     DEF CallStep, StartStep, StopStep, ResumeStep, StartProbed, StartLaunches, StartRaises,
         StopSignals, StopReturns, StopRaises, Disconnected, ResumeRaises, engineVars

LEMMA RaiseKeepsStopped ==
  ASSUME TypeOK, NEW f \in Engine, Raise(f), NEW e \in Engine, status[e] = "STOPPED"
  PROVE  status'[e] = "STOPPED"
BY RaiseOutcomes DEF TypeOK

\* An iteration is never in progress in an engine that is STOPPED.
LEMMA WorkerKeepsStopped ==
  ASSUME Inv, NEW f \in Engine, WorkerStep(f), NEW e \in Engine, status[e] = "STOPPED"
  PROVE  status'[e] = "STOPPED"
<1>1. TypeOK /\ StoppedIsQuiet
  BY DEF Inv
<1>2. ASSUME Unhealthy(f) PROVE status'[e] = "STOPPED"
  <2>1. CASE Raise(f)
    BY <1>1, <2>1, RaiseKeepsStopped
  <2> QED
    BY <1>1, <1>2, <2>1, UnhealthyOutcomes DEF TypeOK
<1>3. CASE WorkerLost(f)
  <2>1. CASE Raise(f)
    BY <1>1, <2>1, RaiseKeepsStopped
  <2>2. CASE CanTransition(status[f], "ERROR", FALSE) /\ SetStatus(f, "ERROR")
    <3>1. status[f] # "STOPPED"
      BY <1>1, <2>2, Table DEF TypeOK
    <3> QED
      BY <1>1, <2>2, <3>1 DEF SetStatus, TypeOK
  <2>3. CASE UNCHANGED status
    BY <2>3
  <2> QED
    BY <1>3, <2>1, <2>2, <2>3, Zenon DEF WorkerLost
<1>4. ASSUME NEW t, SetStatus(f, t), worker[f] \in {"probing", "candles", "payouts"}
      PROVE  status'[e] = "STOPPED"
  BY <1>1, <1>4 DEF SetStatus, TypeOK, StoppedIsQuiet
<1>5. CASE LoopStep(f)
  BY <1>2, <1>3, <1>4, <1>5, Zenon
     DEF LoopStep, WorkerLeaves, WorkerProbes, WorkerFindsNoConnection, WorkerProbeFails,
         WorkerGivesUp, WorkerProbeSucceeds, WorkerRecovered, engineVars
<1>6. CASE IterationStep(f)
  BY <1>4, <1>6, Zenon
     DEF IterationStep, WorkerEvaluates, WorkerChecksPayout, Checked, WorkerLocked,
         WorkerRechecks, WorkerPosts, WorkerPlaced, WorkerRecorded, engineVars
<1>7. CASE WorkerRaises(f)
  BY <1>1, <1>7, RaiseKeepsStopped DEF WorkerRaises
<1>8. CASE WorkerEnds(f)
  BY <1>8 DEF WorkerEnds
<1> QED
  BY <1>5, <1>6, <1>7, <1>8 DEF WorkerStep

-----------------------------------------------------------------------------
\* No step brings an engine back from ERROR, or a worker that is on its way out

\* What ErrorIsTerminal says of a step, but for the first state.
KeepsEnd(e) ==
    /\ status[e] = "ERROR" => status'[e] \in {"ERROR", "STOPPING", "STOPPED"}
    /\ Doomed(e) => Doomed(e)'

LEMMA BeginStopKeepsEnd ==
  ASSUME TypeOK, NEW c, NEW op, NEW f \in Engine, BeginStop(c, op, f), worker' = worker,
         NEW e \in Engine
  PROVE  KeepsEnd(e)
BY BeginStopOutcomes DEF TypeOK, KeepsEnd, Doomed

LEMMA ClientKeepsEnd ==
  ASSUME Inv, ClientStep, NEW e \in Engine
  PROVE  KeepsEnd(e)
<1>1. TypeOK
  BY DEF Inv
<1>2. ASSUME NEW c \in Call, NEW f \in Engine, StopRequest(c, f) PROVE KeepsEnd(e)
  BY <1>1, <1>2, BeginStopKeepsEnd DEF StopRequest, workerVars
<1>3. ASSUME NEW c \in Call, NEW s \in Session, DeleteStops(c, s) PROVE KeepsEnd(e)
  <2>1. bySession[s] \in Engine
    BY <1>1, <1>3 DEF DeleteStops, SessionIsFree, TypeOK
  <2> QED
    BY <1>1, <1>3, <2>1, BeginStopKeepsEnd DEF DeleteStops, workerVars
<1>4. ASSUME NEW f \in Engine, Pause(f) PROVE KeepsEnd(e)
  <2>1. status[f] = "RUNNING"
    BY <1>1, <1>4, Table DEF Pause, TypeOK
  <2> QED
    BY <1>1, <1>4, <2>1 DEF Pause, SetStatus, TypeOK, KeepsEnd, Doomed, workerVars
<1>5. ASSUME NEW f \in Engine, UnlockRisk(f) PROVE KeepsEnd(e)
  <2>1. UNCHANGED <<worker, stopEvent>>
    BY <1>5 DEF UnlockRisk, workerVars
  <2> QED
    BY <1>1, <1>5, <2>1, UnlockOutcomes DEF TypeOK, KeepsEnd, Doomed
<1>6. CASE UNCHANGED <<engineVars, workerVars>>
  BY <1>6 DEF engineVars, workerVars, KeepsEnd, Doomed
<1> QED
  BY <1>2, <1>3, <1>4, <1>5, <1>6
     DEF ClientStep, Connect, StartRequest, DeleteDisconnects, ResumeRequest, Shutdown

LEMMA CallKeepsEnd ==
  ASSUME Inv, NEW c \in Call, CallStep(c), NEW e \in Engine
  PROVE  KeepsEnd(e)
<1>1. TypeOK /\ CallInv
  BY DEF Inv
<1>2. ASSUME NEW f \in Engine, StartCreates(c, f) PROVE KeepsEnd(e)
  BY <1>1, <1>2 DEF StartCreates, SetStatus, TypeOK, KeepsEnd, Doomed, workerVars
<1>3. CASE StartRuns(c)
  <2>1. UNCHANGED <<worker, stopEvent>> /\ call[c].eng \in Engine
    BY <1>1, <1>3 DEF StartRuns, CallInv, workerVars
  <2> QED
    BY <1>1, <1>3, <2>1, StartRunsOutcomes DEF TypeOK, KeepsEnd, Doomed
<1>4. CASE StartLaunches(c)
  <2>1. call[c].eng \in Engine /\ worker[call[c].eng] = "absent"
    BY <1>1, <1>4 DEF StartLaunches, CallInv
  <2>2. /\ worker' = [worker EXCEPT ![call[c].eng] = "top"]
        /\ UNCHANGED <<status, stopEvent>>
    BY <1>4 DEF StartLaunches, engineVars
  <2> QED
    BY <1>1, <2>1, <2>2 DEF TypeOK, KeepsEnd, Doomed
<1>5. CASE StopSignals(c)
  <2>1. /\ UNCHANGED <<status, worker>>
        /\ stopEvent' = [stopEvent EXCEPT ![call[c].eng] = TRUE]
    BY <1>5 DEF StopSignals, SetStopEvent, workerVars
  <2> QED
    BY <1>1, <2>1 DEF TypeOK, KeepsEnd, Doomed
<1>6. CASE StopWaited(c)
  <2>1. call[c].eng \in Engine /\ status[call[c].eng] \in {"STOPPING", "STOPPED"}
    BY <1>1, <1>6 DEF StopWaited, CallInv, Stopping
  <2>2. stopEvent' = stopEvent
    BY <1>6 DEF StopWaited
  <2>3. worker' = worker \/ worker' = [worker EXCEPT ![call[c].eng] = "cancelled"]
    BY <1>1, <1>6, <2>1, StopWaitedOutcomes
  <2>4. status' = status \/ status' = [status EXCEPT ![call[c].eng] = "STOPPED"]
    BY <1>1, <1>6, <2>1, StopWaitedOutcomes
  <2> QED
    BY <1>1, <2>1, <2>2, <2>3, <2>4 DEF TypeOK, KeepsEnd, Doomed
<1>7. ASSUME NEW up \in BOOLEAN, ResumeProbed(c, up) PROVE KeepsEnd(e)
  <2>1. UNCHANGED <<worker, stopEvent>> /\ call[c].eng \in Engine
    BY <1>1, <1>7 DEF ResumeProbed, CallInv, workerVars
  <2> QED
    BY <1>1, <1>7, <2>1, ResumeOutcomes DEF TypeOK, KeepsEnd, Doomed
<1>8. CASE UNCHANGED <<engineVars, workerVars>>
  BY <1>8 DEF engineVars, workerVars, KeepsEnd, Doomed
<1> QED
  BY <1>2, <1>3, <1>4, <1>5, <1>6, <1>7, <1>8
     DEF CallStep, StartStep, StopStep, ResumeStep, StartProbed, StartRaises,
         StopReturns, StopRaises, Disconnected, ResumeRaises

\* A worker touches no engine but its own.
LEMMA WorkerIsLocal ==
  ASSUME TypeOK, NEW f \in Engine, WorkerStep(f), NEW e \in Engine, e # f
  PROVE  status'[e] = status[e] /\ worker'[e] = worker[e] /\ stopEvent'[e] = stopEvent[e]
<1> DEFINE Same == status'[e] = status[e] /\ worker'[e] = worker[e]
           Told == stopEvent'[e] = stopEvent[e]
<1> USE DEF TypeOK
<1>1. \A pc : Await(f, pc) => worker'[e] = worker[e]
  BY DEF Await
<1>2. \A t : SetStatus(f, t) => status'[e] = status[e]
  BY DEF SetStatus
<1>3. Raise(f) => Same
  BY RaiseOutcomes
<1>4. Unhealthy(f) => Same
  BY <1>3, UnhealthyOutcomes
<1>5. CASE LoopStep(f)
  <2>1. CASE WorkerFindsNoConnection(f) \/ WorkerProbeFails(f)
    BY <1>4, <2>1 DEF WorkerFindsNoConnection, WorkerProbeFails
  <2>2. CASE WorkerLost(f)
    <3>1. \/ Raise(f)
          \/ (status' = status \/ SetStatus(f, "ERROR")) /\ (Await(f, "failing") \/ Await(f, "top"))
      BY <2>2 DEF WorkerLost
    <3> QED
      BY <1>1, <1>2, <1>3, <2>2, <3>1 DEF WorkerLost
  <2>3. CASE WorkerGivesUp(f)
    BY <1>1, <2>3 DEF WorkerGivesUp, SetStopEvent
  <2>4. CASE WorkerProbeSucceeds(f)
    BY <1>1, <1>2, <2>4 DEF WorkerProbeSucceeds
  <2>5. CASE WorkerLeaves(f) \/ WorkerProbes(f) \/ WorkerRecovered(f)
    BY <1>1, <2>5 DEF WorkerLeaves, WorkerProbes, WorkerRecovered, engineVars
  <2> QED
    BY <1>5, <2>1, <2>2, <2>3, <2>4, <2>5 DEF LoopStep
<1>6. CASE IterationStep(f)
  <2>1. \A signal : Decide(f, signal) => worker'[e] = worker[e]
    BY <1>1 DEF Decide
  <2>2. ASSUME NEW locked, NEW signal, Checked(f, locked, signal) PROVE Same
    BY <1>1, <1>2, <2>1, <2>2 DEF Checked
  <2>3. ASSUME NEW signal \in BOOLEAN, WorkerEvaluates(f, signal) PROVE Same /\ Told
    BY <1>1, <2>2, <2>3 DEF WorkerEvaluates
  <2>4. ASSUME NEW enough \in BOOLEAN, WorkerChecksPayout(f, enough) PROVE Same /\ Told
    BY <2>2, <2>4 DEF WorkerChecksPayout
  <2>5. ASSUME NEW up \in BOOLEAN, WorkerRechecks(f, up) PROVE Same /\ Told
    BY <1>1, <2>5 DEF WorkerRechecks
  <2>6. CASE WorkerLocked(f) \/ WorkerPosts(f) \/ WorkerPlaced(f) \/ WorkerRecorded(f)
    BY <1>1, <2>1, <2>6 DEF WorkerLocked, WorkerPosts, WorkerPlaced, WorkerRecorded, engineVars
  <2> QED
    BY <1>6, <2>3, <2>4, <2>5, <2>6 DEF IterationStep
<1>7. CASE WorkerRaises(f)
  BY <1>3, <1>7 DEF WorkerRaises
<1>8. CASE WorkerEnds(f)
  BY <1>1, <1>8 DEF WorkerEnds
<1> QED
  BY <1>5, <1>6, <1>7, <1>8 DEF WorkerStep

\* A worker on its way out leaves, stops itself, raises once more or ends.
LEMMA WorkerKeepsEnd ==
  ASSUME Inv, NEW f \in Engine, WorkerStep(f), NEW e \in Engine
  PROVE  KeepsEnd(e)
<1>1. TypeOK /\ WorkerInv /\ ErrorEndsWork
  BY DEF Inv
<1>2. CASE e # f
  <2>1. status'[e] = status[e] /\ worker'[e] = worker[e] /\ stopEvent'[e] = stopEvent[e]
    BY <1>1, <1>2, WorkerIsLocal
  <2> QED
    BY <2>1 DEF KeepsEnd, Doomed
<1>3. status[e] = "ERROR" => Doomed(e)
  BY <1>1 DEF WorkerInv, ErrorEndsWork, Doomed
<1>4. CASE e = f /\ Doomed(f)
  <2>1. ~IterationStep(f)
    BY <1>4 DEF IterationStep, WorkerEvaluates, WorkerChecksPayout, WorkerLocked, WorkerRechecks,
                WorkerPosts, WorkerPlaced, WorkerRecorded, Placing, Doomed
  <2>2. LoopStep(f) => WorkerLeaves(f) \/ WorkerGivesUp(f)
    BY <1>4 DEF LoopStep, WorkerProbes, WorkerFindsNoConnection, WorkerProbeFails, WorkerLost,
                WorkerProbeSucceeds, WorkerRecovered, Doomed
  <2>3. CASE WorkerLeaves(f) \/ WorkerEnds(f)
    BY <1>1, <1>4, <2>3 DEF WorkerLeaves, WorkerEnds, Await, TypeOK, KeepsEnd, Doomed
  <2>4. CASE WorkerGivesUp(f)
    BY <1>1, <1>4, <2>4 DEF WorkerGivesUp, SetStopEvent, Await, TypeOK, KeepsEnd, Doomed
  <2>5. CASE WorkerRaises(f)
    <3>1. Raise(f)
      BY <2>5 DEF WorkerRaises
    <3> QED
      BY <1>1, <1>4, <3>1, RaiseOutcomes DEF TypeOK, KeepsEnd, Doomed
  <2> QED
    BY <2>1, <2>2, <2>3, <2>4, <2>5 DEF WorkerStep
<1>5. CASE e = f /\ ~Doomed(f)
  BY <1>3, <1>5 DEF KeepsEnd
<1> QED
  BY <1>2, <1>4, <1>5

-----------------------------------------------------------------------------
\* The theorems

\* Inv is an invariant of every behaviour, with and without failing commits.
THEOREM Invariance == Spec => []Inv
BY InitInv, StepKeepsInv, PTL DEF Spec

\* Every variable keeps its type.
THEOREM LifecycleTypes == Spec => []TypeOK
<1>1. Inv => TypeOK
  BY DEF Inv
<1> QED
  BY <1>1, Invariance, PTL

\* Nothing is under way in an engine that is STOPPED.
THEOREM StoppedQuiet == Spec => []StoppedIsQuiet
<1>1. Inv => StoppedIsQuiet
  BY DEF Inv
<1> QED
  BY <1>1, Invariance, PTL

\* At most one order is posted after a pause or after a stop has signalled.
THEOREM OneLateOrder == Spec => []AtMostOneLateOrder
<1>1. Inv => AtMostOneLateOrder
  BY DEF Inv, LateInv, AtMostOneLateOrder
<1> QED
  BY <1>1, Invariance, PTL

\* active_order is set exactly while a live worker is inside place().
THEOREM ActiveOrderExact == Spec => []ActiveOrderWhilePlacing
<1>1. Inv => ActiveOrderWhilePlacing
  BY DEF Inv
<1> QED
  BY <1>1, Invariance, PTL

\* The risk lock holds until it is unlocked.
THEOREM RiskLock == Spec => []RiskLockHolds
<1>1. Inv => RiskLockHolds
  BY DEF Inv
<1> QED
  BY <1>1, Invariance, PTL

\* ERROR is left for STOPPING or STOPPED only, and ends the iterations of the engine
\* for good, whatever is shown, resumed or stopped afterwards.
THEOREM ErrorTerminal == Spec => ErrorIsTerminal
<1>1. Inv /\ [Next]_vars =>
        [\A e \in Engine :
            /\ status[e] = "ERROR" => status'[e] \in {"ERROR", "STOPPING", "STOPPED"} /\ Doomed(e)
            /\ Doomed(e) => Doomed(e)']_vars
  <2> SUFFICES ASSUME Inv, Next, NEW e \in Engine
               PROVE  (status[e] = "ERROR" => Doomed(e)) /\ KeepsEnd(e)
    BY DEF vars, KeepsEnd
  <2>1. status[e] = "ERROR" => Doomed(e)
    BY DEF Inv, WorkerInv, ErrorEndsWork, Doomed
  <2>2. CASE ClientStep
    BY <2>1, <2>2, ClientKeepsEnd
  <2>3. CASE \E c \in Call, f \in Engine : ShutdownStops(c, f)
    BY <2>1, <2>3, BeginStopKeepsEnd DEF ShutdownStops, Inv, workerVars
  <2>4. CASE \E c \in Call : CallStep(c)
    BY <2>1, <2>4, CallKeepsEnd
  <2>5. CASE \E f \in Engine : WorkerStep(f)
    BY <2>1, <2>5, WorkerKeepsEnd
  <2> QED
    BY <2>2, <2>3, <2>4, <2>5 DEF Next
<1> QED
  BY <1>1, Invariance, PTL DEF Spec, ErrorIsTerminal

\* No handler and no worker takes an engine out of STOPPED.
THEOREM StoppedFinal == Spec => StoppedIsFinal
<1>1. Inv /\ [Next]_vars => [\A e \in Engine : status[e] = "STOPPED" => status'[e] = "STOPPED"]_vars
  <2> SUFFICES ASSUME Inv, Next, NEW e \in Engine, status[e] = "STOPPED"
               PROVE  status'[e] = "STOPPED"
    BY DEF vars
  <2>1. CASE ClientStep
    BY <2>1, ClientKeepsStopped
  <2>2. CASE \E c \in Call, f \in Engine : ShutdownStops(c, f)
    BY <2>2, BeginStopKeepsStopped DEF ShutdownStops, Inv
  <2>3. CASE \E c \in Call : CallStep(c)
    BY <2>3, CallKeepsStopped
  <2>4. CASE \E f \in Engine : WorkerStep(f)
    BY <2>4, WorkerKeepsStopped
  <2> QED
    BY <2>1, <2>2, <2>3, <2>4 DEF Next
<1> QED
  BY <1>1, Invariance, PTL DEF Spec, StoppedIsFinal

-----------------------------------------------------------------------------
\* The contract with those who watch an engine

\* What is observed of an engine stays, except for engine e.
Others(e) ==
    \A d \in Engine \ {e} :
        /\ status'[d] = status[d] /\ riskLocked'[d] = riskLocked[d]
        /\ stopEvent'[d] = stopEvent[d] /\ late'[d] = late[d] /\ worker'[d] = worker[d]

\* The allowance of an engine, status by status.
LEMMA AllowanceByStatus ==
  ASSUME NEW e \in Engine
  PROVE  LET ByStatus ==
               /\ status[e] = "RUNNING" => Allowance(e) = "any"
               /\ status[e] = "PAUSED" => Allowance(e) = IF late[e] = 0 THEN "last" ELSE "none"
               /\ status[e] = "STOPPING" =>
                     Allowance(e) = IF Doomed(e) THEN "none"
                                    ELSE IF ~stopEvent[e] THEN "any"
                                    ELSE IF late[e] = 0 THEN "last" ELSE "none"
               /\ status[e] \notin {"RUNNING", "PAUSED", "STOPPING"} => Allowance(e) = "none"
         IN  ByStatus /\ ByStatus'
BY DEF Allowance

\* The allowance of an engine depends on what is observed of it alone.
LEMMA SameAllowance ==
  ASSUME NEW d \in Engine,
         status'[d] = status[d], stopEvent'[d] = stopEvent[d],
         late'[d] = late[d], worker'[d] = worker[d]
  PROVE  Allowance(d)' = Allowance(d)
<1>1. Doomed(d)' <=> Doomed(d)
  BY DEF Doomed
<1> QED
  BY <1>1 DEF Allowance

\* What a step of engine e alone does to the variables of the contract.
LEMMA Observed ==
  ASSUME TypeOK, TypeOK', NEW e \in Engine, Others(e)
  PROVE  /\ status' = [status EXCEPT ![e] = status'[e]]
         /\ riskLocked' = [riskLocked EXCEPT ![e] = riskLocked'[e]]
         /\ [d \in Engine |-> Allowance(d)]'
               = [[d \in Engine |-> Allowance(d)] EXCEPT ![e] = Allowance(e)']
         /\ [d \in Engine |-> worker[d] = "ordering"]'
               = [[d \in Engine |-> worker[d] = "ordering"] EXCEPT ![e] = (worker'[e] = "ordering")]
<1>1. status' = [status EXCEPT ![e] = status'[e]]
  BY DEF TypeOK, Others
<1>2. riskLocked' = [riskLocked EXCEPT ![e] = riskLocked'[e]]
  BY DEF TypeOK, Others
<1>3. \A d \in Engine \ {e} : Allowance(d)' = Allowance(d)
  BY SameAllowance DEF Others
<1>4. [d \in Engine |-> Allowance(d)]'
        = [[d \in Engine |-> Allowance(d)] EXCEPT ![e] = Allowance(e)']
  BY <1>3
<1>5. [d \in Engine |-> worker[d] = "ordering"]'
        = [[d \in Engine |-> worker[d] = "ordering"] EXCEPT ![e] = (worker'[e] = "ordering")]
  BY DEF Others
<1> QED
  BY <1>1, <1>2, <1>4, <1>5

\* A step of engine e alone that leaves what is observed of it is not seen.
LEMMA Unseen ==
  ASSUME TypeOK, TypeOK', NEW e \in Engine, Others(e),
         status'[e] = status[e], riskLocked'[e] = riskLocked[e], Allowance(e)' = Allowance(e),
         worker'[e] = "ordering" <=> worker[e] = "ordering"
  PROVE  UNCHANGED Contract!vars
<1>1. status' = status
  BY DEF TypeOK, Others
<1>2. riskLocked' = riskLocked
  BY DEF TypeOK, Others
<1>3. \A d \in Engine : Allowance(d)' = Allowance(d)
  BY SameAllowance DEF Others
<1>4. \A d \in Engine : (worker'[d] = "ordering") <=> (worker[d] = "ordering")
  BY DEF Others
<1> QED
  BY <1>1, <1>2, <1>3, <1>4 DEF Contract!vars

\* What only concerns requests, sessions and signals is not observed.
LEMMA Untouched ==
  ASSUME UNCHANGED <<status, riskLocked, stopEvent, late, worker>>
  PROVE  UNCHANGED Contract!vars
<1>1. \A d \in Engine : Allowance(d)' = Allowance(d)
  BY SameAllowance
<1> QED
  BY <1>1 DEF Contract!vars

\* A worker that goes on, while nothing else is said of its engine, does so unseen,
\* is done with its order, or ends an engine that is stopping.
LEMMA MovesRefine ==
  ASSUME Inv, Inv', NEW e \in Engine, NEW pc, pc # "ordering",
         worker' = [worker EXCEPT ![e] = pc],
         UNCHANGED <<status, riskLocked, stopEvent, late>>,
         Doomed(e) => Doomed(e)'
  PROVE  [Contract!Next]_(Contract!vars)
<1>1. TypeOK /\ TypeOK'
  BY DEF Inv
<1>2. /\ status'[e] = status[e] /\ riskLocked'[e] = riskLocked[e]
      /\ stopEvent'[e] = stopEvent[e] /\ late'[e] = late[e]
      /\ worker'[e] # "ordering" /\ Others(e)
  BY <1>1 DEF TypeOK, Others
<1>3. worker[e] = "ordering" => status[e] \in {"RUNNING", "PAUSED", "STOPPING"}
  BY <1>1 DEF Inv, TypeOK, WorkerInv, LockedInv, RiskLockHolds, StoppedIsQuiet, ErrorEndsWork,
              Placing, Status
<1>4. \/ Allowance(e)' = Allowance(e)
      \/ Allowance(e)' = "none" /\ status[e] = "STOPPING"
  BY <1>2, AllowanceByStatus
<1>5. CASE worker[e] = "ordering"
  <2>1. Contract!Answered(e)
    BY <1>1, <1>2, <1>3, <1>4, <1>5, Observed DEF Contract!Answered, Contract!Becomes
  <2> QED
    BY <2>1 DEF Contract!Next, Contract!EngineStep
<1>6. CASE worker[e] # "ordering" /\ Allowance(e)' = Allowance(e)
  BY <1>1, <1>2, <1>6, Unseen
<1>7. CASE worker[e] # "ordering" /\ Allowance(e)' = "none" /\ status[e] = "STOPPING"
  <2>1. Contract!Withdraws(e)
    BY <1>1, <1>2, <1>7, Observed DEF Contract!Withdraws, Contract!Becomes
  <2> QED
    BY <2>1 DEF Contract!Next, Contract!EngineStep
<1> QED
  BY <1>4, <1>5, <1>6, <1>7

\* ERROR is seen of an engine that runs or has lost its connection.
LEMMA FailsRefine ==
  ASSUME Inv, Inv', NEW e \in Engine, NEW pc, pc # "ordering",
         status[e] \in {"RUNNING", "CONNECTION_LOST"},
         status' = [status EXCEPT ![e] = "ERROR"],
         worker' = [worker EXCEPT ![e] = pc],
         UNCHANGED <<riskLocked, stopEvent, late>>
  PROVE  [Contract!Next]_(Contract!vars)
<1>1. TypeOK /\ TypeOK'
  BY DEF Inv
<1>2. /\ status'[e] = "ERROR" /\ riskLocked'[e] = riskLocked[e] /\ worker'[e] # "ordering"
      /\ Others(e)
  BY <1>1 DEF TypeOK, Others
<1>3. Allowance(e)' = "none"
  BY <1>2, AllowanceByStatus
<1>4. Contract!Fails(e)
  BY <1>1, <1>2, <1>3, Observed DEF Contract!Fails, Contract!Becomes
<1> QED
  BY <1>4 DEF Contract!Next, Contract!EngineStep

\* An exception shows ERROR, or ends the task unseen.
LEMMA RaiseRefines ==
  ASSUME Inv, Inv', NEW e \in Engine, Raise(e), worker[e] # "absent",
         UNCHANGED <<riskLocked, stopEvent, late>>
  PROVE  [Contract!Next]_(Contract!vars)
<1>1. TypeOK /\ TypeOK'
  BY DEF Inv
<1>2. CASE /\ status[e] \in {"STARTING", "RUNNING", "CONNECTION_LOST"}
           /\ status' = [status EXCEPT ![e] = "ERROR"]
           /\ worker' = [worker EXCEPT ![e] = "crashing"]
  <2>1. status[e] # "STARTING"
    BY DEF Inv, WorkerInv
  <2> QED
    BY <1>2, <2>1, FailsRefine
<1>3. CASE status' = status /\ worker' = [worker EXCEPT ![e] = "done"]
  <2>1. Doomed(e)'
    BY <1>1, <1>3 DEF Doomed, TypeOK
  <2> QED
    BY <1>3, <2>1, MovesRefine
<1> QED
  BY <1>1, <1>2, <1>3, RaiseOutcomes

\* An engine that runs and is not locked is seen to do so.
LEMMA RunsRefine ==
  ASSUME Inv, Inv', NEW e \in Engine,
         status[e] \in {"STARTING", "PAUSED", "CONNECTION_LOST"}, ~riskLocked[e],
         status' = [status EXCEPT ![e] = "RUNNING"],
         \/ worker' = worker
         \/ worker[e] # "ordering" /\ worker' = [worker EXCEPT ![e] = "recovering"],
         UNCHANGED <<riskLocked, stopEvent, late>>
  PROVE  [Contract!Next]_(Contract!vars)
<1>1. TypeOK /\ TypeOK'
  BY DEF Inv
<1>2. /\ status'[e] = "RUNNING" /\ riskLocked'[e] = riskLocked[e]
      /\ worker'[e] = "ordering" <=> worker[e] = "ordering"
      /\ Others(e)
  BY <1>1 DEF TypeOK, Others
<1>3. Allowance(e)' = "any"
  BY <1>2, AllowanceByStatus
<1>4. Contract!Runs(e)
  BY <1>1, <1>2, <1>3, Observed DEF Contract!Runs, Contract!Shows, Contract!Becomes
<1> QED
  BY <1>4 DEF Contract!Next, Contract!EngineStep

\* The signal of a stop leaves an engine that is stopping the order it is deciding.
LEMMA SignalRefines ==
  ASSUME Inv, Inv', NEW e \in Engine, status[e] \in {"STOPPING", "STOPPED"},
         stopEvent' = [stopEvent EXCEPT ![e] = TRUE],
         late' = IF stopEvent[e] THEN late ELSE [late EXCEPT ![e] = 0],
         UNCHANGED <<status, riskLocked, worker>>
  PROVE  [Contract!Next]_(Contract!vars)
<1>1. TypeOK /\ TypeOK'
  BY DEF Inv
<1>2. /\ status'[e] = status[e] /\ riskLocked'[e] = riskLocked[e] /\ worker'[e] = worker[e]
      /\ stopEvent'[e] /\ late'[e] = IF stopEvent[e] THEN late[e] ELSE 0
      /\ Others(e)
  BY <1>1 DEF TypeOK, Others
<1>3. Doomed(e) => Doomed(e)'
  BY <1>2 DEF Doomed
<1>4. \/ Allowance(e)' = Allowance(e)
      \/ status[e] = "STOPPING" /\ Allowance(e)' = "none"
      \/ status[e] = "STOPPING" /\ Allowance(e) = "any" /\ Allowance(e)' = "last"
  BY <1>2, <1>3, AllowanceByStatus
<1>5. CASE Allowance(e)' = Allowance(e)
  BY <1>1, <1>2, <1>5, Unseen
<1>6. CASE \/ status[e] = "STOPPING" /\ Allowance(e)' = "none"
           \/ status[e] = "STOPPING" /\ Allowance(e) = "any" /\ Allowance(e)' = "last"
  <2>1. Contract!Withdraws(e)
    BY <1>1, <1>2, <1>6, Observed DEF Contract!Withdraws, Contract!Shows, Contract!Becomes
  <2> QED
    BY <2>1 DEF Contract!Next, Contract!EngineStep
<1> QED
  BY <1>4, <1>5, <1>6

\* A stop begins, or joins one that has begun.
LEMMA BeginStopRefines ==
  ASSUME Inv, Inv', NEW e \in Engine, NEW c, NEW op, BeginStop(c, op, e),
         status[e] # "NONE", UNCHANGED <<riskLocked, worker>>
  PROVE  [Contract!Next]_(Contract!vars)
<1>1. TypeOK /\ TypeOK'
  BY DEF Inv
<1>2. CASE status[e] = "STOPPING"
  BY <1>1, <1>2, BeginStopOutcomes, SignalRefines
<1>3. CASE /\ status[e] \in Status \ {"STOPPING", "STOPPED"}
           /\ status' = [status EXCEPT ![e] = "STOPPING"]
           /\ stopEvent' = stopEvent /\ late' = late
  <2>1. /\ status'[e] = "STOPPING" /\ riskLocked'[e] = riskLocked[e] /\ worker'[e] = worker[e]
        /\ stopEvent'[e] = stopEvent[e]
        /\ Others(e)
    BY <1>1, <1>3 DEF TypeOK, Others
  <2>2. status[e] = "ERROR" => Doomed(e)'
    BY <2>1 DEF Inv, WorkerInv, ErrorEndsWork, Doomed
  <2>3. status[e] # "ERROR" => ~stopEvent'[e]
    BY <1>3, <2>1 DEF Inv, WorkerInv
  <2>4. /\ Allowance(e)' \in {"any", "none"}
        /\ status[e] = "ERROR" => Allowance(e)' = "none"
    BY <2>1, <2>2, <2>3, AllowanceByStatus
  <2>5. Contract!BeginsToStop(e)
    BY <1>1, <1>3, <2>1, <2>4, Observed
       DEF Contract!BeginsToStop, Contract!Shows, Contract!Becomes
  <2> QED
    BY <2>5 DEF Contract!Next, Contract!EngineStep
<1> QED
  BY <1>1, <1>2, <1>3, BeginStopOutcomes

\* start.
LEMMA StartRefines ==
  ASSUME Inv, Inv', NEW c \in Call, StartStep(c)
  PROVE  [Contract!Next]_(Contract!vars)
<1>1. TypeOK /\ TypeOK' /\ CallInv
  BY DEF Inv
<1>2. ASSUME NEW up \in BOOLEAN, StartProbed(c, up) PROVE UNCHANGED Contract!vars
  BY <1>2, Untouched DEF StartProbed, engineVars, workerVars
<1>3. ASSUME StartRaises(c) PROVE UNCHANGED Contract!vars
  BY <1>3, Untouched DEF StartRaises, engineVars, workerVars
<1>4. ASSUME NEW e \in Engine, StartCreates(c, e) PROVE Contract!Starts(e)
  <2>1. /\ status[e] = "NONE" /\ status' = [status EXCEPT ![e] = "STARTING"]
        /\ UNCHANGED <<riskLocked, stopEvent, late, worker>>
    BY <1>4 DEF StartCreates, SetStatus, workerVars
  <2>2. /\ status'[e] = "STARTING" /\ riskLocked'[e] = riskLocked[e] /\ worker'[e] = worker[e]
        /\ Others(e)
    BY <1>1, <2>1 DEF TypeOK, Others
  <2>3. Allowance(e)' = "none"
    BY <2>2, AllowanceByStatus
  <2> QED
    BY <1>1, <2>1, <2>2, <2>3, Observed DEF Contract!Starts, Contract!Shows, Contract!Becomes
<1>5. ASSUME StartRuns(c) PROVE [Contract!Next]_(Contract!vars)
  <2>0. PICK e \in Engine : e = call[c].eng
    BY <1>1, <1>5 DEF StartRuns, CallInv
  <2>1. worker[e] = "absent" /\ UNCHANGED <<riskLocked, stopEvent, late, worker>>
    BY <1>1, <1>5, <2>0 DEF StartRuns, CallInv, workerVars
  <2>2. status[e] \in {"STARTING", "PAUSED", "CONNECTION_LOST"} => ~riskLocked[e]
    BY <2>1 DEF Inv, LockedInv
  <2>3. \/ /\ status[e] \in {"STARTING", "PAUSED", "CONNECTION_LOST"}
           /\ status' = [status EXCEPT ![e] = "RUNNING"]
        \/ status' = status
    BY <1>1, <1>5, <2>0, StartRunsOutcomes
  <2>4. CASE status' = status
    BY <2>1, <2>4, Untouched
  <2>5. CASE /\ status[e] \in {"STARTING", "PAUSED", "CONNECTION_LOST"}
             /\ status' = [status EXCEPT ![e] = "RUNNING"]
    BY <2>1, <2>2, <2>5, RunsRefine
  <2> QED
    BY <2>3, <2>4, <2>5
<1>6. ASSUME StartLaunches(c) PROVE [Contract!Next]_(Contract!vars)
  <2>0. PICK e \in Engine : e = call[c].eng
    BY <1>1, <1>6 DEF StartLaunches, CallInv
  <2>1. /\ worker[e] = "absent"
        /\ worker' = [worker EXCEPT ![e] = "top"]
        /\ UNCHANGED <<status, riskLocked, stopEvent, late>>
    BY <1>1, <1>6, <2>0 DEF StartLaunches, CallInv, engineVars
  <2>2. ~Doomed(e)
    BY <2>1 DEF Doomed
  <2> QED
    BY <2>1, <2>2, MovesRefine
<1> QED
  BY <1>2, <1>3, <1>4, <1>5, <1>6 DEF StartStep, Contract!Next, Contract!EngineStep

\* stop, DELETE and the shutdown.
LEMMA StopRefines ==
  ASSUME Inv, Inv', NEW c \in Call,
         \/ StopStep(c)
         \/ \E e \in Engine : StopRequest(c, e) \/ ShutdownStops(c, e)
         \/ \E s \in Session : DeleteStops(c, s)
  PROVE  [Contract!Next]_(Contract!vars)
<1>1. TypeOK /\ TypeOK' /\ CallInv /\ ReferenceInv /\ WorkerInv
  BY DEF Inv
<1>2. ASSUME NEW e \in Engine, StopRequest(c, e) PROVE [Contract!Next]_(Contract!vars)
  <2>1. status[e] # "NONE"
    BY <1>1, <1>2 DEF StopRequest, Known, WorkerInv
  <2> QED
    BY <1>2, <2>1, BeginStopRefines DEF StopRequest, workerVars
<1>3. ASSUME NEW e \in Engine, ShutdownStops(c, e) PROVE [Contract!Next]_(Contract!vars)
  <2>1. status[e] # "NONE"
    BY <1>1, <1>3 DEF ShutdownStops, ReferenceInv
  <2> QED
    BY <1>3, <2>1, BeginStopRefines DEF ShutdownStops, workerVars
<1>4. ASSUME NEW s \in Session, DeleteStops(c, s) PROVE [Contract!Next]_(Contract!vars)
  <2>0. PICK e \in Engine : e = bySession[s]
    BY <1>1, <1>4 DEF DeleteStops, SessionIsFree, TypeOK
  <2>1. status[e] # "NONE"
    BY <1>1, <1>4, <2>0 DEF DeleteStops, SessionIsFree, ReferenceInv
  <2>2. BeginStop(c, "delete", e) /\ UNCHANGED <<riskLocked, worker>>
    BY <1>4, <2>0 DEF DeleteStops, workerVars
  <2> QED
    BY <2>1, <2>2, BeginStopRefines
<1>5. ASSUME StopSignals(c) PROVE [Contract!Next]_(Contract!vars)
  <2>0. PICK e \in Engine : e = call[c].eng
    BY <1>1, <1>5 DEF StopSignals, CallInv, Stopping
  <2>1. status[e] \in {"STOPPING", "STOPPED"}
    BY <1>1, <1>5, <2>0 DEF StopSignals, CallInv, Stopping
  <2>2. /\ stopEvent' = [stopEvent EXCEPT ![e] = TRUE]
        /\ late' = IF stopEvent[e] THEN late ELSE [late EXCEPT ![e] = 0]
        /\ UNCHANGED <<status, riskLocked, worker>>
    BY <1>5, <2>0 DEF StopSignals, SetStopEvent, workerVars
  <2> QED
    BY <2>1, <2>2, SignalRefines
<1>6. ASSUME StopWaited(c) PROVE [Contract!Next]_(Contract!vars)
  <2>0. PICK e \in Engine : e = call[c].eng
    BY <1>1, <1>6 DEF StopWaited, CallInv, Stopping
  <2>1. /\ status[e] \in {"STOPPING", "STOPPED"}
        /\ UNCHANGED <<riskLocked, stopEvent, late>>
    BY <1>1, <1>6, <2>0 DEF StopWaited, CallInv, Stopping
  <2>2. /\ worker' = IF ~finished[e] /\ worker[e] \in Alive
                     THEN [worker EXCEPT ![e] = "cancelled"]
                     ELSE worker
        /\ \/ status[e] = "STOPPING" /\ status' = [status EXCEPT ![e] = "STOPPED"]
           \/ status[e] = "STOPPED" /\ status' = status
    BY <1>1, <1>6, <2>0, <2>1, StopWaitedOutcomes
  <2>3. worker'[e] # "ordering"
    BY <1>1, <2>1, <2>2 DEF WorkerInv, TypeOK, Alive
  <2>4. /\ riskLocked'[e] = riskLocked[e]
        /\ status'[e] = "STOPPED"
        /\ Others(e)
    BY <1>1, <2>1, <2>2 DEF TypeOK, Others
  <2>5. Allowance(e)' = "none"
    BY <2>4, AllowanceByStatus
  <2>6. CASE status[e] = "STOPPING"
    <3>1. Contract!Stops(e)
      BY <1>1, <2>1, <2>3, <2>4, <2>5, <2>6, Observed DEF Contract!Stops, Contract!Becomes
    <3> QED
      BY <2>1, <3>1 DEF Contract!Next, Contract!EngineStep
  <2>7. CASE status[e] = "STOPPED"
    <3>1. worker[e] # "ordering" /\ Allowance(e) = "none"
      BY <2>1, <2>7, AllowanceByStatus DEF Inv, StoppedIsQuiet
    <3> QED
      BY <1>1, <2>1, <2>3, <2>4, <2>5, <2>7, <3>1, Unseen
  <2> QED
    BY <2>1, <2>6, <2>7
<1>7. ASSUME StopReturns(c) \/ StopRaises(c) \/ Disconnected(c) PROVE UNCHANGED Contract!vars
  BY <1>7, Untouched DEF StopReturns, StopRaises, Disconnected, engineVars, workerVars
<1> QED
  BY <1>2, <1>3, <1>4, <1>5, <1>6, <1>7 DEF StopStep

\* pause, unlock_risk, resume.
LEMMA RequestsRefine ==
  ASSUME Inv, Inv',
         \/ \E e \in Engine : Pause(e) \/ UnlockRisk(e)
         \/ \E c \in Call : ResumeStep(c)
  PROVE  [Contract!Next]_(Contract!vars)
<1>1. TypeOK /\ TypeOK' /\ CallInv /\ LockedInv /\ RiskLockHolds
  BY DEF Inv
<1>2. ASSUME NEW e \in Engine, Pause(e) PROVE Contract!Pauses(e)
  <2>1. status[e] = "RUNNING" /\ status' = [status EXCEPT ![e] = "PAUSED"]
    BY <1>1, <1>2, Table DEF Pause, SetStatus, TypeOK
  <2>2. /\ status'[e] = "PAUSED" /\ late'[e] = 0 /\ riskLocked'[e] = riskLocked[e]
        /\ worker'[e] = worker[e]
        /\ Others(e)
    BY <1>1, <1>2, <2>1 DEF Pause, TypeOK, Others, workerVars
  <2>3. Allowance(e)' = "last"
    BY <2>2, AllowanceByStatus
  <2> QED
    BY <1>1, <2>1, <2>2, <2>3, Observed DEF Contract!Pauses, Contract!Shows, Contract!Becomes
<1>3. ASSUME NEW e \in Engine, UnlockRisk(e) PROVE Contract!Unlocks(e)
  <2>1. /\ riskLocked[e] /\ riskLocked' = [riskLocked EXCEPT ![e] = FALSE]
        /\ UNCHANGED <<stopEvent, late, worker>>
    BY <1>1, <1>3 DEF UnlockRisk, RiskLockHolds, workerVars
  <2>2. status[e] \in {"RUNNING", "PAUSED", "RISK_LOCKED", "STOPPING", "STOPPED", "ERROR"}
    BY <1>1, <2>1 DEF LockedInv
  <2>3. \/ /\ status[e] \in {"PAUSED", "RISK_LOCKED"}
           /\ status' = [status EXCEPT ![e] = "RUNNING"]
        \/ /\ status[e] \in {"RUNNING", "STOPPING", "STOPPED", "ERROR"}
           /\ status' = status
    BY <1>1, <1>3, <2>2, UnlockOutcomes
  <2>4. /\ riskLocked'[e] = FALSE /\ worker'[e] = worker[e]
        /\ stopEvent'[e] = stopEvent[e] /\ late'[e] = late[e]
        /\ Others(e)
    BY <1>1, <2>1, <2>3 DEF TypeOK, Others
  <2>5. CASE /\ status[e] \in {"PAUSED", "RISK_LOCKED"}
             /\ status' = [status EXCEPT ![e] = "RUNNING"]
    <3>1. status'[e] = "RUNNING"
      BY <1>1, <2>5 DEF TypeOK
    <3>2. Allowance(e)' = "any"
      BY <3>1, AllowanceByStatus
    <3> QED
      BY <1>1, <2>1, <2>4, <2>5, <3>1, <3>2, Observed DEF Contract!Unlocks, Contract!Becomes
  <2>6. CASE /\ status[e] \in {"RUNNING", "STOPPING", "STOPPED", "ERROR"}
             /\ status' = status
    <3>1. Allowance(e)' = Allowance(e)
      BY <2>4, <2>6 DEF Allowance, Doomed
    <3> QED
      BY <1>1, <2>1, <2>4, <2>6, <3>1, Observed DEF Contract!Unlocks, Contract!Becomes
  <2> QED
    BY <2>3, <2>5, <2>6
<1>4. ASSUME NEW c \in Call, NEW up \in BOOLEAN, ResumeProbed(c, up)
      PROVE  [Contract!Next]_(Contract!vars)
  <2>0. PICK e \in Engine : e = call[c].eng
    BY <1>1, <1>4 DEF ResumeProbed, CallInv
  <2>1. UNCHANGED <<riskLocked, stopEvent, late, worker>>
    BY <1>4 DEF ResumeProbed, workerVars
  <2>2. \/ /\ ~riskLocked[e]
           /\ status[e] \in {"STARTING", "PAUSED", "CONNECTION_LOST"}
           /\ status' = [status EXCEPT ![e] = "RUNNING"]
        \/ status' = status
    BY <1>1, <1>4, <2>0, ResumeOutcomes
  <2>3. CASE status' = status
    BY <2>1, <2>3, Untouched
  <2>4. CASE /\ ~riskLocked[e]
             /\ status[e] \in {"STARTING", "PAUSED", "CONNECTION_LOST"}
             /\ status' = [status EXCEPT ![e] = "RUNNING"]
    BY <2>1, <2>4, RunsRefine
  <2> QED
    BY <2>2, <2>3, <2>4
<1>5. ASSUME NEW c \in Call, ResumeRaises(c) PROVE UNCHANGED Contract!vars
  BY <1>5, Untouched DEF ResumeRaises, engineVars, workerVars
<1> QED
  BY <1>2, <1>3, <1>4, <1>5 DEF ResumeStep, Contract!Next, Contract!EngineStep

\* The loop of a worker.
LEMMA LoopRefines ==
  ASSUME Inv, Inv', NEW e \in Engine, LoopStep(e)
  PROVE  [Contract!Next]_(Contract!vars)
<1>1. TypeOK /\ TypeOK' /\ WorkerInv /\ LockedInv /\ ErrorEndsWork
  BY DEF Inv
<1>2. ASSUME WorkerLeaves(e) PROVE [Contract!Next]_(Contract!vars)
  <2>1. /\ worker' = [worker EXCEPT ![e] = "done"]
        /\ UNCHANGED <<status, riskLocked, stopEvent, late>>
    BY <1>2 DEF WorkerLeaves, Await
  <2>2. Doomed(e)'
    BY <1>1, <2>1 DEF Doomed, TypeOK
  <2> QED
    BY <2>1, <2>2, MovesRefine
<1>3. ASSUME WorkerProbes(e) PROVE [Contract!Next]_(Contract!vars)
  <2>1. /\ worker' = [worker EXCEPT ![e] = "probing"]
        /\ UNCHANGED <<status, riskLocked, stopEvent, late>>
    BY <1>3 DEF WorkerProbes, Await, engineVars
  <2>2. ~Doomed(e)
    BY <1>3 DEF WorkerProbes, Doomed
  <2> QED
    BY <2>1, <2>2, MovesRefine
<1>4. ASSUME WorkerFindsNoConnection(e) \/ WorkerProbeFails(e)
      PROVE  [Contract!Next]_(Contract!vars)
  <2>1. /\ Unhealthy(e) /\ worker[e] \in {"top", "probing"} /\ ~Doomed(e)
        /\ worker[e] = "top" => status[e] # "PAUSED"
        /\ UNCHANGED <<riskLocked, stopEvent, late>>
    BY <1>4 DEF WorkerFindsNoConnection, WorkerProbeFails, AtRest, Doomed
  <2>2. CASE /\ status[e] \in {"RUNNING", "PAUSED"}
             /\ status' = [status EXCEPT ![e] = "CONNECTION_LOST"]
             /\ worker' = [worker EXCEPT ![e] = "lost"]
    <3>1. ~riskLocked[e]
      BY <1>1, <2>1, <2>2 DEF LockedInv
    <3>2. /\ status'[e] = "CONNECTION_LOST" /\ riskLocked'[e] = riskLocked[e]
          /\ worker'[e] = "lost"
          /\ Others(e)
      BY <1>1, <2>1, <2>2 DEF TypeOK, Others
    <3>3. Allowance(e)' = "none"
      BY <3>2, AllowanceByStatus
    <3>4. Contract!Loses(e)
      BY <1>1, <2>1, <2>2, <3>1, <3>2, <3>3, Observed
         DEF Contract!Loses, Contract!Shows, Contract!Becomes
    <3> QED
      BY <3>4 DEF Contract!Next, Contract!EngineStep
  <2>3. CASE Raise(e)
    BY <2>1, <2>3, RaiseRefines
  <2>4. CASE /\ status[e] = "CONNECTION_LOST"
             /\ status' = [status EXCEPT ![e] = "ERROR"]
             /\ worker' = [worker EXCEPT ![e] = "failing"]
    BY <2>1, <2>4, FailsRefine
  <2>5. CASE status' = status /\ worker' = [worker EXCEPT ![e] = "top"]
    BY <2>1, <2>5, MovesRefine
  <2> QED
    BY <1>1, <2>1, <2>2, <2>3, <2>4, <2>5, UnhealthyOutcomes
<1>5. ASSUME WorkerLost(e) PROVE [Contract!Next]_(Contract!vars)
  <2>1. /\ worker[e] = "lost" /\ ~Doomed(e)
        /\ UNCHANGED <<riskLocked, stopEvent, late>>
    BY <1>5 DEF WorkerLost, Doomed
  <2>2. CASE /\ CanTransition(status[e], "ERROR", FALSE)
             /\ status' = [status EXCEPT ![e] = "ERROR"]
             /\ worker' = [worker EXCEPT ![e] = "failing"]
    <3>1. status[e] \in {"STARTING", "RUNNING", "CONNECTION_LOST"}
      BY <1>1, <2>2, Table DEF TypeOK
    <3>2. status[e] # "STARTING"
      BY <1>1, <2>1 DEF WorkerInv
    <3> QED
      BY <2>1, <2>2, <3>1, <3>2, FailsRefine
  <2>3. CASE Raise(e)
    BY <2>1, <2>3, RaiseRefines
  <2>4. CASE status' = status /\ worker' = [worker EXCEPT ![e] = "top"]
    BY <2>1, <2>4, MovesRefine
  <2> QED
    BY <1>5, <2>2, <2>3, <2>4, Zenon DEF WorkerLost, SetStatus, Await
<1>6. ASSUME WorkerGivesUp(e) PROVE UNCHANGED Contract!vars
  <2>1. /\ worker[e] = "failing" /\ worker' = [worker EXCEPT ![e] = "top"]
        /\ UNCHANGED <<status, riskLocked>>
        /\ stopEvent' = [stopEvent EXCEPT ![e] = TRUE]
        /\ late' = IF stopEvent[e] THEN late ELSE [late EXCEPT ![e] = 0]
    BY <1>6 DEF WorkerGivesUp, SetStopEvent, Await
  <2>2. /\ status'[e] = status[e] /\ riskLocked'[e] = riskLocked[e]
        /\ worker'[e] = "top" /\ stopEvent'[e]
        /\ Others(e)
    BY <1>1, <2>1 DEF TypeOK, Others
  <2>3. Doomed(e) /\ Doomed(e)'
    BY <2>1, <2>2 DEF Doomed
  <2>4. status[e] \in {"STOPPING", "STOPPED", "ERROR"}
    BY <1>1, <2>1 DEF WorkerInv
  <2>5. Allowance(e) = "none" /\ Allowance(e)' = "none"
    BY <2>2, <2>3, <2>4, AllowanceByStatus
  <2> QED
    BY <1>1, <2>1, <2>2, <2>5, Unseen
<1>7. ASSUME WorkerProbeSucceeds(e) PROVE [Contract!Next]_(Contract!vars)
  <2>1. /\ worker[e] = "probing" /\ ~Doomed(e)
        /\ UNCHANGED <<riskLocked, stopEvent, late>>
        /\ \/ /\ status[e] = "CONNECTION_LOST"
              /\ status' = [status EXCEPT ![e] = "RUNNING"]
              /\ worker' = [worker EXCEPT ![e] = "recovering"]
           \/ status' = status /\ worker' = [worker EXCEPT ![e] = "candles"]
    BY <1>7 DEF WorkerProbeSucceeds, SetStatus, Await, Doomed
  <2>2. status[e] = "CONNECTION_LOST" => ~riskLocked[e]
    BY <1>1 DEF LockedInv
  <2> QED
    BY <2>1, <2>2, RunsRefine, MovesRefine
<1>8. ASSUME WorkerRecovered(e) PROVE [Contract!Next]_(Contract!vars)
  <2>1. /\ worker' = [worker EXCEPT ![e] = "candles"] /\ ~Doomed(e)
        /\ UNCHANGED <<status, riskLocked, stopEvent, late>>
    BY <1>8 DEF WorkerRecovered, Await, engineVars, Doomed
  <2> QED
    BY <2>1, MovesRefine
<1> QED
  BY <1>2, <1>3, <1>4, <1>5, <1>6, <1>7, <1>8 DEF LoopStep

\* One iteration of a worker.
LEMMA IterationRefines ==
  ASSUME Inv, Inv', NEW e \in Engine, IterationStep(e)
  PROVE  [Contract!Next]_(Contract!vars)
<1>1. /\ TypeOK /\ TypeOK' /\ WorkerInv /\ LockedInv /\ LateInv
      /\ RiskLockHolds /\ StoppedIsQuiet /\ ErrorEndsWork
  BY DEF Inv
\* A locked state is found, and shown by an engine that runs.
<1>2. ASSUME worker[e] \in {"candles", "payouts"}, NEW pc, pc \in {"locking", "payouts", "rechecking", "recording"},
             riskLocked' = [riskLocked EXCEPT ![e] = TRUE],
             worker' = [worker EXCEPT ![e] = pc],
             \/ status' = status
             \/ status[e] = "RUNNING" /\ status' = [status EXCEPT ![e] = "RISK_LOCKED"],
             UNCHANGED <<stopEvent, late>>
      PROVE  [Contract!Next]_(Contract!vars)
  <2>1. /\ riskLocked'[e] = TRUE /\ worker'[e] = pc
        /\ stopEvent'[e] = stopEvent[e] /\ late'[e] = late[e]
        /\ Others(e)
    BY <1>1, <1>2 DEF TypeOK, Others
  <2>2. status[e] \in {"RUNNING", "PAUSED", "STOPPING", "RISK_LOCKED"}
    BY <1>1, <1>2 DEF TypeOK, Status, WorkerInv, StoppedIsQuiet, ErrorEndsWork
  <2>3. CASE status' = status
    <3>1. Allowance(e)' = Allowance(e)
      BY <1>2, <2>1, <2>3 DEF Allowance, Doomed
    <3>2. CASE status[e] = "RISK_LOCKED"
      <4>1. riskLocked[e] = TRUE
        BY <1>1, <3>2 DEF RiskLockHolds, TypeOK
      <4> QED
        BY <1>1, <1>2, <2>1, <2>3, <3>1, <4>1, Unseen
    <3>3. CASE status[e] # "RISK_LOCKED"
      <4>1. Contract!Locks(e)
        BY <1>1, <1>2, <2>1, <2>2, <2>3, <3>1, <3>3, Observed DEF Contract!Locks, Contract!Becomes
      <4> QED
        BY <4>1 DEF Contract!Next, Contract!EngineStep
    <3> QED
      BY <3>2, <3>3
  <2>4. CASE status[e] = "RUNNING" /\ status' = [status EXCEPT ![e] = "RISK_LOCKED"]
    <3>1. status'[e] = "RISK_LOCKED"
      BY <1>1, <2>4 DEF TypeOK
    <3>2. Allowance(e)' = "none"
      BY <3>1, AllowanceByStatus
    <3>3. Contract!Locks(e)
      BY <1>1, <1>2, <2>1, <2>4, <3>1, <3>2, Observed DEF Contract!Locks, Contract!Becomes
    <3> QED
      BY <3>3 DEF Contract!Next, Contract!EngineStep
  <2> QED
    BY <1>2, <2>3, <2>4
<1>3. ASSUME NEW signal \in BOOLEAN, WorkerEvaluates(e, signal)
      PROVE  [Contract!Next]_(Contract!vars)
  <2> DEFINE locked == riskLocked[e] \/ e \in LossLimited
  <2>1. /\ worker[e] = "candles" /\ ~Doomed(e)
        /\ riskLocked' = [riskLocked EXCEPT ![e] = locked]
        /\ UNCHANGED <<stopEvent, late>>
    BY <1>3 DEF WorkerEvaluates, Doomed
  <2>2. \E pc \in {"locking", "payouts", "rechecking", "recording"} :
          /\ worker' = [worker EXCEPT ![e] = pc]
          /\ \/ status' = status
             \/ locked /\ status[e] = "RUNNING" /\ status' = [status EXCEPT ![e] = "RISK_LOCKED"]
    BY <1>3, SMTT(30) DEF WorkerEvaluates, Checked, Decide, Await, SetStatus
  <2>3. CASE locked
    <3>1. riskLocked' = [riskLocked EXCEPT ![e] = TRUE]
      BY <2>1, <2>3
    <3> QED
      BY <1>2, <2>1, <2>2, <3>1
  <2>4. CASE ~locked
    <3>1. riskLocked' = riskLocked /\ status' = status
      BY <1>1, <2>1, <2>2, <2>4 DEF TypeOK
    <3> QED
      BY <2>1, <2>2, <3>1, MovesRefine
  <2> QED
    BY <2>3, <2>4
<1>4. ASSUME NEW enough \in BOOLEAN, WorkerChecksPayout(e, enough)
      PROVE  [Contract!Next]_(Contract!vars)
  <2>1. /\ worker[e] = "payouts" /\ ~Doomed(e)
        /\ UNCHANGED <<riskLocked, stopEvent, late>>
    BY <1>4 DEF WorkerChecksPayout, Doomed
  <2>2. \E pc \in {"locking", "payouts", "rechecking", "recording"} :
          /\ worker' = [worker EXCEPT ![e] = pc]
          /\ \/ status' = status
             \/ /\ riskLocked[e] /\ status[e] = "RUNNING"
                /\ status' = [status EXCEPT ![e] = "RISK_LOCKED"]
    BY <1>4, SMTT(30) DEF WorkerChecksPayout, Checked, Decide, Await, SetStatus
  <2>3. CASE status' = status
    BY <2>1, <2>2, <2>3, MovesRefine
  <2>4. CASE /\ riskLocked[e] /\ status[e] = "RUNNING"
             /\ status' = [status EXCEPT ![e] = "RISK_LOCKED"]
    <3>1. riskLocked' = [riskLocked EXCEPT ![e] = TRUE]
      BY <1>1, <2>1, <2>4 DEF TypeOK
    <3> QED
      BY <1>2, <2>1, <2>2, <2>4, <3>1
  <2> QED
    BY <2>2, <2>3, <2>4
<1>5. ASSUME WorkerLocked(e) PROVE [Contract!Next]_(Contract!vars)
  <2>1. \E pc \in {"rechecking", "recording"} : worker' = [worker EXCEPT ![e] = pc]
    BY <1>5 DEF WorkerLocked, Decide, Await
  <2>2. ~Doomed(e) /\ UNCHANGED <<status, riskLocked, stopEvent, late>>
    BY <1>5 DEF WorkerLocked, Doomed, engineVars
  <2> QED
    BY <2>1, <2>2, MovesRefine
<1>6. ASSUME NEW up \in BOOLEAN, WorkerRechecks(e, up) PROVE [Contract!Next]_(Contract!vars)
  <2>1. \E pc \in {"claiming", "recording"} : worker' = [worker EXCEPT ![e] = pc]
    BY <1>6 DEF WorkerRechecks, Await
  <2>2. ~Doomed(e) /\ UNCHANGED <<status, riskLocked, stopEvent, late>>
    BY <1>6 DEF WorkerRechecks, Doomed
  <2> QED
    BY <2>1, <2>2, MovesRefine
<1>7. ASSUME WorkerPosts(e) PROVE Contract!Orders(e)
  <2>1. /\ worker[e] = "claiming" /\ worker' = [worker EXCEPT ![e] = "ordering"]
        /\ late' = IF stopEvent[e] \/ status[e] = "PAUSED"
                   THEN [late EXCEPT ![e] = late[e] + 1]
                   ELSE late
        /\ UNCHANGED <<status, riskLocked, stopEvent>>
    BY <1>7 DEF WorkerPosts, Await, engineVars
  <2>2. status[e] \in {"RUNNING", "PAUSED", "STOPPING"} /\ riskLocked[e] = FALSE
    BY <1>1, <2>1 DEF TypeOK, Status, WorkerInv, StoppedIsQuiet, ErrorEndsWork, RiskLockHolds, Placing
  <2>3. stopEvent[e] \/ status[e] = "PAUSED" => late[e] = 0
    <3>1. late[e] \in Nat
      BY <1>1 DEF TypeOK
    <3>2. worker[e] \in BeforeOrder
      BY <2>1 DEF BeforeOrder
    <3>3. late[e] <= 1 /\ (stopEvent[e] \/ status[e] = "PAUSED" => late[e] # 1)
      BY <1>1, <3>2 DEF LateInv
    <3> QED
      BY <3>1, <3>3
  <2>4. stopEvent[e] => status[e] # "RUNNING"
    BY <1>1 DEF WorkerInv
  <2>5. /\ status'[e] = status[e] /\ riskLocked'[e] = FALSE /\ worker'[e] = "ordering"
        /\ stopEvent'[e] = stopEvent[e]
        /\ late'[e] = IF stopEvent[e] \/ status[e] = "PAUSED" THEN 1 ELSE late[e]
        /\ Others(e)
    BY <1>1, <2>1, <2>2, <2>3 DEF TypeOK, Others
  <2>6. ~Doomed(e) /\ ~Doomed(e)'
    BY <2>1, <2>5 DEF Doomed
  <2>7. \/ Allowance(e) = "any" /\ Allowance(e)' = "any"
        \/ Allowance(e) = "last" /\ Allowance(e)' = "none"
    BY <2>2, <2>3, <2>4, <2>5, <2>6, AllowanceByStatus
  <2> QED
    BY <1>1, <2>1, <2>2, <2>5, <2>7, Observed, ZenonT(40) DEF Contract!Orders, Contract!Becomes
<1>8. ASSUME WorkerPlaced(e) \/ WorkerRecorded(e) PROVE [Contract!Next]_(Contract!vars)
  <2>1. /\ \E pc \in {"recording", "top"} : worker' = [worker EXCEPT ![e] = pc]
        /\ UNCHANGED <<status, riskLocked, stopEvent, late>>
    BY <1>8 DEF WorkerPlaced, WorkerRecorded, Await, engineVars
  <2>2. ~Doomed(e)
    BY <1>8 DEF WorkerPlaced, WorkerRecorded, Placing, Doomed
  <2> QED
    BY <2>1, <2>2, MovesRefine
<1> QED
  BY <1>3, <1>4, <1>5, <1>6, <1>7, <1>8 DEF IterationStep, Contract!Next, Contract!EngineStep

\* A worker ends, by an exception or cancelled.
LEMMA EndRefines ==
  ASSUME Inv, Inv', NEW e \in Engine, WorkerRaises(e) \/ WorkerEnds(e)
  PROVE  [Contract!Next]_(Contract!vars)
<1>1. ASSUME WorkerRaises(e) PROVE [Contract!Next]_(Contract!vars)
  <2>1. Raise(e) /\ worker[e] # "absent" /\ UNCHANGED <<riskLocked, stopEvent, late>>
    BY <1>1 DEF WorkerRaises, CanRaise
  <2> QED
    BY <2>1, RaiseRefines
<1>2. ASSUME WorkerEnds(e) PROVE [Contract!Next]_(Contract!vars)
  <2>1. /\ worker' = [worker EXCEPT ![e] = "done"]
        /\ UNCHANGED <<status, riskLocked, stopEvent, late>>
    BY <1>2 DEF WorkerEnds, Await
  <2>2. Doomed(e)'
    BY <2>1 DEF Inv, TypeOK, Doomed
  <2> QED
    BY <2>1, <2>2, MovesRefine
<1> QED
  BY <1>1, <1>2

\* A step of handlers and workers is a step of the contract or is not observed.
LEMMA StepRefines == Inv /\ Inv' /\ [Next]_vars => [Contract!Next]_(Contract!vars)
<1> SUFFICES ASSUME Inv, Inv', [Next]_vars PROVE [Contract!Next]_(Contract!vars)
  OBVIOUS
<1>1. ASSUME ClientStep PROVE [Contract!Next]_(Contract!vars)
  <2>1. ASSUME \/ \E s \in Session, up \in BOOLEAN : Connect(s, up)
               \/ \E c \in Call, s \in Session : StartRequest(c, s) \/ DeleteDisconnects(c, s)
               \/ \E c \in Call, e \in Engine : ResumeRequest(c, e)
               \/ Shutdown
        PROVE  UNCHANGED Contract!vars
    BY <2>1, Untouched
       DEF Connect, StartRequest, DeleteDisconnects, ResumeRequest, Shutdown, engineVars, workerVars
  <2> QED
    BY <1>1, <2>1, StopRefines, RequestsRefine, Zenon DEF ClientStep
<1>2. CASE \E c \in Call, e \in Engine : ShutdownStops(c, e)
  BY <1>2, StopRefines, Zenon
<1>3. CASE \E c \in Call : CallStep(c)
  BY <1>3, StartRefines, StopRefines, RequestsRefine, Zenon DEF CallStep
<1>4. CASE \E e \in Engine : WorkerStep(e)
  BY <1>4, LoopRefines, IterationRefines, EndRefines, Zenon DEF WorkerStep
<1>5. CASE UNCHANGED vars
  BY <1>5, Untouched DEF vars, engineVars, workerVars
<1> QED
  BY <1>1, <1>2, <1>3, <1>4, <1>5 DEF Next

\* For any engines, sessions and requests, with and without failing commits, the
\* statuses of engines and the orders they send are those EngineContract allows
\* (engine_manager.py:59-117, trading_worker.py:21-97).
THEOREM Refinement == Spec => ImplementsContract
<1>1. Init => Contract!Init
  BY DEF Init, Contract!Init, Allowance
<1> QED
  BY <1>1, StepRefines, Invariance, PTL DEF Spec, Contract!Spec, ImplementsContract

=============================================================================
