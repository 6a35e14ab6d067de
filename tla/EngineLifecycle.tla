--------------------------- MODULE EngineLifecycle ---------------------------
(***************************************************************************)
(* The life of trading engines: the handlers of EngineManager              *)
(* (app/services/engine_manager.py) interleaved with the loops of their    *)
(* TradingWorkers (app/workers/trading_worker.py) and with the sessions of *)
(* ConnectionService they probe.                                           *)
(*                                                                         *)
(* The program is one asyncio event loop: control changes hands only where *)
(* a coroutine awaits the database, the external API, an event or a timer. *)
(* An action is the code from one such await to the next; the program      *)
(* counter of a worker or of a request names what it is awaiting.          *)
(*                                                                         *)
(* Data is abstracted to what control depends on: whether a signal came    *)
(* out of the checks unblocked (armed), whether risk is locked, whether    *)
(* the session is there and connected.  Every external call may answer     *)
(* anything; a database write may fail when DbMayFail holds.               *)
(***************************************************************************)
EXTENDS EngineState, Naturals

CONSTANTS Engine,       \* ids of EngineRuntime objects, one used by each start
          Session,      \* session ids
          Call,         \* slots for HTTP requests in flight at the same time
          NoEngine,     \* "no entry" in by_session, "no engine yet" in a request
          NoSession,    \* "no session" in an idle request
          DbMayFail,    \* may a commit raise (lost database, locked file)?
          PayoutCheck,  \* settings.min_payout > 0
          LossLimited   \* engines whose RiskState meets a loss limit (RiskLimits)

ASSUME LifecycleAssumption ==
    /\ NoEngine \notin Engine
    /\ NoSession \notin Session
    /\ Engine \intersect Call = {}
    /\ {DbMayFail, PayoutCheck} \subseteq BOOLEAN
    /\ LossLimited \subseteq Engine

VARIABLES
    status,      \* rt.status of each engine, "NONE" before it exists
    owner,       \* rt.config.session_id
    stopEvent,   \* rt.stop_event is set
    finished,    \* rt.finished_event is set
    riskLocked,  \* rt.risk.locked
    activeOrder, \* rt.active_order
    failures,    \* rt.connection_failures
    worker,      \* what the task of the engine is awaiting
    armed,       \* local to iteration(): a signal to execute, and nothing blocks it
    bySession,   \* EngineManager.by_session
    session,     \* ConnectionService._sessions: "absent", or its connected flag
    adrift,      \* callers inside healthy() whose context has been removed
    call,        \* the requests in flight
    closing,     \* the lifespan is ending: no request comes in any more
    toStop,      \* engines whose stop() the shutdown has yet to start
    late         \* history: orders posted since the last pause or stop

engineVars  == <<status, owner, stopEvent, finished, riskLocked, activeOrder>>
workerVars  == <<failures, worker, armed>>
sessionVars == <<session, adrift>>
lifeVars    == <<closing, toStop>>
vars == <<engineVars, workerVars, bySession, sessionVars, call, lifeVars, late>>

-----------------------------------------------------------------------------
\* Where a worker can be.  "top" is the head of the loop, _wait() included.

Probing == {"probing", "rechecking"}                \* inside healthy()
Placing == {"claiming", "ordering"}                 \* inside OrderService.place
BeforeOrder == {"probing", "recovering", "candles", "payouts", "locking",
                "rechecking", "claiming"}
Alive == BeforeOrder \union {"top", "lost", "failing", "ordering", "recording", "crashing"}
WorkerPC == Alive \union {"absent", "cancelled", "done"}

\* Where a request can be.
Starting == {"probing", "listing", "starting", "launching"}   \* holding manager.lock
Stopping == {"stopping", "waiting", "stopped"}
CallPC   == Starting \union Stopping \union {"idle", "resuming", "disconnecting"}

Request == [pc  : CallPC,
            op  : {"none", "start", "stop", "delete", "resume"},
            eng : Engine \union {NoEngine},
            ses : Session \union {NoSession}]

Idle == [pc |-> "idle", op |-> "none", eng |-> NoEngine, ses |-> NoSession]

TypeOK ==
    /\ status \in [Engine -> Status \union {"NONE"}]
    /\ owner \in [Engine -> Session \union {NoSession}]
    /\ stopEvent \in [Engine -> BOOLEAN]
    /\ finished \in [Engine -> BOOLEAN]
    /\ riskLocked \in [Engine -> BOOLEAN]
    /\ activeOrder \in [Engine -> BOOLEAN]
    /\ failures \in [Engine -> 0..3]
    /\ worker \in [Engine -> WorkerPC]
    /\ armed \in [Engine -> BOOLEAN]
    /\ bySession \in [Session -> Engine \union {NoEngine}]
    /\ session \in [Session -> {"absent", "connected", "disconnected"}]
    /\ adrift \subseteq Engine \union Call
    /\ call \in [Call -> Request]
    /\ closing \in BOOLEAN
    /\ toStop \subseteq Engine
    /\ late \in [Engine -> Nat]

Init ==
    /\ status = [e \in Engine |-> "NONE"]
    /\ owner = [e \in Engine |-> NoSession]
    /\ stopEvent = [e \in Engine |-> FALSE]
    /\ finished = [e \in Engine |-> FALSE]
    /\ riskLocked = [e \in Engine |-> FALSE]
    /\ activeOrder = [e \in Engine |-> FALSE]
    /\ failures = [e \in Engine |-> 0]
    /\ worker = [e \in Engine |-> "absent"]
    /\ armed = [e \in Engine |-> FALSE]
    /\ bySession = [s \in Session |-> NoEngine]
    /\ session = [s \in Session |-> "absent"]
    /\ adrift = {}
    /\ call = [c \in Call |-> Idle]
    /\ closing = FALSE
    /\ toStop = {}
    /\ late = [e \in Engine |-> 0]

-----------------------------------------------------------------------------
\* ConnectionService

Connected(s) == session[s] = "connected"

\* healthy() of prober p gets the answer up: it writes the flag of the context
\* it captured, which is the session's unless the session was removed meanwhile.
Answer(p, s, up) ==
    /\ session' = IF p \in adrift
                  THEN session
                  ELSE [session EXCEPT ![s] = IF up THEN "connected" ELSE "disconnected"]
    /\ adrift' = adrift \ {p}

Probers(s) ==
    {e \in Engine : worker[e] \in Probing /\ owner[e] = s}
    \union
    {c \in Call : call[c].pc \in {"probing", "resuming"} /\ call[c].ses = s}

\* POST /connection/session; an SSID that has a context gets that context back.
Connect(s, up) ==
    /\ ~closing
    /\ session[s] = "absent"
    /\ session' = [session EXCEPT ![s] = IF up THEN "connected" ELSE "disconnected"]
    /\ UNCHANGED <<engineVars, workerVars, bySession, adrift, call, lifeVars, late>>

-----------------------------------------------------------------------------
\* Shared pieces of the handlers

SetStatus(e, target) == status' = [status EXCEPT ![e] = target]

\* The id of an engine reaches a client in the answer to its start request.
Known(e) == worker[e] # "absent"

Free(c) == call[c].pc = "idle" /\ ~closing

Goto(c, pc) == call' = [call EXCEPT ![c].pc = pc]
Return(c) == call' = [call EXCEPT ![c] = Idle]

\* stop_event.set(): the history restarts when the event was not yet set.
SetStopEvent(e) ==
    /\ stopEvent' = [stopEvent EXCEPT ![e] = TRUE]
    /\ late' = IF stopEvent[e] THEN late ELSE [late EXCEPT ![e] = 0]

\* Mutant: the time out of stop() is ignored.
NotCancelled(e) == worker

\* rt.task.cancel() does nothing without a task and to a finished one.
Cancelled(e) ==
    IF worker[e] \in Alive THEN [worker EXCEPT ![e] = "cancelled"] ELSE worker

-----------------------------------------------------------------------------
\* EngineManager.start, under manager.lock

LockFree == \A c \in Call : call[c].pc \notin Starting

\* by_session has no engine that is still to be stopped.
SessionIsFree(s) == bySession[s] # NoEngine => status[bySession[s]] = "STOPPED"

StartRequest(c, s) ==
    /\ Free(c) /\ LockFree
    /\ SessionIsFree(s)
    /\ Connected(s)
    /\ call' = [call EXCEPT ![c] = [pc |-> "probing", op |-> "start", eng |-> NoEngine, ses |-> s]]
    /\ UNCHANGED <<engineVars, workerVars, bySession, sessionVars, lifeVars, late>>

\* healthy() answered; the checks on the request that follow may refuse it too.
StartProbed(c, up) ==
    /\ call[c].pc = "probing"
    /\ Answer(c, call[c].ses, up)
    /\ \/ up /\ Goto(c, "listing")
       \/ Return(c)
    /\ UNCHANGED <<engineVars, workerVars, bySession, lifeVars, late>>

\* The asset is available: the engine exists, registered under its session,
\* and its STARTING event is being written.
StartCreates(c, e) ==
    /\ call[c].pc = "listing"
    /\ status[e] = "NONE"
    /\ SetStatus(e, "STARTING")
    /\ owner' = [owner EXCEPT ![e] = call[c].ses]
    /\ bySession' = [bySession EXCEPT ![call[c].ses] = e]
    /\ call' = [call EXCEPT ![c] = [pc |-> "starting", op |-> "start", eng |-> e,
                                    ses |-> call[c].ses]]
    /\ UNCHANGED <<stopEvent, finished, riskLocked, activeOrder, workerVars,
                   sessionVars, lifeVars, late>>

\* Mutant: start waits until the engine may run.
StartRunsInTheEnd(c) ==
    /\ call[c].pc = "starting"
    /\ CanTransition(status[call[c].eng], "RUNNING", FALSE)
    /\ SetStatus(call[c].eng, "RUNNING")
    /\ Goto(c, "launching")
    /\ UNCHANGED <<owner, stopEvent, finished, riskLocked, activeOrder, workerVars,
                   bySession, sessionVars, lifeVars, late>>

\* The event is written: RUNNING, unless a stop has taken the engine over.
StartRuns(c) ==
    /\ call[c].pc = "starting"
    /\ IF CanTransition(status[call[c].eng], "RUNNING", FALSE)
       THEN SetStatus(call[c].eng, "RUNNING") /\ Goto(c, "launching")
       ELSE UNCHANGED status /\ Return(c)
    /\ UNCHANGED <<owner, stopEvent, finished, riskLocked, activeOrder, workerVars,
                   bySession, sessionVars, lifeVars, late>>

\* The RUNNING event and the engine_instances row are written: create_task.
StartLaunches(c) ==
    /\ call[c].pc = "launching"
    /\ worker' = [worker EXCEPT ![call[c].eng] = "top"]
    /\ Return(c)
    /\ UNCHANGED <<engineVars, failures, armed, bySession, sessionVars, lifeVars, late>>

\* An await of start raises: the external API while probing or listing (or the
\* asset is missing), the database afterwards.  Nothing is undone.
StartRaises(c) ==
    /\ \/ call[c].pc \in {"probing", "listing"}
       \/ DbMayFail /\ call[c].pc \in {"starting", "launching"}
    /\ Return(c)
    /\ adrift' = adrift \ {c}
    /\ UNCHANGED <<engineVars, workerVars, bySession, session, lifeVars, late>>

-----------------------------------------------------------------------------
\* EngineManager.stop, called by POST /engine/stop, DELETE /connection/session
\* and the shutdown

\* The code up to the first await, for an engine that is not STOPPED.
BeginStop(c, op, e) ==
    IF status[e] = "STOPPING"
    THEN /\ SetStopEvent(e)
         /\ call' = [call EXCEPT ![c] = [pc |-> "waiting", op |-> op, eng |-> e, ses |-> owner[e]]]
         /\ UNCHANGED status
    ELSE /\ CanTransition(status[e], "STOPPING", FALSE)
         /\ SetStatus(e, "STOPPING")
         /\ call' = [call EXCEPT ![c] = [pc |-> "stopping", op |-> op, eng |-> e, ses |-> owner[e]]]
         /\ UNCHANGED <<stopEvent, late>>

StopRequest(c, e) ==
    /\ Free(c) /\ Known(e)
    /\ status[e] # "STOPPED"
    /\ BeginStop(c, "stop", e)
    /\ UNCHANGED <<owner, finished, riskLocked, activeOrder, workerVars, bySession,
                   sessionVars, lifeVars>>

\* The STOPPING event is written: only now is the worker told.
StopSignals(c) ==
    /\ call[c].pc = "stopping"
    /\ SetStopEvent(call[c].eng)
    /\ Goto(c, "waiting")
    /\ UNCHANGED <<status, owner, finished, riskLocked, activeOrder, workerVars,
                   bySession, sessionVars, lifeVars>>

\* Mutant: stop() waits for finished_event without a time out.
StopWaitsForWorker(c) ==
    LET e == call[c].eng IN
    /\ call[c].pc = "waiting"
    /\ finished[e]
    /\ IF CanTransition(status[e], "STOPPED", FALSE)
       THEN SetStatus(e, "STOPPED") /\ Goto(c, "stopped")
       ELSE UNCHANGED status /\ Return(c)
    /\ UNCHANGED <<owner, stopEvent, finished, riskLocked, activeOrder, workerVars,
                   bySession, sessionVars, lifeVars, late>>

\* wait_for ends, with the worker gone or with its time out and the task
\* cancelled.  A second stop() finds the engine already STOPPED and raises.
StopWaited(c) ==
    LET e == call[c].eng IN
    /\ call[c].pc = "waiting"
    /\ worker' = IF finished[e] THEN worker ELSE Cancelled(e)
    /\ IF CanTransition(status[e], "STOPPED", FALSE)
       THEN SetStatus(e, "STOPPED") /\ Goto(c, "stopped")
       ELSE UNCHANGED status /\ Return(c)
    /\ UNCHANGED <<owner, stopEvent, finished, riskLocked, activeOrder, failures, armed,
                   bySession, sessionVars, lifeVars, late>>

\* DELETE goes on to service.disconnect(), which raises without a context.
BeginDisconnect(c, s) ==
    IF session[s] = "absent"
    THEN Return(c)
    ELSE call' = [call EXCEPT ![c] = [pc |-> "disconnecting", op |-> "delete",
                                      eng |-> NoEngine, ses |-> s]]

\* The STOPPED event is written: by_session loses the entry of the session,
\* whichever engine it names by now.
StopReturns(c) ==
    /\ call[c].pc = "stopped"
    /\ bySession' = [bySession EXCEPT ![call[c].ses] = NoEngine]
    /\ IF call[c].op = "delete" THEN BeginDisconnect(c, call[c].ses) ELSE Return(c)
    /\ UNCHANGED <<engineVars, workerVars, sessionVars, lifeVars, late>>

\* Writing the STOPPING or the STOPPED event raises: the status stays, the
\* worker is not told, by_session is not cleared, the session not disconnected.
StopRaises(c) ==
    /\ DbMayFail
    /\ call[c].pc \in {"stopping", "stopped"}
    /\ Return(c)
    /\ UNCHANGED <<engineVars, workerVars, bySession, sessionVars, lifeVars, late>>

-----------------------------------------------------------------------------
\* DELETE /connection/session/{id}

\* The engine by_session names is stopped first.
DeleteStops(c, s) ==
    /\ Free(c)
    /\ ~SessionIsFree(s)
    /\ BeginStop(c, "delete", bySession[s])
    /\ UNCHANGED <<owner, finished, riskLocked, activeOrder, workerVars, bySession,
                   sessionVars, lifeVars>>

\* No engine to stop: straight to disconnect().
DeleteDisconnects(c, s) ==
    /\ Free(c)
    /\ SessionIsFree(s)
    /\ session[s] # "absent"
    /\ BeginDisconnect(c, s)
    /\ UNCHANGED <<engineVars, workerVars, bySession, sessionVars, lifeVars, late>>

\* The external disconnect returned or raised: either way the context goes.
Disconnected(c) ==
    LET s == call[c].ses IN
    /\ call[c].pc = "disconnecting"
    /\ adrift' = IF session[s] = "absent" THEN adrift ELSE adrift \union Probers(s)
    /\ session' = [session EXCEPT ![s] = "absent"]
    /\ Return(c)
    /\ UNCHANGED <<engineVars, workerVars, bySession, lifeVars, late>>

-----------------------------------------------------------------------------
\* EngineManager.pause, resume, unlock_risk.  What follows their transition is
\* one database write whose failure only changes the answer to the client.

\* Mutant: the status is written without asking the table.
PauseAlways(e) ==
    /\ ~closing /\ Known(e)
    /\ SetStatus(e, "PAUSED")
    /\ late' = [late EXCEPT ![e] = 0]
    /\ UNCHANGED <<owner, stopEvent, finished, riskLocked, activeOrder, workerVars,
                   bySession, sessionVars, call, lifeVars>>

Pause(e) ==
    /\ ~closing /\ Known(e)
    /\ CanTransition(status[e], "PAUSED", FALSE)
    /\ SetStatus(e, "PAUSED")
    /\ late' = [late EXCEPT ![e] = 0]
    /\ UNCHANGED <<owner, stopEvent, finished, riskLocked, activeOrder, workerVars,
                   bySession, sessionVars, call, lifeVars>>

ResumeRequest(c, e) ==
    /\ Free(c) /\ Known(e)
    /\ Connected(owner[e])
    /\ call' = [call EXCEPT ![c] = [pc |-> "resuming", op |-> "resume", eng |-> e, ses |-> owner[e]]]
    /\ UNCHANGED <<engineVars, workerVars, bySession, sessionVars, lifeVars, late>>

\* Mutants: resume forgets the risk lock, or the table.
MayResumeLocked(e) == CanTransition(status[e], "RUNNING", FALSE)
MayResumeAlways(e) == ~riskLocked[e]

\* The guards of resume once healthy() has answered.
MayResume(e) == ~riskLocked[e] /\ CanTransition(status[e], "RUNNING", FALSE)

ResumeProbed(c, up) ==
    LET e == call[c].eng IN
    /\ call[c].pc = "resuming"
    /\ Answer(c, call[c].ses, up)
    /\ IF up /\ MayResume(e) THEN SetStatus(e, "RUNNING") ELSE UNCHANGED status
    /\ Return(c)
    /\ UNCHANGED <<owner, stopEvent, finished, riskLocked, activeOrder, workerVars,
                   bySession, lifeVars, late>>

\* healthy() raises on an HTTP error, and resume with it.
ResumeRaises(c) ==
    /\ call[c].pc = "resuming"
    /\ Return(c)
    /\ adrift' = adrift \ {c}
    /\ UNCHANGED <<engineVars, workerVars, bySession, session, lifeVars, late>>

\* The lock is cleared before the transition, which may then raise.
UnlockRisk(e) ==
    /\ ~closing /\ Known(e)
    /\ status[e] = "RISK_LOCKED" \/ riskLocked[e]
    /\ riskLocked' = [riskLocked EXCEPT ![e] = FALSE]
    /\ IF CanTransition(status[e], "RUNNING", TRUE)
       THEN SetStatus(e, "RUNNING")
       ELSE UNCHANGED status
    /\ UNCHANGED <<owner, stopEvent, finished, activeOrder, workerVars, bySession,
                   sessionVars, call, lifeVars, late>>

-----------------------------------------------------------------------------
\* The end of the lifespan: requests have been served, then gather() starts a
\* stop() for every engine that is not STOPPED.

\* Mutant: only engines shown as RUNNING are stopped.
ShutdownOfRunning ==
    /\ ~closing
    /\ \A c \in Call : call[c].pc = "idle"
    /\ closing' = TRUE
    /\ toStop' = {e \in Engine : status[e] = "RUNNING"}
    /\ UNCHANGED <<engineVars, workerVars, bySession, sessionVars, call, late>>

Shutdown ==
    /\ ~closing
    /\ \A c \in Call : call[c].pc = "idle"
    /\ closing' = TRUE
    /\ toStop' = {e \in Engine : status[e] \notin {"NONE", "STOPPED"}}
    /\ UNCHANGED <<engineVars, workerVars, bySession, sessionVars, call, late>>

ShutdownStops(c, e) ==
    /\ closing
    /\ call[c].pc = "idle"
    /\ e \in toStop
    /\ toStop' = toStop \ {e}
    /\ BeginStop(c, "stop", e)
    /\ UNCHANGED <<owner, finished, riskLocked, activeOrder, workerVars, bySession,
                   sessionVars, closing>>

-----------------------------------------------------------------------------
\* TradingWorker.run

Await(e, pc) == worker' = [worker EXCEPT ![e] = pc]

\* Mutant: a paused engine goes on.
AtRestWhenLocked(e) == status[e] = "RISK_LOCKED"

\* The engine is at rest: the loop only waits.
AtRest(e) == status[e] \in {"PAUSED", "RISK_LOCKED"}

\* An exception leaves the loop.  ERROR is entered where the table has it (from
\* STOPPING and STOPPED it is not tried); where the table has not, transition
\* raises in the handler itself.  The task ends either way.
Raise(e) ==
    IF CanTransition(status[e], "ERROR", FALSE)
    THEN SetStatus(e, "ERROR") /\ Await(e, "crashing") /\ UNCHANGED finished
    ELSE /\ Await(e, "done")
         /\ finished' = [finished EXCEPT ![e] = TRUE]
         /\ UNCHANGED status

\* stop_event is set: the loop ends.
WorkerLeaves(e) ==
    /\ worker[e] = "top" /\ stopEvent[e]
    /\ Await(e, "done")
    /\ finished' = [finished EXCEPT ![e] = TRUE]
    /\ UNCHANGED <<status, owner, stopEvent, riskLocked, activeOrder, failures, armed,
                   bySession, sessionVars, call, lifeVars, late>>

\* The pause between iterations is over and healthy() asks the external API.
WorkerProbes(e) ==
    /\ worker[e] = "top" /\ ~stopEvent[e] /\ ~AtRest(e)
    /\ Connected(owner[e])
    /\ Await(e, "probing")
    /\ UNCHANGED <<engineVars, failures, armed, bySession, sessionVars, call, lifeVars, late>>

\* Mutant: a fourth failure is waited for.
UnhealthyOnceMore(e) ==
    /\ failures' = [failures EXCEPT ![e] = @ + 1]
    /\ \/ /\ status[e] # "CONNECTION_LOST"
          /\ IF CanTransition(status[e], "CONNECTION_LOST", FALSE)
             THEN SetStatus(e, "CONNECTION_LOST") /\ Await(e, "lost") /\ UNCHANGED finished
             ELSE Raise(e)
       \/ /\ status[e] = "CONNECTION_LOST" /\ failures'[e] > 3
          /\ SetStatus(e, "ERROR") /\ Await(e, "failing")
          /\ UNCHANGED finished
       \/ /\ status[e] = "CONNECTION_LOST" /\ failures'[e] <= 3
          /\ Await(e, "top")
          /\ UNCHANGED <<status, finished>>

\* healthy() is false: the code up to the next await of run().
Unhealthy(e) ==
    /\ failures' = [failures EXCEPT ![e] = @ + 1]
    /\ \/ /\ status[e] # "CONNECTION_LOST"
          /\ IF CanTransition(status[e], "CONNECTION_LOST", FALSE)
             THEN SetStatus(e, "CONNECTION_LOST") /\ Await(e, "lost") /\ UNCHANGED finished
             ELSE Raise(e)
       \/ /\ status[e] = "CONNECTION_LOST" /\ failures'[e] >= 3
          /\ SetStatus(e, "ERROR") /\ Await(e, "failing")
          /\ UNCHANGED finished
       \/ /\ status[e] = "CONNECTION_LOST" /\ failures'[e] < 3
          /\ Await(e, "top")
          /\ UNCHANGED <<status, finished>>

\* Mutant: the worker waits for a session that is gone to come back.
WorkerWaitsForConnection(e) ==
    /\ worker[e] = "top" /\ ~stopEvent[e] /\ ~AtRest(e)
    /\ ~Connected(owner[e])
    /\ IF session[owner[e]] = "absent"
       THEN UNCHANGED <<status, finished, failures, worker>>
       ELSE Unhealthy(e)
    /\ UNCHANGED <<owner, stopEvent, riskLocked, activeOrder, armed, bySession,
                   sessionVars, call, lifeVars, late>>

\* Without a connected context healthy() answers at once.
WorkerFindsNoConnection(e) ==
    /\ worker[e] = "top" /\ ~stopEvent[e] /\ ~AtRest(e)
    /\ ~Connected(owner[e])
    /\ Unhealthy(e)
    /\ UNCHANGED <<owner, stopEvent, riskLocked, activeOrder, armed, bySession,
                   sessionVars, call, lifeVars, late>>

WorkerProbeFails(e) ==
    /\ worker[e] = "probing"
    /\ Answer(e, owner[e], FALSE)
    /\ Unhealthy(e)
    /\ UNCHANGED <<owner, stopEvent, riskLocked, activeOrder, armed, bySession,
                   call, lifeVars, late>>

\* The CONNECTION_LOST event is written.
WorkerLost(e) ==
    /\ worker[e] = "lost"
    /\ IF failures[e] >= 3
       THEN IF CanTransition(status[e], "ERROR", FALSE)
            THEN SetStatus(e, "ERROR") /\ Await(e, "failing") /\ UNCHANGED finished
            ELSE Raise(e)
       ELSE Await(e, "top") /\ UNCHANGED <<status, finished>>
    /\ UNCHANGED <<owner, stopEvent, riskLocked, activeOrder, failures, armed, bySession,
                   sessionVars, call, lifeVars, late>>

\* Mutant: the worker that gave up is not stopped.
WorkerGivesUpAndGoesOn(e) ==
    /\ worker[e] = "failing"
    /\ Await(e, "top")
    /\ UNCHANGED <<engineVars, failures, armed, bySession, sessionVars, call, lifeVars, late>>

\* The ERROR event of a third failure is written: the worker stops itself.
WorkerGivesUp(e) ==
    /\ worker[e] = "failing"
    /\ SetStopEvent(e)
    /\ Await(e, "top")
    /\ UNCHANGED <<status, owner, finished, riskLocked, activeOrder, failures, armed,
                   bySession, sessionVars, call, lifeVars>>

\* Mutant: a connection that is back is not shown.
WorkerProbeSucceedsSilently(e) ==
    /\ worker[e] = "probing"
    /\ Answer(e, owner[e], TRUE)
    /\ failures' = [failures EXCEPT ![e] = 0]
    /\ Await(e, "candles")
    /\ UNCHANGED <<engineVars, armed, bySession, call, lifeVars, late>>

WorkerProbeSucceeds(e) ==
    /\ worker[e] = "probing"
    /\ Answer(e, owner[e], TRUE)
    /\ failures' = [failures EXCEPT ![e] = 0]
    /\ IF status[e] = "CONNECTION_LOST"
       THEN SetStatus(e, "RUNNING") /\ Await(e, "recovering")
       ELSE UNCHANGED status /\ Await(e, "candles")
    /\ UNCHANGED <<owner, stopEvent, finished, riskLocked, activeOrder, armed, bySession,
                   call, lifeVars, late>>

WorkerRecovered(e) ==
    /\ worker[e] = "recovering"
    /\ Await(e, "candles")
    /\ UNCHANGED <<engineVars, failures, armed, bySession, sessionVars, call, lifeVars, late>>

-----------------------------------------------------------------------------
\* TradingWorker.iteration

\* The decision is taken: with a signal to execute, healthy() is asked again.
Decide(e, signal) ==
    Await(e, IF signal /\ Connected(owner[e]) THEN "rechecking" ELSE "recording")

\* The checks are over: enter RISK_LOCKED or go on to the decision.
Checked(e, locked, signal) ==
    IF locked /\ status[e] = "RUNNING"
    THEN SetStatus(e, "RISK_LOCKED") /\ Await(e, "locking")
    ELSE UNCHANGED status /\ Decide(e, signal)

\* The candles are there: indicators, scores and RiskService.validate, up to the
\* next await.  A locked state, or an order believed active, blocks the signal.
WorkerEvaluates(e, signal) ==
    LET locked == riskLocked[e] \/ e \in LossLimited IN
    /\ worker[e] = "candles"
    /\ signal => ~locked /\ ~activeOrder[e]
    /\ riskLocked' = [riskLocked EXCEPT ![e] = locked]
    /\ armed' = [armed EXCEPT ![e] = signal]
    /\ IF PayoutCheck
       THEN UNCHANGED status /\ Await(e, "payouts")
       ELSE Checked(e, locked, signal)
    /\ UNCHANGED <<owner, stopEvent, finished, activeOrder, failures, bySession,
                   sessionVars, call, lifeVars, late>>

\* The payouts are there; a low one blocks the signal.
WorkerChecksPayout(e, enough) ==
    /\ worker[e] = "payouts"
    /\ armed' = [armed EXCEPT ![e] = @ /\ enough]
    /\ Checked(e, riskLocked[e], armed[e] /\ enough)
    /\ UNCHANGED <<owner, stopEvent, finished, riskLocked, activeOrder, failures,
                   bySession, sessionVars, call, lifeVars, late>>

WorkerLocked(e) ==
    /\ worker[e] = "locking"
    /\ Decide(e, armed[e])
    /\ UNCHANGED <<engineVars, failures, armed, bySession, sessionVars, call, lifeVars, late>>

\* The last probe before the order.  Neither the status nor stop_event is read
\* again from here on.
WorkerRechecks(e, up) ==
    /\ worker[e] = "rechecking"
    /\ Answer(e, owner[e], up)
    /\ IF up
       THEN activeOrder' = [activeOrder EXCEPT ![e] = TRUE] /\ Await(e, "claiming")
       ELSE UNCHANGED activeOrder /\ Await(e, "recording")
    /\ UNCHANGED <<status, owner, stopEvent, finished, riskLocked, failures, armed,
                   bySession, call, lifeVars, late>>

\* OrderService.place claimed the signature in the database (OrderSubmission has
\* the detail): the order is posted.
WorkerPosts(e) ==
    /\ worker[e] = "claiming"
    /\ Await(e, "ordering")
    /\ late' = IF stopEvent[e] \/ status[e] = "PAUSED"
               THEN [late EXCEPT ![e] = @ + 1]
               ELSE late
    /\ UNCHANGED <<engineVars, failures, armed, bySession, sessionVars, call, lifeVars>>

\* Mutant: active_order is not cleared.
WorkerPlacedStillActive(e) ==
    /\ worker[e] \in Placing
    /\ Await(e, "recording")
    /\ UNCHANGED <<engineVars, failures, armed, bySession, sessionVars, call, lifeVars, late>>

\* place() returns: the signature was used already, or the answer is stored.
WorkerPlaced(e) ==
    /\ worker[e] \in Placing
    /\ activeOrder' = [activeOrder EXCEPT ![e] = FALSE]
    /\ Await(e, "recording")
    /\ UNCHANGED <<status, owner, stopEvent, finished, riskLocked, failures, armed,
                   bySession, sessionVars, call, lifeVars, late>>

\* The signal record is stored, and the worker waits for its next iteration.
WorkerRecorded(e) ==
    /\ worker[e] = "recording"
    /\ armed' = [armed EXCEPT ![e] = FALSE]
    /\ Await(e, "top")
    /\ UNCHANGED <<engineVars, failures, bySession, sessionVars, call, lifeVars, late>>

-----------------------------------------------------------------------------
\* Exceptions and cancellation

\* What the worker awaits can raise: an HTTP error or useless data, a failed
\* commit, a signature stored by somebody else since it was looked up.  An
\* answer to a posted order never raises (place catches it), its commit may.
CanRaise(e) ==
    \/ worker[e] \in {"probing", "rechecking", "candles", "payouts", "claiming"}
    \/ DbMayFail /\ worker[e] \in {"lost", "failing", "recovering", "locking",
                                   "ordering", "recording"}

WorkerRaises(e) ==
    /\ CanRaise(e)
    /\ Raise(e)
    /\ adrift' = adrift \ {e}
    /\ UNCHANGED <<owner, stopEvent, riskLocked, activeOrder, failures, armed, bySession,
                   session, call, lifeVars, late>>

\* The task ends: the ERROR event is written or not, or CancelledError arrives.
WorkerEnds(e) ==
    /\ worker[e] \in {"crashing", "cancelled"}
    /\ Await(e, "done")
    /\ finished' = [finished EXCEPT ![e] = TRUE]
    /\ adrift' = adrift \ {e}
    /\ UNCHANGED <<status, owner, stopEvent, riskLocked, activeOrder, failures, armed,
                   bySession, session, call, lifeVars, late>>

-----------------------------------------------------------------------------
StartStep(c) ==
    \/ \E up \in BOOLEAN : StartProbed(c, up)
    \/ \E e \in Engine : StartCreates(c, e)
    \/ StartRuns(c) \/ StartLaunches(c) \/ StartRaises(c)

StopStep(c) ==
    \/ StopSignals(c) \/ StopWaited(c) \/ StopReturns(c) \/ StopRaises(c)
    \/ Disconnected(c)

ResumeStep(c) ==
    \/ \E up \in BOOLEAN : ResumeProbed(c, up)
    \/ ResumeRaises(c)

\* A request in flight goes on.
CallStep(c) == StartStep(c) \/ StopStep(c) \/ ResumeStep(c)

\* The worker's task goes on.
LoopStep(e) ==
    \/ WorkerLeaves(e) \/ WorkerProbes(e) \/ WorkerFindsNoConnection(e)
    \/ WorkerProbeFails(e) \/ WorkerLost(e) \/ WorkerGivesUp(e)
    \/ WorkerProbeSucceeds(e) \/ WorkerRecovered(e)

IterationStep(e) ==
    \/ \E signal \in BOOLEAN : WorkerEvaluates(e, signal)
    \/ \E enough \in BOOLEAN : WorkerChecksPayout(e, enough)
    \/ WorkerLocked(e)
    \/ \E up \in BOOLEAN : WorkerRechecks(e, up)
    \/ WorkerPosts(e) \/ WorkerPlaced(e) \/ WorkerRecorded(e)

WorkerStep(e) == LoopStep(e) \/ IterationStep(e) \/ WorkerRaises(e) \/ WorkerEnds(e)

\* A client asks for something new, or the process is told to end.
ClientStep ==
    \/ \E s \in Session, up \in BOOLEAN : Connect(s, up)
    \/ \E c \in Call, s \in Session :
          StartRequest(c, s) \/ DeleteStops(c, s) \/ DeleteDisconnects(c, s)
    \/ \E c \in Call, e \in Engine : StopRequest(c, e) \/ ResumeRequest(c, e)
    \/ \E e \in Engine : Pause(e) \/ UnlockRisk(e)
    \/ Shutdown

Next ==
    \/ ClientStep
    \/ \E c \in Call, e \in Engine : ShutdownStops(c, e)
    \/ \E c \in Call : CallStep(c)
    \/ \E e \in Engine : WorkerStep(e)

Spec == Init /\ [][Next]_vars

\* The event loop runs every task that is ready, every await is bounded by a
\* timeout (of the HTTP client, of wait_for, of the database driver), and
\* gather() starts what it is given.  Clients owe nothing.
Fairness ==
    /\ \A c \in Call : WF_vars(CallStep(c))
    /\ \A c \in Call, e \in Engine : WF_vars(ShutdownStops(c, e))
    /\ \A e \in Engine : WF_vars(WorkerStep(e))

FairSpec == Spec /\ Fairness

-----------------------------------------------------------------------------
\* Safety

\* The final status is final: no handler and no worker, however late it wakes
\* up, takes an engine out of STOPPED (engine_manager.py:59-103).  The table
\* itself has an exit, STOPPED -> STARTING.
StoppedIsFinal == [][\A e \in Engine : status[e] = "STOPPED" => status'[e] = "STOPPED"]_vars

\* Once an engine is STOPPED its task is over, is being cancelled, or is only
\* about to read stop_event: no iteration is in progress, so nothing is ordered,
\* and none begins (engine_manager.py:98-102, trading_worker.py:25).
StoppedIsQuiet ==
    \A e \in Engine : status[e] = "STOPPED" =>
        /\ stopEvent[e]
        /\ worker[e] \in {"absent", "top", "cancelled", "done"}

\* A pause, or a stop that has signalled the worker, lets at most the one order
\* through that the current iteration has decided: the loop re-reads both only
\* at its head (trading_worker.py:25-27, 93).
AtMostOneLateOrder == \A e \in Engine : late[e] <= 1

\* A live worker has an active order exactly while it is inside place(): the
\* flag that blocks orders and PATCH /config is never left behind on a worker
\* that goes on (trading_worker.py:92-94); only a dead one keeps it.
ActiveOrderWhilePlacing ==
    \A e \in Engine :
        worker[e] \in Alive \ {"crashing"} => (activeOrder[e] <=> worker[e] \in Placing)

\* The risk lock holds: an engine that is locked is not left RUNNING beyond the
\* iteration that locks it, has no order decided or under way, and RISK_LOCKED
\* is never shown without the lock, whatever unlocks, pauses, resumes and
\* reconnections come between (trading_worker.py:67-74, engine_manager.py:108-117).
RiskLockHolds ==
    \A e \in Engine :
        /\ status[e] = "RISK_LOCKED" => riskLocked[e]
        /\ riskLocked[e] =>
              /\ status[e] = "RUNNING" => worker[e] = "payouts"
              /\ worker[e] \notin Placing \union {"rechecking"}

\* The task is over, on its way out, or about to read stop_event.
Doomed(e) ==
    \/ worker[e] \in {"failing", "crashing", "cancelled", "done"}
    \/ worker[e] = "top" /\ stopEvent[e]

\* A step leaves ERROR only for STOPPING or STOPPED; in ERROR the worker is on its
\* way out, and a worker that is stays so: whatever is shown, resumed or stopped
\* afterwards, a connection given up or an exception ends the iterations of the
\* engine for good (engine_state.py:24, trading_worker.py:32-36, 45-50).
ErrorIsTerminal ==
    [][\A e \in Engine :
          /\ status[e] = "ERROR" => status'[e] \in {"ERROR", "STOPPING", "STOPPED"} /\ Doomed(e)
          /\ Doomed(e) => Doomed(e)']_vars

-----------------------------------------------------------------------------
\* What those who watch an engine can rely on

\* The orders an engine may still send, by what has been shown and signalled.
Allowance(e) ==
    CASE status[e] = "RUNNING" -> "any"
      [] status[e] = "STOPPING" /\ ~Doomed(e) /\ ~stopEvent[e] -> "any"
      [] status[e] = "PAUSED" /\ late[e] = 0 -> "last"
      [] status[e] = "STOPPING" /\ ~Doomed(e) /\ stopEvent[e] /\ late[e] = 0 -> "last"
      [] OTHER -> "none"

Contract == INSTANCE EngineContract
            WITH shown <- status, locked <- riskLocked,
                 allowance <- [e \in Engine |-> Allowance(e)],
                 ordering <- [e \in Engine |-> worker[e] = "ordering"]

\* Whatever tasks, requests and failing commits do to each other, the statuses of
\* an engine follow each other as EngineContract says, and an order is sent only
\* where it allows one: without a lock, one at a time, a single one after a pause
\* or the signal of a stop, none in any other status than RUNNING, PAUSED and
\* STOPPING (engine_manager.py:59-117, trading_worker.py:21-97).
ImplementsContract == Contract!Spec

-----------------------------------------------------------------------------
\* Liveness (of FairSpec)

\* Without database failures every stop that is begun is finished, whatever
\* the worker is doing or waiting for (engine_manager.py:94-103).
StopCompletes == \A e \in Engine : status[e] = "STOPPING" ~> status[e] = "STOPPED"

\* manager.lock is always given back: start never waits for ever while holding
\* it (engine_manager.py:67-88).
StartReleasesLock == []<>LockFree

\* CONNECTION_LOST is a passing status: the engine recovers, is stopped, or
\* gives up with ERROR (trading_worker.py:28-40).
LostConnectionResolves ==
    \A e \in Engine : status[e] = "CONNECTION_LOST" ~> status[e] # "CONNECTION_LOST"

\* Without database failures the end of the lifespan stops every engine there
\* is (engine_manager.py:130-131).
ShutdownStopsAll ==
    closing ~> \A e \in Engine : status[e] \in {"NONE", "STOPPED"}

\* An engine that runs on a session that a DELETE has removed, because it was being
\* started meanwhile, does not go on: it is stopped or paused, or finds the
\* connection gone, unless the session comes back
\* (routes/connection.py:20-29, connection_service.py:90-93, trading_worker.py:28-31).
OrphanNotices ==
    \A e \in Engine :
        /\ status[e] = "RUNNING" /\ worker[e] \notin {"absent", "done"}
        /\ session[owner[e]] = "absent"
        ~> status[e] # "RUNNING" \/ session[owner[e]] # "absent"

-----------------------------------------------------------------------------
\* What tests and schemas say, and the code does not keep

Active(e) == status[e] \notin {"NONE", "STOPPED"}

\* A session has at most one engine that is not STOPPED: a second start is
\* answered 409 (tests/test_engine.py:12).
OneEnginePerSession ==
    \A d, e \in Engine : d # e /\ Active(d) /\ Active(e) => owner[d] # owner[e]

\* The answer to DELETE /connection/session says that no engine of the session
\* is running (schemas/connection.py:36, engine_running: bool = False).
DeletedSessionHasNoEngine ==
    [][\A c \in Call : call[c].pc = "disconnecting" /\ call'[c].pc = "idle" =>
          \A e \in Engine : Active(e) => owner[e] # call[c].ses]_vars

\* An engine that was resumed, and any other one shown as RUNNING, has a worker
\* that polls, or is just being given one by start
\* (tests/test_engine.py:27, 31-32).
RunningHasWorker ==
    \A e \in Engine : status[e] = "RUNNING" =>
        \/ worker[e] \notin {"absent", "done"}
        \/ \E c \in Call : call[c].pc = "launching" /\ call[c].eng = e

=============================================================================
