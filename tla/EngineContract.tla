--------------------------- MODULE EngineContract ---------------------------
(***************************************************************************)
(* What an engine promises to those who watch its status: in which order   *)
(* statuses follow each other, and which orders may be sent while one of   *)
(* them is shown.  There are no tasks, requests or sessions here, only     *)
(* what each engine may still do:                                          *)
(*                                                                         *)
(*   "any"   orders one after the other,                                   *)
(*   "last"  the one order that was being decided, and no more,            *)
(*   "none"  no order.                                                     *)
(***************************************************************************)
EXTENDS EngineState

CONSTANT Engine

VARIABLES
    shown,     \* the status of each engine, "NONE" before it exists
    locked,    \* its risk lock
    allowance, \* the orders it may still send
    ordering   \* an order has been sent and not been dealt with

vars == <<shown, locked, allowance, ordering>>

Init ==
    /\ shown = [e \in Engine |-> "NONE"]
    /\ locked = [e \in Engine |-> FALSE]
    /\ allowance = [e \in Engine |-> "none"]
    /\ ordering = [e \in Engine |-> FALSE]

-----------------------------------------------------------------------------
\* Engine e comes to show st, with lock lk, allowance al and an order sent or not.
Becomes(e, st, lk, al, od) ==
    /\ shown' = [shown EXCEPT ![e] = st]
    /\ locked' = [locked EXCEPT ![e] = lk]
    /\ allowance' = [allowance EXCEPT ![e] = al]
    /\ ordering' = [ordering EXCEPT ![e] = od]

\* Only the status and the allowance change.
Shows(e, st, al) == Becomes(e, st, locked[e], al, ordering[e])

Starts(e) == shown[e] = "NONE" /\ Shows(e, "STARTING", "none")

\* Nothing that is locked gets to RUNNING.
Runs(e) ==
    /\ shown[e] \in {"STARTING", "PAUSED", "CONNECTION_LOST"}
    /\ ~locked[e]
    /\ Shows(e, "RUNNING", "any")

Pauses(e) == shown[e] = "RUNNING" /\ Shows(e, "PAUSED", "last")

\* The connection is not found lost while an order is on its way.
Loses(e) ==
    /\ shown[e] \in {"RUNNING", "PAUSED"}
    /\ ~locked[e] /\ ~ordering[e]
    /\ Shows(e, "CONNECTION_LOST", "none")

Orders(e) ==
    /\ shown[e] \in {"RUNNING", "PAUSED", "STOPPING"}
    /\ ~locked[e] /\ ~ordering[e]
    /\ allowance[e] # "none"
    /\ Becomes(e, shown[e], FALSE, IF allowance[e] = "any" THEN "any" ELSE "none", TRUE)

\* The order is answered, timed out or given up; a stopped engine may end with it.
Answered(e) ==
    /\ ordering[e]
    /\ shown[e] \in {"RUNNING", "PAUSED", "STOPPING"}
    /\ \E al \in {allowance[e]} \union (IF shown[e] = "STOPPING" THEN {"none"} ELSE {}) :
          Becomes(e, shown[e], locked[e], al, FALSE)

\* A limit is met: the lock is set before it is shown, and is only shown by an
\* engine that runs.
Locks(e) ==
    /\ shown[e] \in {"RUNNING", "PAUSED", "STOPPING"}
    /\ ~ordering[e]
    /\ \/ Becomes(e, shown[e], TRUE, allowance[e], FALSE)
       \/ shown[e] = "RUNNING" /\ Becomes(e, "RISK_LOCKED", TRUE, "none", FALSE)

\* The lock is cleared, and an engine at rest runs again.
Unlocks(e) ==
    /\ locked[e]
    /\ IF shown[e] \in {"PAUSED", "RISK_LOCKED"}
       THEN Becomes(e, "RUNNING", FALSE, "any", ordering[e])
       ELSE /\ shown[e] \in {"RUNNING", "STOPPING", "STOPPED", "ERROR"}
            /\ Becomes(e, shown[e], FALSE, allowance[e], ordering[e])

\* Until the stop is signalled an engine goes on, even one that was at rest; one
\* with an ERROR does not.
BeginsToStop(e) ==
    /\ shown[e] \notin {"NONE", "STOPPING", "STOPPED"}
    /\ \E al \in IF shown[e] = "ERROR" THEN {"none"} ELSE {"any", "none"} :
          Shows(e, "STOPPING", al)

\* The stop is signalled, or the engine ends by itself while it is stopping.
Withdraws(e) ==
    /\ shown[e] = "STOPPING"
    /\ \/ allowance[e] = "any" /\ Shows(e, "STOPPING", "last")
       \/ Becomes(e, "STOPPING", locked[e], "none", ordering[e])

Stops(e) == shown[e] = "STOPPING" /\ Becomes(e, "STOPPED", locked[e], "none", FALSE)

Fails(e) ==
    /\ shown[e] \in {"RUNNING", "CONNECTION_LOST"}
    /\ Becomes(e, "ERROR", locked[e], "none", FALSE)

EngineStep(e) ==
    \/ Starts(e) \/ Runs(e) \/ Pauses(e) \/ Loses(e)
    \/ Orders(e) \/ Answered(e) \/ Locks(e) \/ Unlocks(e)
    \/ BeginsToStop(e) \/ Withdraws(e) \/ Stops(e) \/ Fails(e)

Next == \E e \in Engine : EngineStep(e)

Spec == Init /\ [][Next]_vars

=============================================================================
