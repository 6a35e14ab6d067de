---------------------------- MODULE EngineState ----------------------------
(***************************************************************************)
(* The status automaton of a trading engine (app/models/engine_state.py).  *)
(* Every change of EngineRuntime.status made by EngineManager.transition   *)
(* passes through ensure_transition, which raises InvalidStateTransition   *)
(* when CanTransition is false.                                            *)
(***************************************************************************)

Status == {"STOPPED", "STARTING", "RUNNING", "PAUSED", "STOPPING",
           "CONNECTION_LOST", "RISK_LOCKED", "ERROR"}

\* The dictionary TRANSITIONS, as the set of its (current, target) pairs.
Transitions ==
    ({"STOPPED"}         \X {"STARTING"})
    \union
    ({"STARTING"}        \X {"RUNNING", "ERROR", "STOPPING"})
    \union
    ({"RUNNING"}         \X {"PAUSED", "STOPPING", "CONNECTION_LOST", "RISK_LOCKED", "ERROR"})
    \union
    ({"PAUSED"}          \X {"RUNNING", "STOPPING", "CONNECTION_LOST", "RISK_LOCKED"})
    \union
    ({"CONNECTION_LOST"} \X {"RUNNING", "STOPPING", "ERROR"})
    \union
    ({"RISK_LOCKED"}     \X {"STOPPING", "RUNNING"})
    \union
    ({"ERROR"}           \X {"STOPPING", "STOPPED"})
    \union
    ({"STOPPING"}        \X {"STOPPED"})

\* ensure_transition(current, target, risk_unlocked=unlocked) does not raise.
CanTransition(current, target, unlocked) ==
    /\ <<current, target>> \in Transitions
    /\ (current = "RISK_LOCKED" /\ target = "RUNNING") => unlocked

=============================================================================
