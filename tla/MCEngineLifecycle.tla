------------------------- MODULE MCEngineLifecycle -------------------------
(***************************************************************************)
(* Instances of EngineLifecycle for TLC.                                   *)
(***************************************************************************)
EXTENDS EngineLifecycle, TLC

\* Requests in flight are interchangeable; engines are not, where one of them
\* meets a loss limit (not used in the run that checks liveness).
Symmetric == Permutations(Call)

\* States that differ in what nothing reads any more are explored once: the
\* failures counted by a worker that is over, and a signal that has been decided
\* (safety only).
Unread(e) == worker[e] \in {"crashing", "cancelled", "done"}
Undecided(e) == worker[e] \in {"payouts", "locking"}

View ==
    <<engineVars, worker, bySession, sessionVars, call, lifeVars, late,
      [e \in Engine |-> IF Unread(e) THEN 0 ELSE failures[e]],
      [e \in Engine |-> Undecided(e) /\ armed[e]]>>

=============================================================================
