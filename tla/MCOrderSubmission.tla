-------------------------- MODULE MCOrderSubmission --------------------------
(***************************************************************************)
(* Instances of OrderSubmission for TLC.                                   *)
(***************************************************************************)
EXTENDS OrderSubmission, TLC

Symmetric == Permutations(Worker) \union Permutations(Signature)

=============================================================================
