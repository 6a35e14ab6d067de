-------------------------- MODULE MCTradingDecision --------------------------
(***************************************************************************)
(* Instances of TradingDecision for TLC.                                   *)
(***************************************************************************)
EXTENDS TradingDecision, TLC

Symmetric == Permutations(Asset)

=============================================================================
