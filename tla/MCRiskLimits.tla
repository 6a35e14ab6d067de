---------------------------- MODULE MCRiskLimits ----------------------------
(***************************************************************************)
(* Instances of RiskLimits for TLC.  With limits of 0 or 2 the losses,     *)
(* which are 0, meet one of the limits or none.                            *)
(***************************************************************************)
EXTENDS RiskLimits


=============================================================================
