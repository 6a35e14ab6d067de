-------------------------- MODULE MCSwingStructure --------------------------
(***************************************************************************)
(* The instance of SwingStructure for TLC.                                 *)
(***************************************************************************)
EXTENDS SwingStructure

=============================================================================
