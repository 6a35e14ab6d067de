---------------------------- MODULE MCConfluence ----------------------------
(***************************************************************************)
(* The instance of Confluence for TLC.                                     *)
(***************************************************************************)
EXTENDS Confluence

=============================================================================
