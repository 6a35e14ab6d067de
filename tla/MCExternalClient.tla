--------------------------- MODULE MCExternalClient ---------------------------
(***************************************************************************)
(* Instances of ExternalClient for TLC.                                    *)
(***************************************************************************)
EXTENDS ExternalClient

=============================================================================
