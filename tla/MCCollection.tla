---------------------------- MODULE MCCollection ----------------------------
(***************************************************************************)
(* Small instances for the liveness properties.                            *)
(***************************************************************************)
EXTENDS Collection, MCKiesnetToken
=============================================================================
