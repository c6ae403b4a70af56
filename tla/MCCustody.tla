----------------------------- MODULE MCCustody ------------------------------
(***************************************************************************)
(* Small instances for the refinement of Wallets.                          *)
(***************************************************************************)
EXTENDS Custody, MCKiesnetToken
=============================================================================
