------------------------------- MODULE MCUpdate -------------------------------
(***************************************************************************)
(* One update; update.cfg gives the constants.                             *)
(***************************************************************************)
EXTENDS Update
=============================================================================
