------------------------------- MODULE MCAccess -------------------------------
(***************************************************************************)
(* Access with interchangeable tokens and login requests.                  *)
(***************************************************************************)
EXTENDS Access, TLC

Symmetry == Permutations(Tokens) \cup Permutations(Callers)
=============================================================================
