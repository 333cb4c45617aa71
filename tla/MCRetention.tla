----------------------------- MODULE MCRetention -----------------------------
(***************************************************************************)
(* Retention on instances small enough for TLC: an hour of two seconds.    *)
(***************************************************************************)
EXTENDS Retention
=============================================================================
