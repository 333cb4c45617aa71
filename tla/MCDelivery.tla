----------------------------- MODULE MCDelivery -----------------------------
(***************************************************************************)
(* Delivery on instances small enough for TLC: the values of the constants *)
(* are in the .cfg files.                                                  *)
(***************************************************************************)
EXTENDS Delivery
=============================================================================
