-------------------------------- MODULE MCLive --------------------------------
(***************************************************************************)
(* Live with one report after another, one change of an alert without a    *)
(* report, and channels that are full with one event; see live.cfg.        *)
(***************************************************************************)
EXTENDS Live
=============================================================================
