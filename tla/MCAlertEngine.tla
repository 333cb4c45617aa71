---------------------------- MODULE MCAlertEngine ----------------------------
(***************************************************************************)
(* AlertEngine with every kind of subject.                                 *)
(***************************************************************************)
EXTENDS AlertEngine

EverySubject == {"presence", "usage", "filesystem", "service", "container",
                 "site", "certificate"}
=============================================================================
