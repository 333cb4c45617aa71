------------------------------ MODULE AlertCycle ------------------------------
(***************************************************************************)
(* The abstract specification of one alert: at any moment its rule may be  *)
(* evaluated or the operator may take it on, and nothing else changes it.  *)
(***************************************************************************)
EXTENDS AlertRules

CONSTANT Rules      \* kinds of rules: [for, consecutive, severities]

VARIABLES
  rule, alert, now,
  acknowledged  \* the severity the operator took the alert on at, or "no"

cycleVars == <<rule, alert, now, acknowledged>>

Init == rule \in Rules /\ alert = NoAlert /\ now = 0 /\ acknowledged = "no"

\* An alert that becomes critical, like a new one, waits for its acknowledgement.
Unattended == alert' = NoAlert \/ (alert.severity # "critical" /\ alert'.severity = "critical")

Evaluated ==
  /\ \E violated \in BOOLEAN, severity \in rule.severities :
       alert' = Applied(alert, rule, violated, severity, now)
  /\ acknowledged' = IF Unattended THEN "no" ELSE acknowledged
  /\ UNCHANGED <<rule, now>>

Acknowledged ==
  /\ alert # NoAlert /\ acknowledged = "no"
  /\ acknowledged' = alert.severity
  /\ UNCHANGED <<rule, alert, now>>

Elapsed == now' > now /\ UNCHANGED <<rule, alert, acknowledged>>

Spec == Init /\ [][Evaluated \/ Acknowledged \/ Elapsed]_cycleVars
=============================================================================
