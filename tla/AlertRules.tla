------------------------------ MODULE AlertRules ------------------------------
(***************************************************************************)
(* What one evaluation of a rule does to the alert of one (agent, rule,    *)
(* resource): the life of an alert without rows, mails and                 *)
(* acknowledgements.  Alerts has the transaction that implements it,       *)
(* AlertEngine runs many of them.  A rule is a record [for, consecutive].  *)
(***************************************************************************)
EXTENDS Integers

\* There is no active row.
NoAlert == [state |-> "none", severity |-> "none", startedAt |-> 0, count |-> 0]

ActiveAlert(times) ==
  [state : {"pending", "firing"}, severity : {"warning", "critical"},
   startedAt : times, count : Nat]

\* Mutant: the alert starts when it will be due.
OpenedDue(rule, severity, at) ==
  [state |-> IF rule.for <= 0 /\ rule.consecutive <= 1 THEN "firing" ELSE "pending",
   severity |-> severity, startedAt |-> at + rule.for, count |-> 1]

\* A violation opens an alert that is pending unless its rule fires at once.
Opened(rule, severity, at) ==
  [state |-> IF rule.for <= 0 /\ rule.consecutive <= 1 THEN "firing" ELSE "pending",
   severity |-> severity, startedAt |-> at, count |-> 1]

\* Counts above the rule's number are not told apart.
NextCount(alert, rule) ==
  IF alert.count > rule.consecutive THEN alert.count ELSE alert.count + 1

DueAt(alert, rule, at) ==
  \/ rule.consecutive > 1 /\ alert.count + 1 >= rule.consecutive
  \/ rule.consecutive <= 1 /\ at - alert.startedAt >= rule.for

\* A further violation counts, takes over the severity, and fires the alert when due.
Continued(alert, rule, severity, at) ==
  [alert EXCEPT !.state = IF DueAt(alert, rule, at) THEN "firing" ELSE @,
                !.severity = severity,
                !.count = NextCount(alert, rule)]

Applied(alert, rule, violated, severity, at) ==
  IF ~violated THEN NoAlert
  ELSE IF alert = NoAlert THEN Opened(rule, severity, at)
  ELSE Continued(alert, rule, severity, at)
=============================================================================
