-------------------------------- MODULE Alerts --------------------------------
(***************************************************************************)
(* The alert table for one (agent, rule, resource) and the transactions    *)
(* the server runs on it (internal/storage): ApplyRule, AcknowledgeAlert   *)
(* and the two queries and one update of the notification worker.  A row's *)
(* id is its index; rows are never deleted.  Each operator is one SQLite   *)
(* transaction, so one step.                                               *)
(***************************************************************************)
EXTENDS Integers, Sequences, FiniteSets

CONSTANTS
  Rules,      \* kinds of rules: [for, consecutive, severities]
  MaxRows,    \* bound: alerts opened
  MaxTime,    \* bound: the clock
  Cooldown    \* alert_cooldown

\* A rule that waits before it fires has one severity.
ASSUME RulesAssumption ==
  \A r \in Rules : /\ r.for \in Nat /\ r.consecutive \in Nat
                   /\ r.severities \subseteq {"warning", "critical"}
                   /\ \/ r.for = 0 /\ r.consecutive <= 1
                      \/ \E s \in r.severities : r.severities = {s}
ASSUME BoundsAssumption == MaxRows \in Nat /\ MaxTime \in Nat /\ Cooldown \in Nat

VARIABLES
  rule,     \* the rule's parameters, fixed
  rows,     \* the alerts, oldest first
  now,      \* the server's clock
  streak,   \* history: violated evaluations since the last one that was not
  since     \* history: the time of the first of them

alertVars == <<rule, rows, now, streak, since>>

NoTime == -1
Severities == {"warning", "critical"}
States == {"pending", "firing", "resolved"}
Notifications == {"none", "pending", "sent", "suppressed"}

Alert == [state : States, severity : Severities, notification : Notifications,
          notifiedAt : {NoTime} \cup 0 .. MaxTime, startedAt : 0 .. MaxTime,
          count : Nat, acknowledged : {"no"} \cup Severities]

AlertsTypeOK ==
  /\ rule \in Rules
  /\ rows \in Seq(Alert) /\ Len(rows) <= MaxRows
  /\ now \in 0 .. MaxTime
  /\ streak \in Nat
  /\ since \in 0 .. MaxTime

AlertsInit ==
  /\ rule \in Rules
  /\ rows = <<>>
  /\ now = 0
  /\ streak = 0 /\ since = 0

-----------------------------------------------------------------------------
(* ApplyRule.                                                              *)

\* Only whether the count reaches rule.consecutive matters.
Capped(count) == IF count > rule.consecutive THEN rule.consecutive + 1 ELSE count

Active == {i \in DOMAIN rows : rows[i].state \in {"pending", "firing"}}

Immediate == rule.for <= 0 /\ rule.consecutive <= 1

\* Mutant: the arguments of state and notification_state are swapped.
OpenSwapped(severity) ==
  /\ Len(rows) < MaxRows
  /\ rows' = Append(rows,
       [state |-> IF Immediate THEN "pending" ELSE "none",
        severity |-> severity,
        notification |-> IF Immediate THEN "firing" ELSE "pending",
        notifiedAt |-> NoTime, startedAt |-> now, count |-> 1,
        acknowledged |-> "no"])

Open(severity) ==
  /\ Len(rows) < MaxRows
  /\ rows' = Append(rows,
       [state |-> IF Immediate THEN "firing" ELSE "pending",
        severity |-> severity,
        notification |-> IF Immediate THEN "pending" ELSE "none",
        notifiedAt |-> NoTime, startedAt |-> now, count |-> 1,
        acknowledged |-> "no"])

\* Mutant: the count of earlier violations is compared, one too late or too early.
DueEarly(row) == row.count + 2 >= rule.consecutive /\ now - row.startedAt >= rule.for

\* A pending alert fires on enough consecutive violations, or after long enough.
Due(row) ==
  \/ rule.consecutive > 1 /\ row.count + 1 >= rule.consecutive
  \/ rule.consecutive <= 1 /\ now - row.startedAt >= rule.for

Fire(i, severity) ==
  /\ rows[i].state = "pending" /\ Due(rows[i])
  /\ rows' = [rows EXCEPT ![i] =
       [rows[i] EXCEPT !.state = "firing", !.severity = severity, !.notification = "pending",
                       !.count = Capped(rows[i].count + 1)]]

Escalates(i, severity) ==
  rows[i].state = "firing" /\ rows[i].severity # "critical" /\ severity = "critical"

\* Mutant: the acknowledgement outlives the escalation.
EscalateAcknowledged(i, severity) ==
  /\ Escalates(i, severity)
  /\ rows' = [rows EXCEPT ![i] =
       [rows[i] EXCEPT !.severity = severity, !.notification = "pending",
                       !.count = Capped(rows[i].count + 1)]]

Escalate(i, severity) ==
  /\ Escalates(i, severity)
  /\ rows' = [rows EXCEPT ![i] =
       [rows[i] EXCEPT !.severity = severity, !.notification = "pending",
                       !.count = Capped(rows[i].count + 1), !.acknowledged = "no"]]

\* Any other violation refreshes the row, its severity included.
Refresh(i, severity) ==
  /\ ~Escalates(i, severity)
  /\ ~(rows[i].state = "pending" /\ Due(rows[i]))
  /\ rows' = [rows EXCEPT ![i] =
       [rows[i] EXCEPT !.severity = severity, !.count = Capped(rows[i].count + 1)]]

\* A pending alert ends silently; a firing one asks for a recovery mail, unless the
\* mail about its firing had been suppressed.
Resolve(i) ==
  rows' = [rows EXCEPT ![i] =
    [rows[i] EXCEPT !.state = "resolved",
                     !.notification = IF rows[i].state = "pending" THEN "none"
                                      ELSE IF rows[i].notification = "suppressed"
                                           THEN "suppressed" ELSE "pending"]]

ApplyRule(violated, severity) ==
  /\ \/ violated /\ Active = {} /\ Open(severity)
     \/ violated /\ \E i \in Active : \/ Fire(i, severity)
                                      \/ Escalate(i, severity)
                                      \/ Refresh(i, severity)
     \/ ~violated /\ \E i \in Active : Resolve(i)
     \/ ~violated /\ Active = {} /\ UNCHANGED rows
  /\ streak' = IF violated THEN Capped(streak + 1) ELSE 0
  /\ since' = IF ~violated THEN 0 ELSE IF streak > 0 THEN since ELSE now
  /\ UNCHANGED <<rule, now>>

\* The operator takes an active alert on; only the first acknowledgement counts.
AcknowledgeAlert(i) ==
  /\ i \in Active /\ rows[i].acknowledged = "no"
  /\ rows' = [rows EXCEPT ![i] = [rows[i] EXCEPT !.acknowledged = rows[i].severity]]
  /\ UNCHANGED <<rule, now, streak, since>>

-----------------------------------------------------------------------------
(* What the notification worker asks of the store.  alert is a snapshot    *)
(* [id, state, severity] of a row.                                         *)

Pending == {i \in DOMAIN rows : /\ rows[i].notification = "pending"
                                /\ rows[i].state \in {"firing", "resolved"}}

\* Another alert of the same key and severity was announced within the cooldown.
NotificationInCooldown(alert) ==
  /\ alert.state = "firing" /\ Cooldown > 0
  /\ \E i \in DOMAIN rows \ {alert.id} :
       /\ rows[i].severity = alert.severity
       /\ rows[i].notification = "sent"
       /\ rows[i].notifiedAt >= now - Cooldown

\* Mutant: the row is marked by its id alone, as MarkAlertNotification does.
MarkAlertById(alert, state) ==
  rows' = [rows EXCEPT ![alert.id] =
    [rows[alert.id] EXCEPT !.notification = state,
       !.notifiedAt = IF state = "sent" THEN now ELSE rows[alert.id].notifiedAt]]

\* The update matches only while the row still shows what the worker saw.
MarkAlertDelivery(alert, state) ==
  IF /\ rows[alert.id].state = alert.state
     /\ rows[alert.id].severity = alert.severity
     /\ rows[alert.id].notification = "pending"
  THEN rows' = [rows EXCEPT ![alert.id] =
         [rows[alert.id] EXCEPT !.notification = state,
       !.notifiedAt = IF state = "sent" THEN now ELSE rows[alert.id].notifiedAt]]
  ELSE UNCHANGED rows
=============================================================================
