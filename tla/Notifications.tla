----------------------------- MODULE Notifications -----------------------------
(***************************************************************************)
(* The notification worker of the server (Server.Run, processNotifications)*)
(* beside the report handlers that evaluate rules, the operator who        *)
(* acknowledges alerts and changes preferences, the mail server and        *)
(* restarts.  A pass reads the preferences, then the pending alerts, then  *)
(* goes through this snapshot; mail is sent outside any transaction, so    *)
(* rows change between each decision, its mail and its mark.               *)
(***************************************************************************)
EXTENDS Alerts, AlertRules

CONSTANTS
  PreferenceChoices,  \* preferences the operator may save
  FaultChoices,       \* what may go wrong in a run: sets within {"mail", "store", "restart"}
  BatchLimit          \* alerts per pass, 50 in the code

ASSUME BatchAssumption == BatchLimit \in Nat \ {0}

VARIABLES
  preferences,  \* notification_preferences: [enabled, warnings, recovery]
  faults,       \* what may go wrong, fixed
  worker,       \* [pc, preferences, batch]: where the pass is and what it read
  superseded,   \* history: alerts of the batch with a newer transition since
  told,         \* history: per alert, the states mails announced
  announced     \* history: per severity, the last firing mail [id, at]

workerVars == <<worker, superseded, told, announced>>
vars == <<alertVars, preferences, faults, workerVars>>

\* No step fails and the rule keeps to one severity: superseded and announced, which only
\* matter then, are recorded then only.
Undisturbed == faults = {} /\ Cardinality(rule.severities) = 1

\* What the worker reads of an alert.
Snapshot == [id : 1 .. MaxRows, state : {"firing", "resolved"}, severity : Severities]

\* Where a pass is and what it read.
Pass == [pc : {"idle", "load", "next", "suppress", "send", "mark"},
         preferences : PreferenceChoices, batch : Seq(Snapshot)]

NoMail == [id |-> 0, at |-> NoTime]
Idle(prefs) == [pc |-> "idle", preferences |-> prefs, batch |-> <<>>]

TypeOK ==
  /\ AlertsTypeOK
  /\ preferences \in PreferenceChoices
  /\ faults \in FaultChoices
  /\ worker \in Pass
  /\ \A k \in DOMAIN worker.batch : worker.batch[k].id \in DOMAIN rows
  /\ superseded \subseteq 1 .. MaxRows
  /\ told \in [1 .. MaxRows -> SUBSET {"firing", "resolved"}]
  /\ announced \in [Severities -> [id : 0 .. MaxRows, at : {NoTime} \cup 0 .. MaxTime]]

Init ==
  /\ AlertsInit
  /\ preferences \in PreferenceChoices
  /\ faults \in FaultChoices
  /\ worker = Idle(preferences)
  /\ superseded = {}
  /\ told = [i \in 1 .. MaxRows |-> {}]
  /\ announced = [s \in Severities |-> NoMail]

-----------------------------------------------------------------------------
(* Everything beside the worker.                                           *)

InBatch == {worker.batch[k].id : k \in DOMAIN worker.batch}

\* A report handler evaluates the rule.  A transition that asks for a mail supersedes
\* the one the worker has in its batch.
Evaluate ==
  /\ \E violated \in BOOLEAN, severity \in rule.severities : ApplyRule(violated, severity)
  /\ superseded' = superseded \cup
       {i \in InBatch : /\ Undisturbed
                        /\ rows'[i].notification = "pending"
                        /\ \/ rows'[i].state # rows[i].state
                           \/ Escalates(i, rows'[i].severity)}
  /\ UNCHANGED <<preferences, faults, worker, told, announced>>

Acknowledge ==
  /\ \E i \in DOMAIN rows : AcknowledgeAlert(i)
  /\ UNCHANGED <<preferences, faults, workerVars>>

SaveNotifications ==
  /\ preferences' \in PreferenceChoices
  /\ preferences' # preferences
  /\ UNCHANGED <<alertVars, faults, workerVars>>

Tick ==
  /\ now < MaxTime
  /\ now' = now + 1
  /\ UNCHANGED <<rule, rows, streak, since, preferences, faults, workerVars>>

Restart ==
  /\ "restart" \in faults
  /\ worker.pc # "idle"
  /\ worker' = Idle(preferences)
  /\ superseded' = {}
  /\ UNCHANGED <<alertVars, preferences, faults, told, announced>>

-----------------------------------------------------------------------------
(* One pass of processNotifications.                                       *)

GoTo(pc, batch) == worker' = [worker EXCEPT !.pc = pc, !.batch = batch]

\* The wake channel, the minute ticker or the offline ticker starts a pass.
LoadPreferences ==
  /\ worker.pc = "idle"
  /\ worker' = [pc |-> "load", preferences |-> preferences, batch |-> <<>>]
  /\ UNCHANGED <<alertVars, preferences, faults, superseded, told, announced>>

\* The first BatchLimit pending alerts by id.
LoadPending ==
  /\ worker.pc = "load"
  /\ LET ids == {i \in Pending : Cardinality({j \in Pending : j < i}) < BatchLimit}
         Nth(k) == CHOOSE i \in ids : Cardinality({j \in ids : j < i}) = k - 1
     IN  GoTo("next", [k \in 1 .. Cardinality(ids) |->
                         [id |-> Nth(k), state |-> rows[Nth(k)].state,
                          severity |-> rows[Nth(k)].severity]])
  /\ UNCHANGED <<alertVars, preferences, faults, superseded, told, announced>>

\* Preferences, as the pass read them, that keep a mail from being sent.
Muted(alert) ==
  \/ ~worker.preferences.enabled
  \/ alert.severity = "warning" /\ ~worker.preferences.warnings
  \/ alert.state = "resolved" /\ ~worker.preferences.recovery

\* Mutant: a second alert within the cooldown is announced like the first.
JudgeByPreferences ==
  /\ worker.pc = "next" /\ worker.batch # <<>>
  /\ GoTo(IF Muted(Head(worker.batch)) THEN "suppress" ELSE "send", worker.batch)
  /\ UNCHANGED <<alertVars, preferences, faults, superseded, told, announced>>

Judge ==
  /\ worker.pc = "next" /\ worker.batch # <<>>
  /\ LET alert == Head(worker.batch) IN
       GoTo(IF Muted(alert) \/ NotificationInCooldown(alert) THEN "suppress" ELSE "send",
            worker.batch)
  /\ UNCHANGED <<alertVars, preferences, faults, superseded, told, announced>>

\* The alert is marked, or the update failed and was logged; the pass goes on.
Mark(state) ==
  /\ GoTo("next", Tail(worker.batch))
  /\ \/ MarkAlertDelivery(Head(worker.batch), state)
     \/ "store" \in faults /\ UNCHANGED rows
  /\ UNCHANGED <<rule, now, streak, since, preferences, faults, superseded, told, announced>>

Suppress == worker.pc = "suppress" /\ Mark("suppressed")

\* Mutant: a recovery is skipped, as an alert that is no longer active.
SendFiring ==
  /\ worker.pc = "send" /\ Head(worker.batch).state = "firing"
  /\ GoTo("mark", worker.batch)
  /\ told' = [told EXCEPT ![Head(worker.batch).id] = @ \cup {"firing"}]
  /\ UNCHANGED <<alertVars, preferences, faults, superseded, announced>>

\* SendTo delivered the mail.
Send ==
  /\ worker.pc = "send"
  /\ GoTo("mark", worker.batch)
  /\ LET alert == Head(worker.batch) IN
       /\ told' = [told EXCEPT ![alert.id] = @ \cup {alert.state}]
       /\ announced' = IF Undisturbed /\ alert.state = "firing"
                       THEN [announced EXCEPT ![alert.severity] = [id |-> alert.id, at |-> now]]
                       ELSE announced
  /\ UNCHANGED <<alertVars, preferences, faults, superseded>>

\* SendTo failed: the alert stays pending for a later pass.
SendFails ==
  /\ "mail" \in faults
  /\ worker.pc = "send"
  /\ GoTo("next", Tail(worker.batch))
  /\ UNCHANGED <<alertVars, preferences, faults, superseded, told, announced>>

MarkSent == worker.pc = "mark" /\ Mark("sent")

\* The cooldown query failed: the alert stays pending, the pass goes on.
Skip ==
  /\ "store" \in faults
  /\ worker.pc = "next" /\ worker.batch # <<>>
  /\ GoTo("next", Tail(worker.batch))
  /\ UNCHANGED <<alertVars, preferences, faults, superseded, told, announced>>

\* The batch is done, or a query failed or the 30 seconds of the pass are over.
EndPass ==
  /\ \/ worker.pc = "next" /\ worker.batch = <<>>
     \/ worker.pc \in {"load", "next"} /\ "store" \in faults
  /\ worker' = Idle(worker.preferences)
  /\ superseded' = {}
  /\ UNCHANGED <<alertVars, preferences, faults, told, announced>>

Work ==
  \/ LoadPreferences \/ LoadPending \/ Judge \/ Suppress
  \/ Send \/ SendFails \/ MarkSent \/ Skip \/ EndPass

Next ==
  \/ Evaluate \/ Acknowledge \/ SaveNotifications \/ Tick \/ Restart
  \/ Work

Spec == Init /\ [][Next]_vars

-----------------------------------------------------------------------------
(* Safety.                                                                 *)

\* Without rows and mails there is at most one alert at a time, with its state.
CurrentAlert ==
  IF Active = {} THEN NoAlert
  ELSE LET row == rows[CHOOSE i \in Active : TRUE] IN
       [state |-> row.state, severity |-> row.severity,
        startedAt |-> row.startedAt, count |-> row.count]

CurrentAcknowledgement ==
  IF Active = {} THEN "no" ELSE rows[CHOOSE i \in Active : TRUE].acknowledged

Cycle == INSTANCE AlertCycle WITH
  alert <- CurrentAlert, acknowledged <- CurrentAcknowledgement

\* Rows that are opened, marked, acknowledged and kept for ever implement the one alert
\* the rule engine counts on: there are never two of them, an evaluation finds the alert
\* the previous evaluation left whatever worker and operator do in between, and an alert
\* that was acknowledged as a warning asks again when it is critical (storage.go:482-577).
ImplementsAlertCycle == Cycle!Spec

\* An alert marked sent was announced in the state it is in: no recovery is consumed by
\* the mail about the firing that was in flight when it happened (storage.go:620).
SentWasMailed == \A i \in DOMAIN rows : rows[i].notification = "sent" => rows[i].state \in told[i]

\* An alert starts firing only after as many consecutive violations, or as long a time
\* of violations only, as its rule demands; an evaluation in between that is not
\* violated starts the count and the clock again.
FiresOnlyAfterStreak ==
  [][\A i \in DOMAIN rows' :
       (/\ rows'[i].state = "firing"
        /\ i \in DOMAIN rows => rows[i].state # "firing")
       => \/ rule.consecutive > 1 /\ streak' >= rule.consecutive
          \/ rule.consecutive <= 1 /\ now - since' >= rule.for]_vars

\* The cooldown: as long as no step fails and the rule keeps to one severity, no mail
\* announces an alert while another alert of the same rule, resource and severity was
\* announced within the cooldown.
CooldownHolds ==
  [][\A s \in Severities :
       Undisturbed /\ announced'[s] # announced[s] =>
         \/ announced[s].id \in {0, announced'[s].id}
         \/ now - announced[s].at > Cooldown]_vars

\* "Do not consume a newer transition [...] that happened while this notification was in
\* flight" (storage.go:620): a row marked by the worker had no newer transition.  The
\* mark compares state and severity, so this too is claimed for one severity only.
NoNewerTransitionConsumed ==
  [][\A i \in DOMAIN rows :
       (/\ Undisturbed
        /\ rows[i].notification = "pending"
        /\ rows'[i].notification \in {"sent", "suppressed"}
        /\ worker.pc \in {"mark", "suppress"}) => i \notin superseded]_vars

-----------------------------------------------------------------------------
(* Liveness.  The worker's loop always goes on (the minute ticker starts a *)
(* pass at the latest).  Each query, mail and update may fail many times,  *)
(* but for an alert whose turn comes again and again not every time.       *)

TurnOf(i) == worker.batch # <<>> /\ Head(worker.batch).id = i

Fairness ==
  /\ WF_vars(Work)
  /\ SF_vars(LoadPending)
  /\ \A i \in 1 .. MaxRows :
       /\ SF_vars(TurnOf(i) /\ Judge)
       /\ SF_vars(TurnOf(i) /\ Send)
       /\ SF_vars(TurnOf(i) /\ MarkSent /\ rows' # rows)
       /\ SF_vars(TurnOf(i) /\ Suppress /\ rows' # rows)

FairSpec == Spec /\ Fairness

\* Every transition that asks for a mail is answered, however mails, updates, queries
\* and passes fail before and whatever the operator mutes: the alert is announced or
\* suppressed in the state it then has (server.go:526-610).
EventuallyNotified ==
  \A i \in 1 .. MaxRows :
    i \in Pending ~> i \notin Pending
=============================================================================
