--------------------------- MODULE AlertEngineProofs ---------------------------
(***************************************************************************)
(* Proofs about the rule engine for every number of handlers, every        *)
(* duration, count and bound.  IInv adds to the types that one report is   *)
(* stored at a time (Posting), what a handler still has to evaluate        *)
(* (Evaluating), that a handler nobody overtook runs alone (Alone), and    *)
(* that such a handler's report already shows in the alerts of the rules   *)
(* it is done with (Settled).                                              *)
(***************************************************************************)
EXTENDS AlertEngine, TLAPS

-----------------------------------------------------------------------------
(* The invariant.                                                          *)

\* One report is being stored at a time, and waits at the agent until it is.
Posting ==
  /\ \A h, g \in Handlers : handler[h].pc = "save" /\ handler[g].pc = "save" => h = g
  /\ \A h \in Handlers : handler[h].pc = "save" => queue # <<>>

\* A handler evaluates the rules its report lists, then those it shows to be gone; one
\* whose report is too old only ends the alarm about the agent's silence.
Evaluating ==
  /\ \A h \in Handlers :
       LET state == handler[h] IN
         /\ state.pc \in {"idle", "save"} => state.todo = {}
         /\ state.pc \in {"rules", "missing"} => state.fresh
         /\ state.pc = "rules" => \A k \in state.todo : state.value \notin UnlistedFor[k]
         /\ state.pc = "missing" =>
              \A k \in state.todo : /\ k # "agent_offline"
                                    /\ state.value \in UnlistedFor[k] \ KeptFor[k]
         /\ state.pc = "online" => state.todo \subseteq {"agent_offline"}
  /\ check.pc # "idle" => "agent_offline" \in Keys

\* A handler that runs and was not overtaken runs alone.
Alone ==
  \A h, g \in Handlers :
    handler[h].pc # "idle" /\ h \notin overtaken /\ g # h => handler[g].pc = "idle"

\* The alert of a rule shows a reading.
Shows(k, value) ==
  /\ value \in ViolatedBy[k] => alerts[k].severity = Severity(k, value)
  /\ value \notin ViolatedBy[k] => alerts[k] = NoAlert

\* The rules a handler is done with show its report, unless other handlers interfered.
Settled ==
  \A h \in Handlers \ overtaken, k \in ReportRules :
    LET state == handler[h] IN
      k \notin state.todo =>
        /\ state.pc \in {"rules", "missing"} /\ state.value \notin UnlistedFor[k] =>
             Shows(k, state.value)
        /\ state.pc = "missing" /\ state.value \in UnlistedFor[k] \ KeptFor[k] =>
             alerts[k] = NoAlert

IInv == TypeOK /\ Posting /\ Evaluating /\ Alone /\ Settled

-----------------------------------------------------------------------------
(* The tables.                                                             *)

Table == {"agent_offline", "cpu_high", "disk_warning", "disk_critical", "systemd_unavailable",
          "docker_stopped", "docker_unhealthy", "http_failed", "tls_expiring"}

LEMMA KeysLemma ==
  ASSUME TypeOK
  PROVE  Keys \subseteq Table
<1>1. subject \in {"presence", "usage", "filesystem", "service", "container", "site", "certificate"}
  BY SubjectsAssumption DEF TypeOK, Readings
<1>2. CASE subject = "presence"
  BY <1>2 DEF Keys, RulesOf, Table
<1>3. CASE subject = "usage"
  BY <1>3 DEF Keys, RulesOf, Table
<1>4. CASE subject = "filesystem"
  BY <1>4 DEF Keys, RulesOf, Table
<1>5. CASE subject = "service"
  BY <1>5 DEF Keys, RulesOf, Table
<1>6. CASE subject = "container"
  BY <1>6 DEF Keys, RulesOf, Table
<1>7. CASE subject = "site"
  BY <1>7 DEF Keys, RulesOf, Table
<1>8. CASE subject = "certificate"
  BY <1>8 DEF Keys, RulesOf, Table
<1>9. QED  BY <1>1, <1>2, <1>3, <1>4, <1>5, <1>6, <1>7, <1>8

\* A reading that violates a rule is listed for it, and a kept alert's is not.
LEMMA TableLemma ==
  ASSUME NEW k \in Table
  PROVE  ViolatedBy[k] \cap UnlistedFor[k] = {} /\ KeptFor[k] \subseteq UnlistedFor[k]
<1>1. CASE k = "agent_offline"
  BY <1>1 DEF ViolatedBy, UnlistedFor, KeptFor
<1>2. CASE k = "cpu_high"
  BY <1>2 DEF ViolatedBy, UnlistedFor, KeptFor
<1>3. CASE k = "disk_warning"
  BY <1>3 DEF ViolatedBy, UnlistedFor, KeptFor
<1>4. CASE k = "disk_critical"
  BY <1>4 DEF ViolatedBy, UnlistedFor, KeptFor
<1>5. CASE k = "systemd_unavailable"
  BY <1>5 DEF ViolatedBy, UnlistedFor, KeptFor
<1>6. CASE k = "docker_stopped"
  BY <1>6 DEF ViolatedBy, UnlistedFor, KeptFor
<1>7. CASE k = "docker_unhealthy"
  BY <1>7 DEF ViolatedBy, UnlistedFor, KeptFor
<1>8. CASE k = "http_failed"
  BY <1>8 DEF ViolatedBy, UnlistedFor, KeptFor
<1>9. CASE k = "tls_expiring"
  BY <1>9 DEF ViolatedBy, UnlistedFor, KeptFor
<1>10. QED  BY <1>1, <1>2, <1>3, <1>4, <1>5, <1>6, <1>7, <1>8, <1>9 DEF Table

-----------------------------------------------------------------------------
(* The alerts.                                                             *)

\* What opens is an active alert.
LEMMA OpenedLemma ==
  ASSUME NEW times, NEW severity \in {"warning", "critical"}, NEW at \in times, NEW parameters
  PROVE  /\ Opened(parameters, severity, at) \in ActiveAlert(times)
         /\ Opened(parameters, severity, at).severity = severity
         /\ Opened(parameters, severity, at) # NoAlert
<1>1. PICK state : state = (IF parameters.for <= 0 /\ parameters.consecutive <= 1
                            THEN "firing" ELSE "pending")
  OBVIOUS
<1>2. state \in {"pending", "firing"}
  BY <1>1
<1>3. Opened(parameters, severity, at)
        = [state |-> state, severity |-> severity, startedAt |-> at, count |-> 1]
  BY <1>1, Zenon DEF Opened
<1>4. [state |-> state, severity |-> severity, startedAt |-> at, count |-> 1] \in ActiveAlert(times)
  BY <1>2 DEF ActiveAlert
<1>5. [state |-> state, severity |-> severity, startedAt |-> at, count |-> 1] # NoAlert
  <2>1. state # NoAlert.state
    BY <1>2 DEF NoAlert
  <2>2. [state |-> state, severity |-> severity, startedAt |-> at, count |-> 1].state = state
    OBVIOUS
  <2>3. QED  BY <2>1, <2>2, Zenon
<1>6. [state |-> state, severity |-> severity, startedAt |-> at, count |-> 1].severity = severity
  OBVIOUS
<1>7. QED  BY <1>3, <1>4, <1>5, <1>6, Zenon

\* A violation leaves an alert of its severity.
LEMMA AppliedLemma ==
  ASSUME NEW at \in 0 .. now, now \in Nat, NEW alert \in ActiveAlert(0 .. now) \cup {NoAlert},
         NEW parameters, parameters.for \in Nat, parameters.consecutive \in Nat,
         NEW severity \in {"warning", "critical"}, NEW new,
         new = Applied(alert, parameters, TRUE, severity, at)
  PROVE  new \in ActiveAlert(0 .. now) /\ new.severity = severity /\ new # NoAlert
<1>1. CASE alert = NoAlert
  <2>1. new = Opened(parameters, severity, at)
    BY <1>1 DEF Applied
  <2>2. PICK times : times = 0 .. now
    OBVIOUS
  <2>3. at \in times
    BY <2>2
  <2>4. /\ Opened(parameters, severity, at) \in ActiveAlert(times)
        /\ Opened(parameters, severity, at).severity = severity
        /\ Opened(parameters, severity, at) # NoAlert
    BY <2>3, OpenedLemma
  <2>5. QED  BY <2>1, <2>2, <2>4, Zenon
<1>2. CASE alert # NoAlert
  <2>1. alert \in ActiveAlert(0 .. now) /\ alert.count \in Nat
    BY <1>2 DEF ActiveAlert
  <2>2. PICK state, count : /\ state = (IF DueAt(alert, parameters, at) THEN "firing" ELSE alert.state)
                            /\ count = NextCount(alert, parameters)
    OBVIOUS
  <2>3. state \in {"pending", "firing"} /\ count \in Nat
    BY <2>1, <2>2 DEF NextCount, ActiveAlert
  <2>4. new = Continued(alert, parameters, severity, at)
    BY <1>2 DEF Applied
  <2>5. new = [alert EXCEPT !.state = state, !.severity = severity, !.count = count]
    BY <2>2, <2>4, Zenon DEF Continued
  <2>6. new \in ActiveAlert(0 .. now) /\ new.severity = severity /\ new.state = state
    BY <2>1, <2>3, <2>5 DEF ActiveAlert
  <2>7. new.state # NoAlert.state
    BY <2>3, <2>6 DEF NoAlert
  <2>8. QED  BY <2>6, <2>7
<1>3. QED  BY <1>1, <1>2

\* What an evaluation does to the alert of its rule, and only to that.
LEMMA ApplyRuleLemma ==
  ASSUME TypeOK, NEW evaluation, evaluation.key \in Keys, evaluation.violated \in BOOLEAN,
         evaluation.severity \in {"warning", "critical"}, NEW at \in 0 .. now,
         ApplyRule(evaluation, at)
  PROVE  /\ alerts' \in [Keys -> ActiveAlert(0 .. now) \cup {NoAlert}]
         /\ \A k \in Keys \ {evaluation.key} : alerts'[k] = alerts[k]
         /\ evaluation.violated => /\ alerts'[evaluation.key].severity = evaluation.severity
                                   /\ alerts'[evaluation.key] # NoAlert
         /\ ~evaluation.violated => alerts'[evaluation.key] = NoAlert
         /\ dipped' \subseteq dipped
<1> DEFINE key == evaluation.key
           time == IF Parameters(key).for > 0 THEN at ELSE 0
<1>1. now \in Nat /\ time \in 0 .. now /\ alerts \in [Keys -> ActiveAlert(0 .. now) \cup {NoAlert}]
  BY EngineAssumption DEF TypeOK
<1>2. Parameters(key).for \in Nat /\ Parameters(key).consecutive \in Nat
  BY EngineAssumption DEF Parameters
<1>3. PICK new : /\ new = Applied(alerts[key], Parameters(key), evaluation.violated,
                                  evaluation.severity, time)
                 /\ alerts' = [alerts EXCEPT ![key] = new]
  BY Zenon DEF ApplyRule
<1>4. alerts[key] \in ActiveAlert(0 .. now) \cup {NoAlert}
  BY <1>1
<1> HIDE DEF time
<1>5. /\ new \in ActiveAlert(0 .. now) \cup {NoAlert}
      /\ evaluation.violated => new.severity = evaluation.severity /\ new # NoAlert
      /\ ~evaluation.violated => new = NoAlert
  <2>1. CASE evaluation.violated
    <3>1. new = Applied(alerts[key], Parameters(key), TRUE, evaluation.severity, time)
      BY <1>3, <2>1
    <3>2. PICK alert, parameters, severity :
            /\ alert = alerts[key] /\ parameters = Parameters(key)
            /\ severity = evaluation.severity
      OBVIOUS
    <3>3. /\ alert \in ActiveAlert(0 .. now) \cup {NoAlert}
          /\ parameters.for \in Nat /\ parameters.consecutive \in Nat
          /\ severity \in {"warning", "critical"}
          /\ new = Applied(alert, parameters, TRUE, severity, time)
      BY <1>2, <1>4, <3>1, <3>2
    <3>4. new \in ActiveAlert(0 .. now) /\ new.severity = severity /\ new # NoAlert
      BY <1>1, <3>3, AppliedLemma
    <3>5. QED  BY <2>1, <3>2, <3>4
  <2>2. CASE ~evaluation.violated
    BY <1>3, <2>2 DEF Applied
  <2>3. QED  BY <2>1, <2>2
<1>6. dipped' \subseteq dipped
  BY DEF ApplyRule
<1>7. QED  BY <1>1, <1>3, <1>5, <1>6

-----------------------------------------------------------------------------
(* The handlers.                                                           *)

\* Only handler h moves.
Only(h) ==
  /\ handler' \in [Handlers -> HandlerStates]
  /\ \A g \in Handlers \ {h} : handler'[g] = handler[g]

LEMMA HandlerLemma ==
  ASSUME TypeOK, NEW h \in Handlers, NEW state \in HandlerStates,
         handler' = [handler EXCEPT ![h] = state]
  PROVE  Only(h) /\ handler'[h] = state
  BY DEF TypeOK, Only

LEMMA ReceiveLemma ==
  ASSUME TypeOK, NEW h \in Handlers, Receive(h)
  PROVE  Only(h) /\ handler'[h].pc = "save" /\ handler'[h].todo = {}
<1>1. PICK fresh, at : /\ fresh = Fresh(Head(queue)) /\ at = (IF subject = "usage" THEN now ELSE 0)
  OBVIOUS
<1>2. PICK state :
        /\ state = [pc |-> "save", value |-> Head(queue).value, fresh |-> fresh, at |-> at,
                    todo |-> {}]
        /\ handler' = [handler EXCEPT ![h] = state]
  BY <1>1, Zenon DEF Receive
<1>3. at \in 0 .. now /\ fresh \in BOOLEAN /\ Head(queue).value \in Readings[subject]
  <2>1. fresh \in BOOLEAN
    BY <1>1 DEF Fresh
  <2>2. at \in 0 .. now
    BY <1>1, EngineAssumption DEF TypeOK
  <2>3. Head(queue) \in Reports
    <3>1. queue \in Seq(Reports) /\ queue # <<>>
      BY DEF TypeOK, Receive
    <3>2. \A S, q : q \in Seq(S) /\ q # <<>> => Head(q) \in S
      OBVIOUS
    <3>3. QED  BY <3>1, <3>2, Zenon
  <2>4. QED  BY <2>1, <2>2, <2>3 DEF Reports
<1>4. state \in HandlerStates /\ state.pc = "save" /\ state.todo = {}
  BY <1>2, <1>3 DEF HandlerStates
<1>5. QED  BY <1>2, <1>4, HandlerLemma

LEMMA SaveLemma ==
  ASSUME TypeOK, NEW h \in Handlers, Save(h)
  PROVE  /\ Only(h) /\ handler'[h].value = handler[h].value
         /\ handler'[h].fresh = handler[h].fresh
         /\ \/ /\ handler[h].fresh /\ handler'[h].pc = "rules"
               /\ handler'[h].todo = Listed(handler[h].value)
            \/ handler'[h].pc = "online" /\ handler'[h].todo = Online
<1>1. PICK old : old = handler[h] /\ old \in HandlerStates
  BY DEF TypeOK
<1>2. PICK state :
        /\ state = [old EXCEPT !.pc = IF old.fresh THEN "rules" ELSE "online",
                               !.todo = IF old.fresh THEN Listed(old.value) ELSE Online]
        /\ handler' = [handler EXCEPT ![h] = state]
  BY <1>1, Zenon DEF Save
<1>3. Listed(old.value) \in SUBSET Keys /\ Online \in SUBSET Keys
  BY DEF Listed, Online
<1>4. /\ state \in HandlerStates /\ state.value = old.value /\ state.fresh = old.fresh
      /\ \/ old.fresh /\ state.pc = "rules" /\ state.todo = Listed(old.value)
         \/ state.pc = "online" /\ state.todo = Online
  <2>1. old \in HandlerStates
    BY <1>1
  <2>2. QED  BY <1>2, <1>3, <2>1 DEF HandlerStates
<1>5. QED  BY <1>1, <1>2, <1>4, HandlerLemma

LEMMA EvaluateNextLemma ==
  ASSUME TypeOK, NEW h \in Handlers, EvaluateNext(h)
  PROVE  \E key \in handler[h].todo :
           /\ key \in Keys
           /\ Only(h) /\ handler'[h].value = handler[h].value
           /\ handler'[h].fresh = handler[h].fresh /\ handler'[h].pc = handler[h].pc
           /\ handler'[h].todo = handler[h].todo \ {key}
           /\ alerts' \in [Keys -> ActiveAlert(0 .. now) \cup {NoAlert}]
           /\ \A k \in Keys \ {key} : alerts'[k] = alerts[k]
           /\ Shows(key, handler[h].value)'
           /\ handler[h].value \in ViolatedBy[key] => alerts'[key] # NoAlert
           /\ dipped' \subseteq dipped
<1>1. PICK old : old = handler[h] /\ old \in HandlerStates
  BY DEF TypeOK
<1>0. PICK key \in old.todo :
        /\ ApplyRule(Evaluation(key, old.value), old.at)
        /\ handler' = [handler EXCEPT ![h] = [old EXCEPT !.todo = old.todo \ {key}]]
  BY <1>1, Zenon DEF EvaluateNext
<1>2. PICK state : /\ ApplyRule(Evaluation(key, old.value), old.at)
                   /\ state = [old EXCEPT !.todo = old.todo \ {key}]
                   /\ handler' = [handler EXCEPT ![h] = state]
  BY <1>0
<1>3. old.at \in 0 .. now /\ old.todo \subseteq Keys
  BY <1>1 DEF HandlerStates
<1>4. /\ state \in HandlerStates /\ state.value = old.value /\ state.fresh = old.fresh
      /\ state.pc = old.pc /\ state.todo = old.todo \ {key}
  <2>1. old \in HandlerStates
    BY <1>1
  <2>2. QED  BY <1>2, <2>1 DEF HandlerStates
<1>5. Only(h) /\ handler'[h] = state
  BY <1>2, <1>4, HandlerLemma
<1>6. PICK evaluation : /\ evaluation = Evaluation(key, old.value)
                        /\ ApplyRule(evaluation, old.at)
  BY <1>2
<1>7. /\ evaluation.key = key /\ evaluation.violated = (old.value \in ViolatedBy[key])
      /\ evaluation.severity = Severity(key, old.value)
      /\ evaluation.violated \in BOOLEAN /\ evaluation.severity \in {"warning", "critical"}
  BY <1>6 DEF Evaluation, Severity
<1>8. /\ alerts' \in [Keys -> ActiveAlert(0 .. now) \cup {NoAlert}]
      /\ \A k \in Keys \ {key} : alerts'[k] = alerts[k]
      /\ evaluation.violated => alerts'[key].severity = evaluation.severity /\ alerts'[key] # NoAlert
      /\ ~evaluation.violated => alerts'[key] = NoAlert
      /\ dipped' \subseteq dipped
  BY <1>2, <1>3, <1>6, <1>7, ApplyRuleLemma
<1>9. /\ old.value \in ViolatedBy[key] =>
           alerts'[key].severity = Severity(key, old.value) /\ alerts'[key] # NoAlert
      /\ old.value \notin ViolatedBy[key] => alerts'[key] = NoAlert
  BY <1>7, <1>8
<1>10. QED  BY <1>1, <1>2, <1>3, <1>4, <1>5, <1>8, <1>9 DEF Shows

LEMMA ResolveMissingLemma ==
  ASSUME TypeOK, NEW h \in Handlers, ResolveMissing(h)
  PROVE  /\ Only(h) /\ handler'[h].value = handler[h].value
         /\ handler'[h].fresh = handler[h].fresh /\ handler'[h].pc = "missing"
         /\ handler'[h].todo = Resolvable(handler[h].value)
<1>1. PICK old : old = handler[h] /\ old \in HandlerStates
  BY DEF TypeOK
<1>2. PICK state : /\ state = [old EXCEPT !.pc = "missing", !.todo = Resolvable(old.value)]
                   /\ handler' = [handler EXCEPT ![h] = state]
  BY <1>1, Zenon DEF ResolveMissing
<1>3. Resolvable(old.value) \in SUBSET Keys
  BY DEF Resolvable, ReportRules
<1>4. /\ state \in HandlerStates /\ state.value = old.value /\ state.fresh = old.fresh
      /\ state.pc = "missing" /\ state.todo = Resolvable(old.value)
  <2>1. old \in HandlerStates
    BY <1>1
  <2>2. QED  BY <1>2, <1>3, <2>1 DEF HandlerStates
<1>5. QED  BY <1>1, <1>2, <1>4, HandlerLemma

LEMMA RestLemma ==
  ASSUME TypeOK, NEW h \in Handlers, Finish(h) \/ CutOff(h)
  PROVE  Only(h) /\ handler'[h].pc = "idle" /\ handler'[h].todo = {}
<1>1. Resting \in HandlerStates /\ Resting.pc = "idle" /\ Resting.todo = {}
  BY EngineAssumption DEF Resting, HandlerStates, TypeOK
<1>2. handler' = [handler EXCEPT ![h] = Resting]
  BY DEF Finish, CutOff
<1>3. QED  BY <1>1, <1>2, HandlerLemma

\* The offline check touches the agent's own alert only.
LEMMA EvaluateOfflineLemma ==
  ASSUME TypeOK, Evaluating, EvaluateOffline
  PROVE  /\ alerts' \in [Keys -> ActiveAlert(0 .. now) \cup {NoAlert}]
         /\ \A k \in ReportRules : alerts'[k] = alerts[k]
         /\ dipped' \subseteq dipped
<1>1. check.at \in 0 .. now /\ check.violated \in BOOLEAN /\ "agent_offline" \in Keys
  BY DEF TypeOK, Checks, Evaluating, EvaluateOffline
<1>2. PICK evaluation :
        /\ evaluation = [key |-> "agent_offline", severity |-> "critical", violated |-> check.violated]
        /\ ApplyRule(evaluation, check.at)
  BY DEF EvaluateOffline
<1>3. QED  BY <1>1, <1>2, ApplyRuleLemma DEF ReportRules

-----------------------------------------------------------------------------
(* Every step keeps the types.                                             *)

LEMMA QueueLemma ==
  ASSUME TypeOK, Posting, Measure \/ (\E h \in Handlers : Save(h))
  PROVE  queue' \in Seq(Reports) /\ Len(queue') <= QueueSize
<1>1. queue \in Seq(Reports) /\ Len(queue) <= QueueSize /\ QueueSize \in Nat
  BY EngineAssumption DEF TypeOK
<1>2. CASE Measure
  <2>1. [at |-> now, value |-> reading'] \in Reports
    BY <1>2, EngineAssumption DEF TypeOK, Measure, Reports
  <2>2. PICK report : /\ report = [at |-> now, value |-> reading'] /\ report \in Reports
                      /\ queue' = Append(queue, report)
    BY <1>2, <2>1, Zenon DEF Measure
  <2>3. \A S, q, e : q \in Seq(S) /\ e \in S => Append(q, e) \in Seq(S) /\ Len(Append(q, e)) = Len(q) + 1
    OBVIOUS
  <2>4. Len(queue) < QueueSize /\ Len(queue) \in Nat
    BY <1>1, <1>2 DEF Measure
  <2>5. Append(queue, report) \in Seq(Reports) /\ Len(Append(queue, report)) = Len(queue) + 1
    BY <1>1, <2>2, <2>3, Zenon
  <2>6. QED  BY <1>1, <2>2, <2>4, <2>5
<1>3. CASE \E h \in Handlers : Save(h)
  <2>1. queue' = Tail(queue) /\ queue \in Seq(Reports) /\ queue # <<>>
    BY <1>1, <1>3 DEF Save, Posting
  <2>2. \A S, q : q \in Seq(S) /\ q # <<>> => Tail(q) \in Seq(S) /\ Len(Tail(q)) = Len(q) - 1
    OBVIOUS
  <2>3. Tail(queue) \in Seq(Reports) /\ Len(Tail(queue)) = Len(queue) - 1
    BY <2>1, <2>2, Zenon
  <2>4. Len(queue) \in Nat
    BY <2>1
  <2>5. QED  BY <1>1, <2>1, <2>3, <2>4
<1>4. QED  BY <1>2, <1>3

LEMMA StepLemma ==
  ASSUME TypeOK, Posting, Evaluating, [Next]_vars
  PROVE  /\ subject' = subject /\ reading' \in Readings[subject]
         /\ queue' \in Seq(Reports) /\ Len(queue') <= QueueSize
         /\ lastSeen' \in {NoTime} \cup 0 .. now
         /\ alerts' \in [Keys -> ActiveAlert(0 .. now) \cup {NoAlert}]
         /\ handler' \in [Handlers -> HandlerStates] /\ check' \in Checks
         /\ now' \in 0 .. MaxTime /\ now <= now' /\ failures' \in 0 .. MaxFailures
         /\ overtaken' \subseteq Handlers /\ dipped' \subseteq ReportRules
<1> USE EngineAssumption
<1>1. CASE Tick
  BY <1>1 DEF TypeOK, Tick
<1>2. CASE Measure
  <2>1. queue' \in Seq(Reports) /\ Len(queue') <= QueueSize
    BY <1>2, QueueLemma
  <2>2. QED  BY <1>2, <2>1 DEF TypeOK, Measure
<1>3. ASSUME NEW h \in Handlers, Receive(h)
      PROVE  /\ handler' \in [Handlers -> HandlerStates]
             /\ overtaken' \subseteq Handlers
             /\ UNCHANGED <<subject, reading, queue, lastSeen, alerts, check, now, failures, dipped>>
  BY <1>3, ReceiveLemma DEF TypeOK, Receive, Only
<1>4. ASSUME NEW h \in Handlers, Save(h)
      PROVE  /\ handler' \in [Handlers -> HandlerStates]
             /\ queue' \in Seq(Reports) /\ Len(queue') <= QueueSize
             /\ lastSeen' \in {lastSeen, now} /\ dipped' \subseteq ReportRules
             /\ UNCHANGED <<subject, reading, alerts, check, now, failures, overtaken>>
  <2>1. queue' \in Seq(Reports) /\ Len(queue') <= QueueSize
    BY <1>4, QueueLemma
  <2>2. handler' \in [Handlers -> HandlerStates]
    BY <1>4, SaveLemma DEF Only
  <2>3. QED  BY <1>4, <2>1, <2>2 DEF TypeOK, Save
<1>5. ASSUME NEW h \in Handlers, EvaluateNext(h)
      PROVE  /\ handler' \in [Handlers -> HandlerStates]
             /\ alerts' \in [Keys -> ActiveAlert(0 .. now) \cup {NoAlert}]
             /\ dipped' \subseteq dipped
             /\ UNCHANGED <<subject, reading, queue, lastSeen, check, now, failures, overtaken>>
  <2>1. UNCHANGED <<subject, reading, queue, lastSeen, check, now, failures, overtaken>>
    BY <1>5 DEF EvaluateNext
  <2>2. QED  BY <1>5, <2>1, EvaluateNextLemma DEF Only
<1>6. ASSUME NEW h \in Handlers, ResolveMissing(h)
      PROVE  /\ handler' \in [Handlers -> HandlerStates]
             /\ UNCHANGED <<subject, reading, queue, lastSeen, alerts, check, now, failures,
                            overtaken, dipped>>
  <2>1. UNCHANGED <<subject, reading, queue, lastSeen, alerts, check, now, failures, overtaken, dipped>>
    BY <1>6 DEF ResolveMissing
  <2>2. QED  BY <1>6, <2>1, ResolveMissingLemma DEF Only
<1>7. ASSUME NEW h \in Handlers, Finish(h) \/ CutOff(h)
      PROVE  /\ handler' \in [Handlers -> HandlerStates]
             /\ failures' \in 0 .. MaxFailures /\ overtaken' \subseteq overtaken
             /\ UNCHANGED <<subject, reading, queue, lastSeen, alerts, check, now, dipped>>
  <2>1. handler' \in [Handlers -> HandlerStates]
    BY <1>7, RestLemma DEF Only
  <2>2. QED  BY <1>7, <2>1 DEF TypeOK, Finish, CutOff
<1>8. CASE OfflineTick \/ AgentLastSeen \/ OfflineFails
  <2>1. check' \in Checks
    <3>1. CASE OfflineTick
      <4>1. NoCheck \in [pc : {"idle", "read", "apply"}, at : Nat, violated : BOOLEAN]
        BY DEF NoCheck
      <4>2. check' = [NoCheck EXCEPT !.pc = "read", !.at = now] /\ now \in 0 .. now
        BY <3>1 DEF OfflineTick, TypeOK
      <4>3. QED  BY <4>2 DEF NoCheck, Checks
    <3>2. CASE AgentLastSeen
      <4>1. PICK old : old = check /\ old \in Checks
        BY DEF TypeOK
      <4>2. PICK violated : /\ violated = (old.at - lastSeen > AgentOfflineAfter)
                            /\ check' = IF lastSeen = NoTime THEN NoCheck
                                        ELSE [old EXCEPT !.pc = "apply", !.violated = violated]
        BY <3>2, <4>1, Zenon DEF AgentLastSeen
      <4>3. violated \in BOOLEAN
        BY <4>2
      <4>4. NoCheck \in Checks
        BY DEF NoCheck, Checks, TypeOK
      <4>5. old \in Checks
        BY <4>1
      <4>6. [old EXCEPT !.pc = "apply", !.violated = violated] \in Checks
        BY <4>3, <4>5 DEF Checks
      <4>7. QED  BY <4>2, <4>4, <4>6
    <3>3. CASE OfflineFails
      BY <3>3 DEF OfflineFails, NoCheck, Checks, TypeOK
    <3>4. QED  BY <1>8, <3>1, <3>2, <3>3
  <2>2. failures' \in 0 .. MaxFailures
    BY <1>8 DEF TypeOK, OfflineTick, AgentLastSeen, OfflineFails
  <2>3. UNCHANGED <<subject, reading, queue, lastSeen, alerts, handler, now, overtaken, dipped>>
    BY <1>8 DEF OfflineTick, AgentLastSeen, OfflineFails
  <2>4. QED  BY <2>1, <2>2, <2>3 DEF TypeOK
<1>9. CASE EvaluateOffline
  <2>1. check' \in Checks
    BY <1>9 DEF EvaluateOffline, NoCheck, Checks, TypeOK
  <2>2. UNCHANGED <<subject, reading, queue, lastSeen, handler, now, failures, overtaken>>
    BY <1>9 DEF EvaluateOffline
  <2>3. QED  BY <1>9, <2>1, <2>2, EvaluateOfflineLemma DEF TypeOK
<1>10. CASE UNCHANGED vars
  BY <1>10 DEF TypeOK, vars
<1>11. CASE \E h \in Handlers : Receive(h) \/ Handle(h) \/ CutOff(h)
  <2>1. PICK h \in Handlers : \/ Receive(h) \/ Save(h) \/ EvaluateNext(h) \/ ResolveMissing(h)
                              \/ Finish(h) \/ CutOff(h)
    BY <1>11 DEF Handle
  <2>2. QED  BY <2>1, <1>3, <1>4, <1>5, <1>6, <1>7 DEF TypeOK
<1>12. QED  BY <1>1, <1>2, <1>8, <1>9, <1>10, <1>11 DEF Next, Check

\* What is typed at one time is typed later.
LEMMA GrowLemma ==
  ASSUME TypeOK, subject' = subject, now' \in Nat, now <= now'
  PROVE  /\ Keys' = Keys /\ ReportRules' = ReportRules
         /\ Seq(Reports) \subseteq Seq(Reports')
         /\ ActiveAlert(0 .. now) \subseteq ActiveAlert(0 .. now')
         /\ HandlerStates \subseteq HandlerStates' /\ Checks \subseteq Checks'
<1>1. Keys' = Keys /\ ReportRules' = ReportRules
  BY DEF Keys, ReportRules
<1>2. 0 .. now \subseteq 0 .. now'
  BY EngineAssumption DEF TypeOK
<1>3. Seq(Reports) \subseteq Seq(Reports')
  <2>1. Reports \subseteq Reports'
    BY <1>2 DEF Reports
  <2>2. \A S, T : S \subseteq T => Seq(S) \subseteq Seq(T)
    OBVIOUS
  <2>3. QED  BY <2>1, <2>2, Zenon
<1>4. ActiveAlert(0 .. now) \subseteq ActiveAlert(0 .. now')
  BY <1>2 DEF ActiveAlert
<1>5. HandlerStates \subseteq HandlerStates'
  BY <1>1, <1>2 DEF HandlerStates
<1>6. Checks \subseteq Checks'
  BY <1>2 DEF Checks
<1>7. QED  BY <1>1, <1>3, <1>4, <1>5, <1>6

LEMMA TypeStep ==
  ASSUME TypeOK, Posting, Evaluating, [Next]_vars
  PROVE  TypeOK'
<1>1. now' \in Nat /\ now <= now' /\ subject' = subject
  BY StepLemma, EngineAssumption
<1>2. /\ Keys' = Keys /\ ReportRules' = ReportRules
      /\ Seq(Reports) \subseteq Seq(Reports')
      /\ ActiveAlert(0 .. now) \subseteq ActiveAlert(0 .. now')
      /\ HandlerStates \subseteq HandlerStates' /\ Checks \subseteq Checks'
  BY <1>1, GrowLemma
<1>3. lastSeen' \in {NoTime} \cup 0 .. now'
  BY <1>1, StepLemma, EngineAssumption DEF TypeOK
<1>4. alerts' \in [Keys' -> ActiveAlert(0 .. now') \cup {NoAlert}]
  BY <1>2, StepLemma
<1>5. handler' \in [Handlers -> HandlerStates'] /\ check' \in Checks'
  BY <1>2, StepLemma
<1>6. QED  BY <1>1, <1>2, <1>3, <1>4, <1>5, StepLemma DEF TypeOK

-----------------------------------------------------------------------------
(* Every step keeps the rest of the invariant.                             *)

\* What a step does to the handlers, apart from the alerts.
LEMMA HandlersLemma ==
  ASSUME IInv, [Next]_vars
  PROVE  \/ UNCHANGED <<handler, overtaken>>
         \/ \E h \in Handlers : Receive(h) \/ Save(h) \/ EvaluateNext(h) \/ ResolveMissing(h)
                                \/ Finish(h) \/ CutOff(h)
  BY DEF Next, vars, Handle, Check, Tick, Measure, OfflineTick, AgentLastSeen, EvaluateOffline,
         OfflineFails

\* Who stores a report, and the queue.
LEMMA PostingStep ==
  ASSUME IInv, [Next]_vars
  PROVE  Posting'
<1>1. TypeOK /\ Posting
  BY DEF IInv
<1>2. CASE UNCHANGED handler /\ (queue' = queue \/ Measure)
  <2>1. queue # <<>> => queue' # <<>>
    <3>1. \A S, q, e : q \in Seq(S) /\ e \in S => Append(q, e) # <<>>
      OBVIOUS
    <3>2. CASE Measure
      <4>1. PICK report : /\ report = [at |-> now, value |-> reading']
                          /\ queue' = Append(queue, report)
        BY <3>2, Zenon DEF Measure
      <4>2. report \in Reports
        BY <3>2, <4>1, EngineAssumption, <1>1 DEF TypeOK, Measure, Reports
      <4>3. QED  BY <3>1, <4>1, <4>2, <1>1, Zenon DEF TypeOK
    <3>3. QED  BY <1>2, <3>2
  <2>2. QED  BY <1>1, <1>2, <2>1 DEF Posting
<1>3. ASSUME NEW h \in Handlers, Receive(h)
      PROVE  Posting'
  <2>1. /\ \A g \in Handlers \ {h} : handler[g].pc # "save" /\ handler'[g] = handler[g]
        /\ queue' # <<>>
    BY <1>1, <1>3, ReceiveLemma DEF Receive, Only
  <2>2. QED  BY <2>1 DEF Posting
<1>4. ASSUME NEW h \in Handlers, Save(h)
      PROVE  Posting'
  <2>1. \A g \in Handlers \ {h} : handler[g].pc # "save" /\ handler'[g] = handler[g]
    BY <1>1, <1>4, SaveLemma DEF Save, Only, Posting
  <2>2. handler'[h].pc # "save"
    BY <1>1, <1>4, SaveLemma
  <2>3. QED  BY <2>1, <2>2 DEF Posting
<1>5. ASSUME NEW h \in Handlers,
             EvaluateNext(h) \/ ResolveMissing(h) \/ Finish(h) \/ CutOff(h)
      PROVE  Posting'
  <2>1. queue' = queue
    BY <1>5 DEF EvaluateNext, ResolveMissing, Finish, CutOff
  <2>2. /\ \A g \in Handlers \ {h} : handler'[g] = handler[g]
        /\ handler'[h].pc # "save" \/ handler'[h].pc = handler[h].pc
    BY <1>1, <1>5, EvaluateNextLemma, ResolveMissingLemma, RestLemma DEF Only
  <2>3. QED  BY <1>1, <2>1, <2>2 DEF Posting
<1>6. QED
  <2>1. \/ UNCHANGED handler /\ (queue' = queue \/ Measure)
        \/ \E h \in Handlers : Receive(h) \/ Save(h) \/ EvaluateNext(h) \/ ResolveMissing(h)
                               \/ Finish(h) \/ CutOff(h)
    BY DEF Next, vars, Handle, Check, Tick, Measure, OfflineTick, AgentLastSeen, EvaluateOffline,
           OfflineFails
  <2>2. QED  BY <1>2, <1>3, <1>4, <1>5, <2>1

\* What is left to evaluate.
LEMMA EvaluatingStep ==
  ASSUME IInv, [Next]_vars
  PROVE  Evaluating'
<1>1. TypeOK /\ Posting /\ Evaluating
  BY DEF IInv
<1>2. subject' = subject /\ Keys' = Keys
  BY <1>1, StepLemma DEF Keys
<1> DEFINE Left(state) ==
             /\ state.pc \in {"idle", "save"} => state.todo = {}
             /\ state.pc \in {"rules", "missing"} => state.fresh
             /\ state.pc = "rules" => \A k \in state.todo : state.value \notin UnlistedFor[k]
             /\ state.pc = "missing" =>
                  \A k \in state.todo : /\ k # "agent_offline"
                                        /\ state.value \in UnlistedFor[k] \ KeptFor[k]
             /\ state.pc = "online" => state.todo \subseteq {"agent_offline"}
<1>3. \A h \in Handlers : Left(handler[h])
  BY <1>1 DEF Evaluating
<1>4. ASSUME NEW h \in Handlers,
             Receive(h) \/ Save(h) \/ EvaluateNext(h) \/ ResolveMissing(h) \/ Finish(h) \/ CutOff(h)
      PROVE  Left(handler'[h]) /\ (\A g \in Handlers \ {h} : handler'[g] = handler[g])
             /\ check' = check
  <2>1. check' = check
    BY <1>4 DEF Receive, Save, EvaluateNext, ResolveMissing, Finish, CutOff
  <2>2. CASE Receive(h)
    BY <1>1, <2>1, <2>2, ReceiveLemma DEF Only
  <2>3. CASE Save(h)
    BY <1>1, <2>1, <2>3, SaveLemma DEF Only, Listed, Online
  <2>4. CASE EvaluateNext(h)
    <3>1. PICK key \in handler[h].todo :
            /\ Only(h) /\ handler'[h].value = handler[h].value
            /\ handler'[h].fresh = handler[h].fresh /\ handler'[h].pc = handler[h].pc
            /\ handler'[h].todo = handler[h].todo \ {key}
      BY <1>1, <2>4, EvaluateNextLemma
    <3>2. Left(handler[h])
      BY <1>3
    <3>3. QED  BY <2>1, <3>1, <3>2 DEF Only
  <2>5. CASE ResolveMissing(h)
    <3>1. /\ Only(h) /\ handler'[h].value = handler[h].value
          /\ handler'[h].fresh = handler[h].fresh /\ handler'[h].pc = "missing"
          /\ handler'[h].todo = Resolvable(handler[h].value)
      BY <1>1, <2>5, ResolveMissingLemma
    <3>2. handler[h].fresh
      BY <1>3, <2>5 DEF ResolveMissing
    <3>3. QED  BY <2>1, <3>1, <3>2 DEF Only, Resolvable, ReportRules
  <2>6. CASE Finish(h) \/ CutOff(h)
    BY <1>1, <2>1, <2>6, RestLemma DEF Only
  <2>7. QED  BY <1>4, <2>2, <2>3, <2>4, <2>5, <2>6
<1>5. \A h \in Handlers : Left(handler'[h])
  BY <1>3, <1>4, HandlersLemma
<1>6. check'.pc # "idle" => "agent_offline" \in Keys'
  <2>1. CASE OfflineTick
    <3>1. RulesOf[subject] = <<"agent_offline">>
      BY <2>1 DEF OfflineTick, RulesOf
    <3>2. QED  BY <1>2, <3>1 DEF Keys
  <2>2. CASE AgentLastSeen \/ EvaluateOffline \/ OfflineFails
    BY <1>1, <1>2, <2>2 DEF AgentLastSeen, EvaluateOffline, OfflineFails, NoCheck, Evaluating
  <2>3. check' = check \/ OfflineTick \/ AgentLastSeen \/ EvaluateOffline \/ OfflineFails
    BY <1>4 DEF Next, vars, Handle, Check, Tick, Measure
  <2>4. QED  BY <1>1, <1>2, <2>1, <2>2, <2>3 DEF Evaluating
<1>7. QED  BY <1>5, <1>6 DEF Evaluating

\* Who runs beside whom.
LEMMA AloneStep ==
  ASSUME IInv, [Next]_vars
  PROVE  Alone'
<1>1. TypeOK /\ Evaluating /\ Alone
  BY DEF IInv
<1>2. CASE UNCHANGED <<handler, overtaken>>
  BY <1>1, <1>2 DEF Alone
<1>3. ASSUME NEW h \in Handlers, Receive(h)
      PROVE  Alone'
  <2>1. PICK others : /\ others = {g \in Handlers \ {h} : handler[g].pc # "idle"}
                      /\ overtaken' = IF others = {} THEN overtaken
                                      ELSE overtaken \cup others \cup {h}
    BY <1>3, Zenon DEF Receive
  <2>2. \A g \in Handlers \ {h} : handler'[g] = handler[g]
    BY <1>1, <1>3, ReceiveLemma DEF Only
  <2>3. QED  BY <2>1, <2>2 DEF Alone
<1>4. ASSUME NEW h \in Handlers, Save(h) \/ EvaluateNext(h) \/ ResolveMissing(h)
      PROVE  Alone'
  <2>1. handler[h].pc # "idle" /\ overtaken' = overtaken
    BY <1>1, <1>4 DEF Save, EvaluateNext, ResolveMissing, Evaluating
  <2>2. \A g \in Handlers \ {h} : handler'[g] = handler[g]
    BY <1>1, <1>4, SaveLemma, EvaluateNextLemma, ResolveMissingLemma DEF Only
  <2>3. QED  BY <1>1, <2>1, <2>2 DEF Alone
<1>5. ASSUME NEW h \in Handlers, Finish(h) \/ CutOff(h)
      PROVE  Alone'
  <2>1. overtaken' = overtaken \ {h}
    BY <1>5 DEF Finish, CutOff
  <2>2. handler'[h].pc = "idle" /\ (\A g \in Handlers \ {h} : handler'[g] = handler[g])
    BY <1>1, <1>5, RestLemma DEF Only
  <2>3. QED  BY <1>1, <2>1, <2>2 DEF Alone
<1>6. QED  BY <1>2, <1>3, <1>4, <1>5, HandlersLemma

\* What the rules a handler is done with show.
LEMMA SettledStep ==
  ASSUME IInv, [Next]_vars
  PROVE  Settled'
<1>1. TypeOK /\ Posting /\ Evaluating /\ Alone /\ Settled
  BY DEF IInv
<1>2. subject' = subject /\ Keys' = Keys /\ ReportRules' = ReportRules /\ Keys \subseteq Table
  BY <1>1, StepLemma, KeysLemma DEF Keys, ReportRules
<1>3. SUFFICES ASSUME NEW h \in Handlers, h \notin overtaken', NEW k \in ReportRules,
                      k \notin handler'[h].todo
               PROVE  /\ handler'[h].pc \in {"rules", "missing"} /\ handler'[h].value \notin UnlistedFor[k]
                           => Shows(k, handler[h].value)'
                      /\ handler'[h].pc = "missing" /\ handler'[h].value \in UnlistedFor[k] \ KeptFor[k]
                           => alerts'[k] = NoAlert
  BY <1>2 DEF Settled
<1>4. k \in Keys /\ k # "agent_offline" /\ k \in Table
  BY <1>2 DEF ReportRules
<1>5. CASE /\ handler'[h] = handler[h] /\ h \notin overtaken
           /\ alerts'[k] = alerts[k]
  BY <1>1, <1>5, <1>3 DEF Settled, Shows
<1>6. CASE UNCHANGED <<handler, overtaken>>
  <2>1. alerts' = alerts \/ EvaluateOffline \/ \E g \in Handlers :
            Receive(g) \/ Save(g) \/ EvaluateNext(g) \/ ResolveMissing(g) \/ Finish(g) \/ CutOff(g)
    BY DEF Next, vars, Handle, Check, Tick, Measure, OfflineTick, AgentLastSeen, OfflineFails
  <2>2. ASSUME NEW g \in Handlers, EvaluateNext(g)
        PROVE  FALSE
    <3>1. PICK key \in handler[g].todo : handler'[g].todo = handler[g].todo \ {key}
      BY <1>1, <2>2, EvaluateNextLemma
    <3>2. QED  BY <1>6, <3>1
  <2>3. alerts' = alerts \/ EvaluateOffline
    BY <2>1, <2>2 DEF Receive, Save, ResolveMissing, Finish, CutOff
  <2>4. alerts'[k] = alerts[k]
    BY <1>1, <2>3, EvaluateOfflineLemma
  <2>5. QED  BY <1>3, <1>5, <1>6, <2>4
<1>7. ASSUME NEW g \in Handlers, Receive(g)
      PROVE  \/ handler'[h].pc = "save"
             \/ handler'[h] = handler[h] /\ h \notin overtaken /\ alerts'[k] = alerts[k]
  <2>1. overtaken \subseteq overtaken' /\ alerts' = alerts
    BY <1>7 DEF Receive
  <2>2. QED  BY <1>1, <1>3, <1>7, <2>1, ReceiveLemma DEF Only
<1>8. ASSUME NEW g \in Handlers, Save(g)
      PROVE  \/ handler'[h].pc = "online"
             \/ handler'[h].pc = "rules" /\ handler'[h].value \in UnlistedFor[k]
             \/ handler'[h] = handler[h] /\ h \notin overtaken /\ alerts'[k] = alerts[k]
  <2>1. overtaken' = overtaken /\ alerts' = alerts
    BY <1>8 DEF Save
  <2>2. CASE g = h
    BY <1>1, <1>3, <1>4, <1>8, <2>2, SaveLemma DEF Listed
  <2>3. CASE g # h
    BY <1>1, <1>3, <1>8, <2>1, <2>3, SaveLemma DEF Only
  <2>4. QED  BY <2>2, <2>3
<1>9. ASSUME NEW g \in Handlers, EvaluateNext(g)
      PROVE  \/ handler'[h].pc = "idle"
             \/ handler'[h] = handler[h] /\ h \notin overtaken /\ alerts'[k] = alerts[k]
             \/ /\ handler'[h].pc \in {"rules", "missing"} /\ handler'[h].value \notin UnlistedFor[k]
                     => Shows(k, handler[h].value)'
                /\ handler'[h].pc = "missing" /\ handler'[h].value \in UnlistedFor[k] \ KeptFor[k]
                     => alerts'[k] = NoAlert
  <2>1. PICK key \in handler[g].todo :
          /\ Only(g) /\ handler'[g].value = handler[g].value /\ handler'[g].pc = handler[g].pc
          /\ handler'[g].todo = handler[g].todo \ {key}
          /\ \A other \in Keys \ {key} : alerts'[other] = alerts[other]
          /\ Shows(key, handler[g].value)'
    BY <1>1, <1>9, EvaluateNextLemma
  <2>2. overtaken' = overtaken /\ handler[g].pc # "idle"
    BY <1>1, <1>9 DEF EvaluateNext, Evaluating
  <2>3. CASE g # h
    <3>1. handler'[h] = handler[h]
      BY <2>1, <2>3 DEF Only
    <3>2. handler[h].pc = "idle"
      BY <1>1, <1>3, <2>2, <2>3 DEF Alone
    <3>3. QED  BY <3>1, <3>2
  <2>4. CASE g = h /\ k = key
    <3>1. ViolatedBy[k] \cap UnlistedFor[k] = {}
      BY <1>4, TableLemma
    <3>2. Shows(k, handler[h].value)'
      BY <2>1, <2>4
    <3>3. handler'[h].value \in UnlistedFor[k] => alerts'[k] = NoAlert
      BY <3>1, <3>2 DEF Shows
    <3>4. QED  BY <3>2, <3>3
  <2>5. CASE g = h /\ k # key
    <3>1. alerts'[k] = alerts[k] /\ k \notin handler[h].todo
      BY <1>3, <1>4, <2>1, <2>5
    <3>2. QED  BY <1>1, <1>3, <2>1, <2>2, <2>5, <3>1 DEF Settled, Shows
  <2>6. QED  BY <2>3, <2>4, <2>5
<1>10. ASSUME NEW g \in Handlers, ResolveMissing(g)
       PROVE  \/ handler'[h] = handler[h] /\ h \notin overtaken /\ alerts'[k] = alerts[k]
              \/ /\ handler'[h].value \notin UnlistedFor[k] => Shows(k, handler[h].value)'
                 /\ handler'[h].value \in UnlistedFor[k] \ KeptFor[k] => alerts'[k] = NoAlert
  <2>1. overtaken' = overtaken /\ alerts' = alerts /\ handler[g].pc = "rules" /\ handler[g].todo = {}
    BY <1>10 DEF ResolveMissing
  <2>2. CASE g # h
    BY <1>1, <1>3, <1>10, <2>1, <2>2, ResolveMissingLemma DEF Only
  <2>3. CASE g = h
    <3>1. handler'[h].value = handler[h].value /\ handler'[h].todo = Resolvable(handler[h].value)
      BY <1>1, <1>10, <2>3, ResolveMissingLemma
    <3>2. handler[h].value \notin UnlistedFor[k] => Shows(k, handler[h].value)
      BY <1>1, <1>3, <2>1, <2>3 DEF Settled
    <3>3. handler[h].value \in UnlistedFor[k] \ KeptFor[k] => alerts[k] = NoAlert
      BY <1>3, <3>1 DEF Resolvable
    <3>4. QED  BY <2>1, <3>1, <3>2, <3>3 DEF Shows
  <2>4. QED  BY <2>2, <2>3
<1>11. ASSUME NEW g \in Handlers, Finish(g) \/ CutOff(g)
       PROVE  \/ handler'[h].pc = "idle"
              \/ handler'[h] = handler[h] /\ h \notin overtaken /\ alerts'[k] = alerts[k]
  <2>1. overtaken' = overtaken \ {g} /\ alerts' = alerts
    BY <1>11 DEF Finish, CutOff
  <2>2. CASE g = h
    BY <1>1, <1>11, <2>2, RestLemma
  <2>3. CASE g # h
    BY <1>1, <1>3, <1>11, <2>1, <2>3, RestLemma DEF Only
  <2>4. QED  BY <2>2, <2>3
<1>12. QED
  <2>1. CASE \E g \in Handlers : Receive(g) \/ Save(g)
    BY <1>5, <1>7, <1>8, <2>1
  <2>2. CASE \E g \in Handlers : EvaluateNext(g)
    BY <1>5, <1>9, <2>2
  <2>3. CASE \E g \in Handlers : ResolveMissing(g)
    BY <1>5, <1>10, <2>3
  <2>4. CASE \E g \in Handlers : Finish(g) \/ CutOff(g)
    BY <1>5, <1>11, <2>4
  <2>5. QED  BY <1>6, <2>1, <2>2, <2>3, <2>4, HandlersLemma

LEMMA Initially == Init => IInv
<1> SUFFICES ASSUME Init PROVE IInv
  OBVIOUS
<1> USE EngineAssumption
<1>1. /\ Resting \in HandlerStates /\ Resting.pc = "idle" /\ Resting.todo = {}
      /\ NoCheck \in Checks /\ NoCheck.pc = "idle"
  BY DEF Init, Resting, HandlerStates, NoCheck, Checks
<1>2. \A h \in Handlers : handler[h] = Resting
  BY DEF Init
<1>3. TypeOK
  <2>1. queue \in Seq(Reports) /\ Len(queue) <= QueueSize
    <3>1. \A S : <<>> \in Seq(S) /\ Len(<<>>) = 0
      OBVIOUS
    <3>2. QED  BY <3>1 DEF Init
  <2>2. handler \in [Handlers -> HandlerStates] /\ check \in Checks
    BY <1>1 DEF Init
  <2>3. QED  BY <2>1, <2>2 DEF Init, TypeOK
<1>4. Posting /\ Evaluating
  BY <1>1, <1>2 DEF Posting, Evaluating, Init
<1>5. Alone
  BY <1>1, <1>2 DEF Alone
<1>6. Settled
  BY <1>1, <1>2 DEF Settled
<1>7. QED  BY <1>3, <1>4, <1>5, <1>6 DEF IInv

-----------------------------------------------------------------------------
(* The theorems.                                                           *)

\* The inductive invariant of the rule engine.
THEOREM Invariance == Spec => []IInv
<1>1. IInv /\ [Next]_vars => IInv'
  <2> SUFFICES ASSUME IInv, [Next]_vars PROVE IInv'
    OBVIOUS
  <2>1. TypeOK'
    BY TypeStep DEF IInv
  <2>2. QED  BY <2>1, PostingStep, EvaluatingStep, AloneStep, SettledStep DEF IInv
<1>2. QED  BY Initially, <1>1, PTL DEF Spec

\* Every variable of the rule engine keeps its type.
THEOREM TypeCorrect == Spec => []TypeOK
<1>1. IInv => TypeOK
  BY DEF IInv
<1>2. QED  BY Invariance, <1>1, PTL

\* A report that was evaluated to its end, and alone, left the alerts it shows
\* (EvaluateReport, resolveMissing).
THEOREM ShowsReport == Spec => []ShowsLastReport
<1>1. IInv => ShowsLastReport
  <2> SUFFICES ASSUME IInv, NEW h \in Handlers, handler[h].pc = "missing", handler[h].todo = {},
                      h \notin overtaken, NEW k \in ReportRules
               PROVE  /\ handler[h].value \in ViolatedBy[k] =>
                           alerts[k].severity = Severity(k, handler[h].value)
                      /\ handler[h].value \notin ViolatedBy[k] \cup KeptFor[k] => alerts[k] = NoAlert
    BY DEF ShowsLastReport
  <2>1. k \in Table
    BY KeysLemma DEF IInv, ReportRules
  <2>2. ViolatedBy[k] \cap UnlistedFor[k] = {}
    BY <2>1, TableLemma
  <2>3. /\ handler[h].value \notin UnlistedFor[k] => Shows(k, handler[h].value)
        /\ handler[h].value \in UnlistedFor[k] \ KeptFor[k] => alerts[k] = NoAlert
    BY DEF IInv, Settled
  <2>4. QED  BY <2>2, <2>3 DEF Shows
<1>2. QED  BY Invariance, <1>1, PTL

\* An alert ends only with a report that shows its rule recovered or its subject gone.
THEOREM EndsOnEvidence == Spec => EndsOnlyOnEvidence
<1>1. IInv /\ [Next]_vars =>
        [\A k \in ReportRules :
           (alerts[k] # NoAlert /\ alerts'[k] = NoAlert) =>
             \E h \in Handlers :
               /\ handler[h].pc \in {"rules", "missing"}
               /\ handler[h].fresh
               /\ handler[h].value \notin ViolatedBy[k] \cup KeptFor[k]]_vars
  <2> SUFFICES ASSUME IInv, [Next]_vars, NEW k \in ReportRules,
                      alerts[k] # NoAlert, alerts'[k] = NoAlert
               PROVE  \E h \in Handlers :
                        /\ handler[h].pc \in {"rules", "missing"}
                        /\ handler[h].fresh
                        /\ handler[h].value \notin ViolatedBy[k] \cup KeptFor[k]
    OBVIOUS
  <2>1. TypeOK /\ Evaluating
    BY DEF IInv
  <2>2. k \in Keys /\ k # "agent_offline" /\ k \in Table
    BY <2>1, KeysLemma DEF ReportRules
  <2>3. ~EvaluateOffline
    BY <2>1, EvaluateOfflineLemma
  <2>4. PICK h \in Handlers : EvaluateNext(h)
    BY <2>3 DEF Next, vars, Handle, Check, Tick, Measure, Receive, Save, ResolveMissing, Finish,
                CutOff, OfflineTick, AgentLastSeen, OfflineFails
  <2>5. PICK key \in handler[h].todo :
          /\ \A other \in Keys \ {key} : alerts'[other] = alerts[other]
          /\ handler[h].value \in ViolatedBy[key] => alerts'[key] # NoAlert
    BY <2>1, <2>4, EvaluateNextLemma
  <2>6. k = key
    BY <2>2, <2>5
  <2>7. handler[h].value \notin ViolatedBy[k] /\ k \in handler[h].todo
    BY <2>5, <2>6
  <2>8. handler[h].pc \in {"rules", "missing"}
    BY <2>1, <2>2, <2>7 DEF TypeOK, HandlerStates, Evaluating
  <2>9. handler[h].fresh
    BY <2>1, <2>8 DEF Evaluating
  <2>10. handler[h].value \notin KeptFor[k]
    <3>1. KeptFor[k] \subseteq UnlistedFor[k]
      BY <2>2, TableLemma
    <3>2. QED  BY <2>1, <2>7, <2>8, <3>1 DEF Evaluating
  <2>11. QED  BY <2>7, <2>8, <2>9, <2>10
<1>2. QED  BY Invariance, <1>1, PTL DEF Spec, EndsOnlyOnEvidence
================================================================================
