------------------------------ MODULE AlertEngine ------------------------------
(***************************************************************************)
(* The rule engine (internal/alerts) as the server drives it: report       *)
(* handlers evaluate what an agent measured, the ticker of Server.Run      *)
(* evaluates how long the agent has been silent.  Each rule is one         *)
(* transaction of its own, so handlers and the ticker interleave between   *)
(* rules, and an evaluation that fails stops where it is: the report is    *)
(* already stored and never evaluated again.                               *)
(*                                                                         *)
(* One agent and one monitored subject, one of which is the agent's own    *)
(* presence.  Rules of different subjects share nothing but their place in *)
(* the list, that is, how far an evaluation comes before it fails.         *)
(***************************************************************************)
EXTENDS AlertRules, Sequences, FiniteSets

CONSTANTS
  Subjects,           \* kinds of subjects a run chooses from
  Handlers,           \* report handlers that may overlap
  HighUsageDuration,  \* high_usage_duration
  HTTPFailureCount,   \* http_failure_count
  AgentOfflineAfter,  \* agent_offline_after
  QueueSize,          \* bound: reports waiting at the agent
  MaxTime,            \* bound: the clock
  MaxFailures         \* bound: transactions that fail, and restarts

ASSUME EngineAssumption ==
  /\ HighUsageDuration \in Nat /\ HTTPFailureCount \in Nat \ {0}
  /\ AgentOfflineAfter \in Nat \ {0} /\ QueueSize \in Nat \ {0}
  /\ MaxTime \in Nat /\ MaxFailures \in Nat

VARIABLES
  subject,    \* what is monitored, fixed
  reading,    \* what the agent measured last
  queue,      \* reports that wait at the agent, oldest first
  lastSeen,   \* agents.last_seen, for the subject that is about it
  alerts,     \* the active alert of each rule, or NoAlert
  handler,    \* per handler [pc, value, fresh, at, todo]: todo are the rules to evaluate
  check,      \* the offline check [pc, at, violated]
  now,        \* the server's clock
  failures,   \* evaluations that were cut off
  overtaken,  \* history: handlers that did not run alone
  dipped      \* history: rules a stored report did not violate since they opened

vars == <<subject, reading, queue, lastSeen, alerts, handler, check, now,
          failures, overtaken, dipped>>

NoTime == -1

-----------------------------------------------------------------------------
(* The rules of a subject, and what its readings say about them.           *)

Readings ==
  [presence |-> {"present"},
   usage |-> {"low", "high"},
   filesystem |-> {"absent", "low", "warning", "critical"},
   service |-> {"absent", "active", "failed", "unknown"},
   container |-> {"disabled", "down", "absent", "running", "stopped", "unhealthy"},
   site |-> {"absent", "ok", "error"},
   certificate |-> {"absent", "valid", "expiring", "expiring soon", "unreachable", "plain"}]

ASSUME SubjectsAssumption == Subjects \subseteq DOMAIN Readings

\* In the order EvaluateReport lists them.
RulesOf ==
  [presence |-> <<"agent_offline">>,
   usage |-> <<"cpu_high">>,
   filesystem |-> <<"disk_warning", "disk_critical">>,
   service |-> <<"systemd_unavailable">>,
   container |-> <<"docker_stopped", "docker_unhealthy">>,
   site |-> <<"http_failed">>,
   certificate |-> <<"tls_expiring">>]

\* The readings that violate a rule.
ViolatedBy ==
  [agent_offline |-> {}, cpu_high |-> {"high"},
   disk_warning |-> {"warning"}, disk_critical |-> {"critical"},
   systemd_unavailable |-> {"failed"},
   docker_stopped |-> {"stopped"}, docker_unhealthy |-> {"unhealthy"},
   http_failed |-> {"error"},
   tls_expiring |-> {"expiring", "expiring soon"}]

\* The readings for which EvaluateReport lists no evaluation of a rule.
UnlistedFor ==
  [agent_offline |-> {}, cpu_high |-> {},
   disk_warning |-> {"absent"}, disk_critical |-> {"absent"},
   systemd_unavailable |-> {"absent", "unknown"},
   docker_stopped |-> {"disabled", "down", "absent"},
   docker_unhealthy |-> {"disabled", "down", "absent"},
   http_failed |-> {"absent"},
   tls_expiring |-> {"absent", "unreachable", "plain"}]

\* Of these, the readings that say nothing about the rule: resolveMissing keeps the alert.
KeptFor ==
  [agent_offline |-> {}, cpu_high |-> {}, disk_warning |-> {}, disk_critical |-> {},
   systemd_unavailable |-> {"unknown"},
   docker_stopped |-> {"down"}, docker_unhealthy |-> {"down"},
   http_failed |-> {}, tls_expiring |-> {"unreachable"}]

Keys == {RulesOf[subject][i] : i \in DOMAIN RulesOf[subject]}
ReportRules == Keys \ {"agent_offline"}

Parameters(key) ==
  [for |-> IF key = "cpu_high" THEN HighUsageDuration ELSE 0,
   consecutive |-> IF key = "http_failed" THEN HTTPFailureCount ELSE 0]

Severity(key, value) ==
  IF key = "disk_warning" \/ (key = "tls_expiring" /\ value = "expiring")
  THEN "warning" ELSE "critical"

Evaluation(key, value) ==
  [key |-> key, violated |-> value \in ViolatedBy[key], severity |-> Severity(key, value)]

\* What EvaluateReport lists from a report; agent_offline is never violated in it.
Listed(value) == {k \in Keys : value \notin UnlistedFor[k]}

\* ResolveOnline, for a report too old to be evaluated.
Online == Keys \cap {"agent_offline"}

-----------------------------------------------------------------------------
(* Types and the initial state.                                            *)

Resting == [pc |-> "idle", value |-> "none", fresh |-> FALSE, at |-> 0, todo |-> {}]
NoCheck == [pc |-> "idle", at |-> 0, violated |-> FALSE]

Reports == [at : 0 .. now, value : Readings[subject]]
HandlerStates ==
  [pc : {"idle", "save", "rules", "missing", "online"}, value : Readings[subject] \cup {"none"},
   fresh : BOOLEAN, at : 0 .. now, todo : SUBSET Keys]
Checks == [pc : {"idle", "read", "apply"}, at : 0 .. now, violated : BOOLEAN]

TypeOK ==
  /\ subject \in Subjects
  /\ reading \in Readings[subject]
  /\ queue \in Seq(Reports) /\ Len(queue) <= QueueSize
  /\ lastSeen \in {NoTime} \cup 0 .. now
  /\ alerts \in [Keys -> ActiveAlert(0 .. now) \cup {NoAlert}]
  /\ handler \in [Handlers -> HandlerStates] /\ check \in Checks
  /\ now \in 0 .. MaxTime /\ failures \in 0 .. MaxFailures
  /\ overtaken \subseteq Handlers /\ dipped \subseteq ReportRules

Init ==
  /\ subject \in Subjects
  /\ reading \in Readings[subject]
  /\ queue = <<>> /\ lastSeen = NoTime
  /\ alerts = [k \in Keys |-> NoAlert]
  /\ handler = [h \in Handlers |-> Resting]
  /\ check = NoCheck
  /\ now = 0 /\ failures = 0
  /\ overtaken = {} /\ dipped = {}

-----------------------------------------------------------------------------
(* The clock and the agent.                                                *)

Tick ==
  /\ now < MaxTime
  /\ now' = now + 1
  /\ UNCHANGED <<subject, reading, queue, lastSeen, alerts, handler, check, failures, overtaken, dipped>>

Measure ==
  /\ Len(queue) < QueueSize
  /\ reading' \in Readings[subject]
  /\ queue' = Append(queue, [at |-> now, value |-> reading'])
  /\ UNCHANGED <<subject, lastSeen, alerts, handler, check, now, failures, overtaken, dipped>>

-----------------------------------------------------------------------------
(* A report handler.                                                       *)

\* The one transaction of a rule.  Times matter for rules with a duration only.
ApplyRule(evaluation, at) ==
  LET key == evaluation.key IN
    /\ alerts' = [alerts EXCEPT ![key] =
                    Applied(alerts[key], Parameters(key), evaluation.violated, evaluation.severity,
                            IF Parameters(key).for > 0 THEN at ELSE 0)]
    /\ dipped' = IF alerts'[key] = NoAlert THEN dipped \ {key} ELSE dipped

\* Mutant: the negation of Before is forgotten.
FreshReversed(report) == report.at < now - AgentOfflineAfter

\* A report the agent had to keep is stored, but tells nothing about the present.
Fresh(report) == report.at >= now - AgentOfflineAfter

\* The agent posts its reports one after the other, but may give up waiting for a handler
\* that has stored the report and still evaluates it.
Receive(h) ==
  LET others == {g \in Handlers \ {h} : handler[g].pc # "idle"} IN
    /\ handler[h].pc = "idle" /\ queue # <<>>
    /\ \A g \in others : handler[g].pc # "save"
    /\ handler' = [handler EXCEPT ![h] =
         [pc |-> "save", value |-> Head(queue).value, fresh |-> Fresh(Head(queue)),
          at |-> IF subject = "usage" THEN now ELSE 0, todo |-> {}]]
    /\ overtaken' = IF others = {} THEN overtaken ELSE overtaken \cup others \cup {h}
    /\ UNCHANGED <<subject, reading, queue, lastSeen, alerts, check, now, failures, dipped>>

\* The report is stored and the agent has been seen.
Save(h) ==
  /\ handler[h].pc = "save"
  /\ lastSeen' = IF subject = "presence" THEN now ELSE lastSeen
  /\ queue' = Tail(queue)
  /\ LET value == handler[h].value IN
       /\ handler' = [handler EXCEPT ![h] =
            [handler[h] EXCEPT !.pc = IF handler[h].fresh THEN "rules" ELSE "online",
                               !.todo = IF handler[h].fresh THEN Listed(value) ELSE Online]]
       /\ dipped' = dipped \cup
            {k \in ReportRules : /\ alerts[k] # NoAlert
                                  /\ value \notin ViolatedBy[k] \cup KeptFor[k]}
  /\ UNCHANGED <<subject, reading, alerts, check, now, failures, overtaken>>

Place(key) == CHOOSE i \in DOMAIN RulesOf[subject] : RulesOf[subject][i] = key

\* Listed rules are evaluated in order, those of resolveMissing as the query returns them.
EvaluateNext(h) ==
  /\ \E key \in handler[h].todo :
       /\ handler[h].pc = "rules" => \A other \in handler[h].todo : Place(key) <= Place(other)
       /\ ApplyRule(Evaluation(key, handler[h].value), handler[h].at)
       /\ handler' = [handler EXCEPT ![h] = [handler[h] EXCEPT !.todo = handler[h].todo \ {key}]]
  /\ UNCHANGED <<subject, reading, queue, lastSeen, check, now, failures, overtaken>>

\* Mutant: whatever the report does not list is gone.
ResolvableUnlisted(value) ==
  {k \in ReportRules : alerts[k] # NoAlert /\ value \in UnlistedFor[k]}

\* Mutant: only rules the subject of the report has are looked at.
ResolvableListed(value) == {}

\* resolveMissing reads the active alerts and resolves those no rule was listed for,
\* unless the report says nothing about them.
Resolvable(value) ==
  {k \in ReportRules : /\ alerts[k] # NoAlert
                        /\ value \in UnlistedFor[k] \ KeptFor[k]}

ResolveMissing(h) ==
  /\ handler[h].pc = "rules" /\ handler[h].todo = {}
  /\ handler' = [handler EXCEPT ![h] =
       [handler[h] EXCEPT !.pc = "missing", !.todo = Resolvable(handler[h].value)]]
  /\ UNCHANGED <<subject, reading, queue, lastSeen, alerts, check, now, failures, overtaken, dipped>>

\* The answer is sent.
Finish(h) ==
  /\ handler[h].pc \in {"missing", "online"} /\ handler[h].todo = {}
  /\ handler' = [handler EXCEPT ![h] = Resting]
  /\ overtaken' = overtaken \ {h}
  /\ UNCHANGED <<subject, reading, queue, lastSeen, alerts, check, now, failures, dipped>>

\* A transaction fails (another connection's write came first), the five seconds are over
\* or the server restarts: what is not evaluated by then never is.
CutOff(h) ==
  /\ handler[h].pc # "idle" /\ failures < MaxFailures
  /\ failures' = failures + 1
  /\ handler' = [handler EXCEPT ![h] = Resting]
  /\ overtaken' = overtaken \ {h}
  /\ UNCHANGED <<subject, reading, queue, lastSeen, alerts, check, now, dipped>>

Handle(h) == Save(h) \/ EvaluateNext(h) \/ ResolveMissing(h) \/ Finish(h)

-----------------------------------------------------------------------------
(* The offline check: the ticker's time, then last_seen and what follows   *)
(* from it, then the rule.                                                 *)

OfflineTick ==
  /\ subject = "presence" /\ check.pc = "idle"
  /\ check' = [NoCheck EXCEPT !.pc = "read", !.at = now]
  /\ UNCHANGED <<subject, reading, queue, lastSeen, alerts, handler, now, failures, overtaken, dipped>>

\* An agent that never reported is not in the list.
AgentLastSeen ==
  /\ check.pc = "read"
  /\ check' = IF lastSeen = NoTime THEN NoCheck
              ELSE [check EXCEPT !.pc = "apply",
                                 !.violated = check.at - lastSeen > AgentOfflineAfter]
  /\ UNCHANGED <<subject, reading, queue, lastSeen, alerts, handler, now, failures, overtaken, dipped>>

\* Mutant: the check only raises the alert and leaves its end to the reports.
EvaluateOfflineRaising ==
  /\ check.pc = "apply" /\ check.violated
  /\ ApplyRule([key |-> "agent_offline", severity |-> "critical", violated |-> TRUE], check.at)
  /\ check' = NoCheck
  /\ UNCHANGED <<subject, reading, queue, lastSeen, handler, now, failures, overtaken>>

EvaluateOffline ==
  /\ check.pc = "apply"
  /\ ApplyRule([key |-> "agent_offline", severity |-> "critical",
                violated |-> check.violated], check.at)
  /\ check' = NoCheck
  /\ UNCHANGED <<subject, reading, queue, lastSeen, handler, now, failures, overtaken>>

OfflineFails ==
  /\ check.pc # "idle" /\ failures < MaxFailures
  /\ failures' = failures + 1
  /\ check' = NoCheck
  /\ UNCHANGED <<subject, reading, queue, lastSeen, alerts, handler, now, overtaken, dipped>>

Check == OfflineTick \/ AgentLastSeen \/ EvaluateOffline

Next ==
  \/ Tick \/ Measure
  \/ \E h \in Handlers : Receive(h) \/ Handle(h) \/ CutOff(h)
  \/ Check \/ OfflineFails

Spec == Init /\ [][Next]_vars

-----------------------------------------------------------------------------
(* Safety.                                                                 *)

\* A report whose evaluation ran to its end, and alone, left exactly the alerts it shows:
\* one for each violated rule, none for a rule it shows recovered or gone, whatever
\* interrupted evaluations left before (engine.go:32-176).
ShowsLastReport ==
  \A h \in Handlers :
    (handler[h].pc = "missing" /\ handler[h].todo = {} /\ h \notin overtaken) =>
      LET value == handler[h].value IN
        \A k \in ReportRules :
          /\ value \in ViolatedBy[k] => alerts[k].severity = Severity(k, value)
          /\ value \notin ViolatedBy[k] \cup KeptFor[k] => alerts[k] = NoAlert

\* An alert ends only with a report that shows its rule recovered or its subject gone: a
\* unit whose state is unknown, a Docker daemon that does not answer and a site without a
\* certificate keep their alerts, and so does a report the agent had to keep
\* (engine.go:147-163, server_test.go:166).
EndsOnlyOnEvidence ==
  [][\A k \in ReportRules :
       (alerts[k] # NoAlert /\ alerts'[k] = NoAlert) =>
         \E h \in Handlers :
           /\ handler[h].pc \in {"rules", "missing"}
           /\ handler[h].fresh
           /\ handler[h].value \notin ViolatedBy[k] \cup KeptFor[k]]_vars

\* "CPU and memory must remain above 90% for five minutes before firing", "three
\* consecutive HTTP failures" (OPERATIONS.md:189-192): no stored report showed the rule
\* satisfied between the violation that opened the alert and the one that fires it.
FiresOnlyUnbroken ==
  [][\A k \in ReportRules :
       alerts[k].state = "pending" /\ alerts'[k].state = "firing" => k \notin dipped]_vars

-----------------------------------------------------------------------------
(* Liveness.  Handlers and the ticker go on, and from some point on        *)
(* nothing fails.  The agent measures and delivers, except the one whose   *)
(* presence is watched: it may fall silent and come back at any time.      *)

Delivers == subject # "presence"

Fairness ==
  /\ WF_vars(Delivers /\ Measure) /\ WF_vars(Check)
  /\ \A h \in Handlers : WF_vars(Delivers /\ Receive(h)) /\ WF_vars(Handle(h))

FairSpec == Spec /\ Fairness

Silent == lastSeen # NoTime /\ now - lastSeen > AgentOfflineAfter
Offline == "agent_offline" \in Keys /\ alerts["agent_offline"] # NoAlert

\* A silent agent is reported offline, and an alarm raised by a check that had read an old
\* last_seen while a report came in does not stay (engine.go:178-198).
OfflineFollowsSilence ==
  /\ (Silent /\ subject = "presence") ~> (Offline \/ ~Silent)
  /\ (Offline /\ ~Silent) ~> (~Offline \/ Silent)

\* Once the readings do not change any more the alerts come to show them, although
\* evaluations fail half-way and a handler the agent gave up may apply an older report
\* after a newer one (server.go:505-511).
ShowsReading ==
  \A k \in ReportRules :
    /\ reading \in ViolatedBy[k] =>
         /\ alerts[k].severity = Severity(k, reading)
         /\ Parameters(k).for = 0 => alerts[k].state = "firing"
    /\ reading \notin ViolatedBy[k] \cup KeptFor[k] => alerts[k] = NoAlert

AlertsCatchUp == []<><<reading' # reading>>_vars \/ <>[]ShowsReading
=============================================================================
