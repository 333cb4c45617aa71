# Monitorozo in TLA+

TLA+ models of Monitorozo (`src/`): agents measure a host and deliver reports to
a server, which stores them, evaluates alert rules, mails the operator and draws
charts. The models are written from the Go sources; line numbers below are those
of `src/`. `PROJECT.json` maps every definition to the lines it stands for.

## Inventory

| Part | State | Operations | What is hard | What must hold |
|---|---|---|---|---|
| Agent spool (`internal/agent/spool.go`) | a directory of numbered files, a wake channel of one token | Enqueue, Peek, Acknowledge, trim, start-up cleaning | two goroutines on one directory; rename, directory sync and eviction can each fail; power cuts | a report accepted is durable until settled; the oldest goes first; no lost wake-up; eviction only when full |
| Sequence counter (`sequence.go`) | a file and a value in memory | NewSequence, Next | the file may be ahead of memory, or fall back after a power cut; end of uint64 | no number twice, none lower |
| Sender (`sender.go`) | the report in hand | Run, sendWithRetry, send | time-outs whose request was stored anyway; answers that end or repeat | a report is dropped only when settled; each is settled in the end |
| Agent process (`cmd/agent`) | the two goroutines | collect, start, stop | stops at any point | restart keeps the above |
| Ingestion (`server.ingest`, `Store.SaveReport`) | `agents.last_sequence`, `reports` | POST /api/v1/reports | repeated, late and reordered requests | each report once, in order; 409 only for settled reports |
| Alert table (`Store.ApplyRule` ff.) | `alerts` | evaluate a rule, acknowledge, pending, cooldown, mark | rows change between the worker's reads and writes | one open alert per key; fires when the rule says so |
| Notification worker (`Server.Run`, `processNotifications`) | a snapshot of preferences and alerts | passes on wake-up and tickers | mail outside transactions; failures after each step; restarts | each transition announced or suppressed; none consumed by an older mail; cooldown |
| Rule engine (`internal/alerts/engine.go`) | none of its own | EvaluateReport, resolveMissing, EvaluateOffline, ResolveOnline | concurrent handlers and the offline ticker; evaluation aborted half-way; subjects that are only unreachable | alerts come to show the newest report, end only on evidence; offline means silent |
| Retention and history (`Store.Maintain`, `History`) | `reports`, `hourly_metrics` | aggregate and delete; charts from both | cutoffs inside hours; late reports; text order of timestamps | nothing deleted before it is aggregated; no hole in charts |
| Sessions, login, limiter (`internal/auth`) | maps with expiry and a size limit | create, get, delete; allow, reset | windows, capacity, requests that overlap; streams that outlive sessions | bounded attempts; nobody refused without cause; streams end |
| Event broker, event stream, `app.js` | channels of eight messages; timer, busy and queued flags, the view | subscribe, publish, refresh, hide, leave | dropped events; reconnects; refreshes that fall together; the session ends under an open page | a quiet page is current, a view is never torn, every page catches up |
| Collector, checks | previous counters | Collect | counter resets, time-outs | rates never negative |
| Start-up and migrations (`storage.Open`, `cmd/server`) | schema version | migrate, listen, stop | killed between two migrations | a binary works only on its own schema |
| Scripts (`scripts/*.sh`) | installed binaries, database file | install, update, rollback, backup, restore | failure half-way, signals, systemd beside them | one release with its database, and a server that is ready |
| E-mail, rendering, configuration, tokens | none, or only at start-up | | | |

Interactions: the agent's collector and sender share the spool and its wake
channel. Sender and server talk HTTP, with the sequence number as the only
protection against repetition. The ingest handler calls the rule engine, wakes
the notification worker through a channel of one token, and publishes to the
broker. Handlers, worker, offline ticker and maintenance share one SQLite
database; each store method is one transaction or one statement.

## Plan

| Step | Module | Contents | State |
|---|---|---|---|
| 1 | `ReportStream` | what delivery promises (abstract) | done |
| 2 | `Agent` | counter, spool, collector, sender, stops and power cuts | done |
| 3 | `Delivery` (extends `Agent`) | network and ingestion; refines `ReportStream` | done |
| 4 | `DeliveryProofs` | type, inductive invariant, safety, refinement | done |
| 5 | `Alerts`, `Notifications` (extends it) | alert table; worker, operator, mail faults | done |
| 6 | `Retention` | maintenance and charts | done |
| 7 | `RetentionProofs` | recent reports stay, no hour forgotten | done |
| 8 | `AlertRules`, `AlertCycle` | one evaluation of a rule; one alert (abstract), which `Notifications` implements | done |
| 9 | `AlertEngine` (extends `AlertRules`) | rules of a report, missing subjects, offline check, evaluations that are cut off | done |
| 10 | `Live` | report handler, broker, event stream, page | done |
| 11 | `Access` | limiter, sessions, login, event streams | done |
| 12 | `Update` | update script, systemd, migrations | done |
| 13 | `UpdateProofs` | type, inductive invariant, safety of the update | done |
| 14 | `AccessProofs` | type, attempts, refusals, streams | done |
| 15 | `NotificationsProofs` | type, sent was mailed, streaks, newer transitions, refinement of `AlertCycle` | done |
| 16 | `LiveProofs` | type, quiet page, coherent views | done |
| 17 | `AlertEngineProofs` | type, alerts show the last report, end only on evidence | done |
| 18 | a proof of `CooldownHolds` | the cooldown while nothing fails and nothing is muted | open |

Abstract specifications: `ReportStream` for delivery, `AlertCycle` for the alert
table with its worker. `AlertEngine` uses the alert of `AlertCycle` in place of
the table: `Alerts` shows what a transaction does to rows, `AlertEngine` runs
many of these transactions against each other.

## Modules

**`Agent`** has the variables of one agent. Each directory has two views: what
processes see (`seqFile`, `dir`) and what a power cut leaves (`seqDisk`,
`disk`). The spool's mutex makes `Enqueue`, `Peek` and `Acknowledge` one step
each for the other goroutine, so each is one action, whose disjuncts are the
places where the code can return early after it changed something:

- `SequenceNext` is `Sequence.Next`: either everything including the directory
  sync succeeds, or the file is replaced and the sync fails.
- `EnqueueFails` is every error before the rename; `Enqueue` commits, wakes, and
  then has a failed sync (no trim), a failed or unsynced eviction, or success.
- `Peek`, `Woken`, `Answered`, `Acknowledge` are the sender's loop; `phase` is
  its program counter. A failed Peek changes nothing.
- `Crash` keeps the directories, `PowerLoss` keeps of each unsynced change an
  arbitrary part, `Start` is `NewSequence` and `NewSpool`.

A crash in the middle of an action is covered: each prefix of an action's effects
on disk is one of its failing disjuncts, followed by `Crash` or `PowerLoss`.

**`Delivery`** adds the request in flight. The sender waits for one attempt
(`reply`); an attempt it gave up is in `late` and may arrive at any later time
or never. `Ingest` is the handler with each kind of answer: 202, 409, the final
refusals 400 and 422 and the answers that ask for a retry. `SaveReport` is its
conditional update and insert. What the handler does after it (rules, wake-up, event)
changes nothing delivery depends on and is `Notifications!Evaluate`.

**`ReportStream`** says what this amounts to: numbers go up, the stored history
goes up, no report is stored while an older one is open, and a report leaves the
agent only settled. The refinement maps `held` to spool and hand, and `lost` to
what was evicted, failed to be buffered, was cut off before it was durable, or
was refused.

**`Alerts`** is the table for one (agent, rule, resource) and the store methods
on it. Values and thresholds are left out: an evaluation is "violated" with a
severity, or not. `for` and `consecutive` are the rule's, as in the engine:
TLS fires at once and changes severity, HTTP counts, CPU and memory must last.

**`Notifications`** is the worker's pass cut at each point where other
transactions can come between: read preferences, read pending alerts, judge one
(mute rules and cooldown), suppress or mail it, mark it. Beside it run
evaluations, acknowledgements, changes of preferences, the clock and restarts.
`FaultChoices` says what a run may meet: `notifications` has behaviours in which
nothing fails and such in which mails, queries and updates fail and the server
restarts. Histories: `streak` and `since` (consecutive violations), `told` and
`announced` (mails that are out), `superseded` (transitions newer than the
worker's snapshot). The notification of an alert is the mail, so its text is
left out. `ImplementsAlertCycle` maps the one row that is not resolved to the
alert of `AlertCycle`, which knows neither rows nor mails: at any time the rule is
evaluated or the operator acknowledges, and nothing else changes the alert.

**`AlertEngine`** has one agent and one subject: its presence, its use of CPU, a
file system, a unit, a container, a site or a certificate. A subject has
readings, and tables say which rules a reading violates, which it leaves out of
the list `EvaluateReport` builds, and for which of these `resolveMissing` keeps
the alert. `memory_high` has the code of `cpu_high`. Handlers overlap (`Receive`
while another handler evaluates: the agent gave up waiting), each rule is one
transaction, `CutOff` is a failed transaction, the five seconds of the request
or a restart. What a handler has left is a set of rules; `Place` is the order
in which `EvaluateReport` lists them, and `resolveMissing` meets the rows of a query in any
order. The offline check is three steps: the ticker's time, the query of
`last_seen`, the rule. Agent and server share a clock.

**`Live`** follows one agent's reports from the handler (store, evaluate,
publish) through the subscriber's channel and the event stream to the page, and
the page's requests back to the dashboard handler, whose reads of reports and
alerts are two steps. The page's events carry nothing it uses, so only their
number is kept. `Refresh` is `refresh()` up to its request, `Show`,
`RefreshFails` and `Leave` are its ends, `Ended` its finally block; `Interval`
stands for the interval, the button and the network's return.

**`Access`** is the limiter of logins, the sessions and the event streams.
A login is four steps: limiter, password, session, reset. The ingest limiter is
the same code. The history `granted` has the attempts one client was allowed in the
last window. A clock is read just before its lock is taken, one step here. A
stream's timer that is due fires before time goes on.

**`Update`** runs `update.sh` for the server, its trap, systemd and the server's
start-up beside the agents' reports. `works` says whether the new release comes
to be ready; `Fail` is a command that fails or thirty failed polls; `Signal` is
HUP, INT or TERM, whose trap exits and so runs the trap of EXIT after it. The
database is its schema and its reports; `wal` and `mixed` follow the log file
beside it. The commands of the rollback themselves succeed.

**`Retention`** counts time in half seconds, because the columns are compared as
text: `TextNano` is the position of an RFC3339Nano text, whose fraction is
omitted when zero, `TextSeconds` that of an RFC3339 text. An hour's row is the set of samples
it averages. `Maintain` is one transaction; a failed one changes nothing.
`History` returns the set of points a chart shows before downsampling.

Mutants: definitions whose comment starts with "Mutant:" are variants with a
plausible bug, not part of any specification. `PROJECT.json` says which property
each of them breaks.

## Runs

| Run | Expect | Shows |
|---|---|---|
| `delivery_safety` | pass | no lost wake-up; a 409 only for settled reports; oldest first; durability; eviction; fresh numbers; refinement of `ReportStream` |
| `delivery_liveness` | pass | what the spool accepted is settled in the end |
| `notifications` | pass | marked sent only if mailed; alerts fire only after their streak; cooldown and no newer transition consumed while nothing fails and severity is steady; refinement of `AlertCycle` |
| `notifications_liveness` | pass | each alert is announced or suppressed in the end |
| `notifications_muted_recovery` | violation | finding 1 |
| `alert_engine` | pass | a report evaluated alone leaves what it shows; alerts end only on evidence; offline follows silence; alerts catch up with steady readings |
| `alert_engine_gap` | violation | finding 3 |
| `retention` | pass | raw retention; no report deleted without an aggregate; no hole in charts |
| `retention_partial_hour` | violation | finding 2 |
| `live` | pass | a quiet page is current; views are not torn and do not go back; a visible page catches up, and leaves without a session |
| `access` | pass | attempts bounded; refusals and full tables have a cause; streams end with their session |
| `update` | pass | schema and binary fit; backups restored alone; what is lost; a server is ready in the end |

**Bounds.** Delivery safety: three usable numbers and a spool of two, so a third
report evicts, the counter runs out, and two stops allow a power cut while the
effects of an earlier crash still show. Liveness: two numbers, a spool of one. The
bounds are on `Modulus`, `QueueSize` and `MaxCrashes` only; the safety theorems
hold for every value of them. Notifications: two alerts of one key
(the cooldown needs a second one), a clock of three values with a cooldown and a
duration of one, batches of one or two. Counts above the rule's limit are not told apart
(`Capped`). Retention: hours of two seconds, raw retention of one and a half
hours, aggregates of two and a half, three reports, a clock past the
end of both retentions; a report may be late by two hours, more than raw
retention, which the configuration allows, or early by half a second.

`alert_engine` has two handlers, one failure, a queue of one and a clock that
reaches both thresholds; `alert_engine_gap` needs a longer clock and a queue of
two. `live` has channels that are full with one event, two reports (the second
during a refresh for the first), one silent change, and one failure or restart.
`access` has three windows of two attempts, a table smaller than the number of
addresses, room for fewer sessions than tokens. `update` has two new migrations
(so that a crash falls between), two crashes and two signals, and reports before
the backup, after it and between two rollbacks.

CHECK_DEADLOCK is off where bounded clocks, counters and alerts come to an end
or the script does; in the other models something can always happen.

**Fairness.** In `Delivery` the goroutines are scheduled and systemd restarts
the agent (weak fairness); of infinitely many attempts some are answered for
good and the answer is heard, and of infinitely many removals some succeed
(strong fairness). The last is an assumption about the disk: a file that can
never be removed is posted for ever and blocks the queue. The server's answers
that are repeated for ever (a revoked token) are excluded by the second. In
`Notifications` the loop goes on because of the minute ticker; for an alert
whose turn comes infinitely often, the query, mail and mark each succeed
infinitely often. Rules with changing severity are left out of the liveness
run: while a rule flaps between warning and critical, the mark may miss each
time and the mail is repeated. In `AlertEngine` handlers and the ticker go
on, and every agent measures and delivers, except in the runs that watch its
presence. In `Live` requests are answered or time out and the page's timers fire;
nothing is assumed of the stream, so catching up rests on the interval alone. In
`Update` systemd restarts, the server starts up, and the script's commands end.

## Findings

1. *Cooldown.* ARCHITECTURE.md:104-106 promises deduplication with a cooldown.
   The cooldown query (storage.go:608-612) looks for a row that is `sent`;
   resolving that alert overwrites `sent` (storage.go:558-569), and when
   recovery mails are switched off the row ends as `suppressed`. A flapping rule
   is then mailed on every flap. The same happens while the recovery mail fails.
2. *Hourly aggregates.* ARCHITECTURE.md:87-89 promises aggregates of completed
   hours. The raw cutoff lies inside an hour, each run aggregates again all hours that
   still have raw reports, and the upsert replaces the row (storage.go:374-389).
   So the last run before an hour's reports are all gone leaves an aggregate
   of the rest of the hour only. TLC's trace is the shortest one, with two runs
   at the same moment, as a restart gives (`runMaintenance` runs at once).
3. *Unbroken violation.* OPERATIONS.md:189 says that CPU and memory must remain
   above 90% for five minutes. A report older than `agent_offline_after` when it
   arrives is stored without being evaluated (server.go:505-511), and a pending
   alert counts from its start (storage.go:524-526). So an alert that was opened
   before an outage fires with the first fresh violation after it, whatever the
   reports buffered in between show.

Met on the way, and no property: `Maintain` compares times as text, where a text
with a fraction sorts before the one without, so reports of the first second of
the running hour are aggregated early; the next run corrects the row before any
chart uses it.

## Proofs

`DeliveryProofs` proves, for every `Modulus > 1`, `QueueSize > 0` and
`MaxCrashes`: `TypeCorrect`, `ReplaySafety`, `DeliveryOrder`, `Durability`,
`Wakefulness`, `FreshNumbers`, `EvictsOldest`, and `Implementation` (every
behaviour of `Delivery` is one of `ReportStream`). For `EvictsOldest` the number
of files has to be bounded after removals whose count is not: above the newest file
removed everything stays, and there is at least a spool of that.

The properties are not inductive by themselves. `IInv` adds

- `Counter`: every number given out is durable in the sequence file, and memory
  is not below it. So a power cut, which falls back to `seqDisk` at worst,
  cannot bring a number back.
- `Origin`: whatever is in spool, hand, network or database was measured, and
  the report in the collector's hand is the newest.
- `Custody`: a measured report is in the spool, in hand or settled.
- `Order`: everything older than an abandoned attempt, the posted report or the
  server's `last_sequence` is settled. With `Custody` this is why an answer 409
  is harmless: the posted report is either above `last_sequence`, or settled.
- `DurableUntilSettled`.

`RetentionProofs` proves `TypeCorrect`, `RecentStays`, `HoursRemembered` and
`ChartsDrawn` of `Retention` for every length of hour (of whole seconds), retentions, bounds and skews that the
assumptions of the module allow. The last two rest on `raw_retention` being at
least an hour (the configuration demands 24): the raw cutoff is then
before the current hour in text order too, so what is deleted was aggregated in
the same transaction. `ChartsDrawn` joins the two halves of a chart at the cut: an
accepted report is still a raw point, or its hour has a row that `History` reads.

`NotificationsProofs` proves, for every set of rules the assumption of `Alerts`
allows and every choice of preferences, faults, batch limit, cooldown and bounds:
`TypeCorrect`, `Sent`, `FiresAfterStreak`, `NewerKept`, and `Implements` (every
behaviour is one of `AlertCycle`). `RulesAssumption` says what the engine's rules
have in common: a rule that waits before it fires has one severity
(engine.go:32-118). `IInv` adds

- `OneAlert`: at most one row is not resolved, and its count and start are those of
  the violations that are going on. The refinement needs it to say which row is
  the alert, `FiresAfterStreak` to read the streak off the row.
- `Batched`: what the worker read is behind the row, never ahead of it, and a row
  with a newer transition was firing when it was read and is resolved now. So
  the mark's comparison of state misses it.
- `Told`: the mail is out before the mark is made.

`AlertEngineProofs` proves `TypeCorrect`, `ShowsReport` and `EndsOnEvidence` for every
number of handlers, every duration, count and bound, and every choice among the
subjects that have readings. `IInv` adds

- `Posting`: one report is being stored at a time and waits at the agent until it is;
  without this not even the types are inductive, because storing takes the
  report off the queue.
- `Evaluating`: what a handler still has to do fits its report.
- `Alone` and `Settled`: a handler nobody overtook runs alone, and the rules it is
  done with show its report. The second is what `ShowsLastReport` says of the
  end, at each point on the way there.

`LiveProofs` proves `TypeCorrect`, `QuietPage` and `Coherent` for every size of channel
and stream and every bound. `IInv` adds

- `Handled`: a report is published after its evaluation, and the next one stored after.
- `Reading`: a refresh reads reports first, and one at a time is under way; so it
  never answers with less than the page shows.
- `Notified`: unless an event, the timer or the page's return is to come, what is
  being read or shown has everything published. A full channel is the case in
  point: its event is dropped, and one is in the channel.

`AccessProofs` proves `TypeCorrect`, `Bounded`, `Refused`, `TurnedAway` and `StreamEnds`
for all finite sets of addresses and tokens, every number of concurrent logins
and all limits. `IInv` adds

- `Windows`: the attempts since the client's entry was opened are at most `Limit` and
  those before it fewer, all of one window; without an entry there
  are fewer than `Limit`. `Bounded` adds the two up.
- `Swept`: an entry that survived the last cleanup was not expired then.
- `Streams`: a stream was opened with a valid session, and its timer is not overdue.

`UpdateProofs` proves, for every `OldSchema` and `NewSchema` that the assumption of
`Update` allows and every bound on reports, crashes and signals: `TypeCorrect`,
`Fits`, `Alone` and `Loses`. None of the three properties is inductive alone, because
whether a start is safe depends on what the script did several commands before.
`IInv` adds

- `Phases`: a running server is the installed binary, and binary and database are
  replaced only while it is down.
- `Schemas`: the schema is the old one until the new release starts, so the backup
  has the old one as well, and the old release is only started on that.
- `Copies`: the backup has exactly the reports acknowledged before it, and when a
  rollback starts the server the database is the backup, without a log.

Only model-checked: `CooldownHolds`, which holds for a cooldown above zero and while
nothing is muted, as in its run, and needs an invariant about all rows and
snapshots of a severity at once; and every liveness property (`EventuallySettled`,
`EventuallyNotified`, `OfflineFollowsSilence`, `AlertsCatchUp`, `CatchesUp`,
`LeavesWithoutSession`, `ServesAgain`), which the prover cannot do.

## Not modelled

Wording, templates and mail text; validation of fields and configuration (inputs
are those it accepts); token hashing; the SMTP dialogue; the collector's and the
checks' I/O and their floating-point rates; `downsample`, whose bucket limits
depend on 53-bit rounding; unreadable spool files; a spool or database restored
from an old copy by hand; an agent whose clock is wrong; the agent's half of
`update.sh`, the other scripts, power cuts and failing commands within the
rollback; the concurrency of SQLite transactions inside one store method (each
is one step; a failed one is a step that does not happen).
