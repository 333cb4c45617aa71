------------------------------- MODULE Retention -------------------------------
(***************************************************************************)
(* The metric history of one agent in the server's database: raw reports,  *)
(* the hourly aggregates that Maintain builds before it deletes raw ones,  *)
(* and the charts that History draws from both.                            *)
(*                                                                         *)
(* Time is counted in half seconds, because the tables compare timestamps  *)
(* as text: RFC3339Nano leaves out a zero fraction, and "05.5Z" sorts      *)
(* before "05Z".  Within a second the text order is the reverse of time.   *)
(***************************************************************************)
EXTENDS Integers, FiniteSets

CONSTANTS
  HourLength,          \* half seconds in an hour
  RawRetention,        \* raw_retention
  AggregateRetention,  \* aggregate_retention
  MaxReportAge,        \* max_report_age: how late a report may be
  MaxClockSkew,        \* max_clock_skew: how far an agent's clock may be ahead
  MaxNow,              \* bound: the server's clock
  MaxReports           \* bound: reports accepted

\* LoadServer refuses shorter retentions; an hour is whole seconds.
ASSUME HourAssumption == HourLength \in Nat \ {0} /\ HourLength % 2 = 0
ASSUME RetentionAssumption ==
  /\ RawRetention \in Nat /\ RawRetention >= HourLength
  /\ AggregateRetention \in Nat /\ AggregateRetention >= RawRetention
ASSUME IngestAssumption == MaxReportAge \in Nat /\ MaxClockSkew \in Nat
ASSUME BoundAssumption == MaxNow \in Nat /\ MaxReports \in Nat

VARIABLES
  now,       \* the server's clock
  accepted,  \* history: when the reports accepted so far were measured
  raw,       \* rows of the reports table, by measured_at
  hourly     \* hourly_metrics: per hour the samples its row averages, {} for no row

vars == <<now, accepted, raw, hourly>>

Times == 0 .. MaxNow + MaxClockSkew
Hour(t) == t \div HourLength
Hours == 0 .. Hour(MaxNow + MaxClockSkew)

\* Positions in text order: of a time as RFC3339Nano, and as RFC3339 (whole seconds).
TextNano(t) == 2 * (t \div 2) + 1 - (t % 2)
TextSeconds(t) == 2 * (t \div 2) + 1

HourStart(h) == h * HourLength

TypeOK ==
  /\ now \in 0 .. MaxNow
  /\ accepted \subseteq Times
  /\ raw \subseteq accepted
  /\ hourly \in [Hours -> SUBSET accepted]
  /\ \A h \in Hours : \A t \in hourly[h] : Hour(t) = h

Init ==
  /\ now = 0
  /\ accepted = {}
  /\ raw = {}
  /\ hourly = [h \in Hours |-> {}]

-----------------------------------------------------------------------------
\* Validate and SaveReport: a report measured at t, late or ahead within the limits.
\* Reports of one agent are seconds apart, so t names the row.
SaveReport(t) ==
  /\ Cardinality(accepted) < MaxReports
  /\ t \notin accepted
  /\ now - MaxReportAge <= t /\ t <= now + MaxClockSkew
  /\ accepted' = accepted \cup {t}
  /\ raw' = raw \cup {t}
  /\ UNCHANGED <<now, hourly>>

Tick ==
  /\ now < MaxNow
  /\ now' = now + 1
  /\ UNCHANGED <<accepted, raw, hourly>>

\* Mutant: rows are not grouped by their own hour.
AggregatedUngrouped ==
  LET old == {t \in raw : TextNano(t) < TextSeconds(HourStart(Hour(now)))}
  IN  [h \in Hours |-> IF \E t \in old : Hour(t) = h THEN old ELSE hourly[h]]

\* What the upsert writes: each hour that still has rows before the current hour gets
\* its row from them alone.
Aggregated ==
  LET old == {t \in raw : TextNano(t) < TextSeconds(HourStart(Hour(now)))}
  IN  [h \in Hours |-> IF \E t \in old : Hour(t) = h
                       THEN {t \in old : Hour(t) = h} ELSE hourly[h]]

\* Mutant: rows are deleted as soon as they are aggregated.
KeptUntilAggregated == {t \in raw : TextNano(t) >= TextSeconds(HourStart(Hour(now)))}

Kept == {t \in raw : TextNano(t) >= TextNano(now - RawRetention)}

\* hour_start is compared with a cutoff in whole seconds.
Dropped(h) == TextSeconds(HourStart(h)) < TextSeconds(now - AggregateRetention)

\* Mutant: raw rows are deleted before they are aggregated.
MaintainDeleteFirst ==
  /\ raw' = Kept
  /\ hourly' = [h \in Hours |->
       IF Dropped(h) THEN {}
       ELSE IF \E t \in Kept : Hour(t) = h /\ h < Hour(now)
            THEN {t \in Kept : Hour(t) = h} ELSE hourly[h]]
  /\ UNCHANGED <<now, accepted>>

\* One transaction, at start-up and then every maintenance_interval; when it fails
\* nothing happens.
Maintain ==
  /\ hourly' = [h \in Hours |-> IF Dropped(h) THEN {} ELSE Aggregated[h]]
  /\ raw' = Kept
  /\ UNCHANGED <<now, accepted>>

Next == (\E t \in Times : SaveReport(t)) \/ Tick \/ Maintain

Spec == Init /\ [][Next]_vars

-----------------------------------------------------------------------------
(* History: the hours from since up to the oldest raw report, then raw     *)
(* reports.  A point is the set of samples it shows.                       *)

RawStart == now - RawRetention

RawHistory(since) == {{t} : t \in {u \in raw : TextNano(u) >= TextNano(since)}}

\* Mutant: the hour that raw retention cuts through is left to the raw reports.
WholeHours(since, until) ==
  {hourly[h] : h \in {g \in Hours : /\ TextSeconds(HourStart(g)) >= TextSeconds(since)
                                    /\ TextSeconds(HourStart(g + 1)) < TextSeconds(until)}}
  \ {{}}

HourlyHistory(since, until) ==
  {hourly[h] : h \in {g \in Hours : /\ TextSeconds(HourStart(g)) >= TextSeconds(since)
                                    /\ TextSeconds(HourStart(g)) < TextSeconds(until)}}
  \ {{}}

History(since) ==
  IF since < RawStart
  THEN HourlyHistory(since, RawStart) \cup RawHistory(RawStart)
  ELSE RawHistory(since)

-----------------------------------------------------------------------------
(* Properties.                                                             *)

\* Seven days of raw reports: a report stays in full until its second is out of the
\* raw retention, however late it came (storage.go:391).
RecentStaysRaw ==
  \A t \in accepted \ raw : t \div 2 <= (now - RawRetention) \div 2

\* A deleted report leaves a point behind: its hour has a row until the aggregate
\* retention, also when it arrived after the rest of its hour had been deleted.
NoHourForgotten ==
  \A t \in accepted \ raw :
    \/ hourly[Hour(t)] # {}
    \/ Dropped(Hour(t))

\* Every chart has a point for each hour inside its range in which a report was accepted,
\* on either side of the cut between aggregates and raw reports.  (The second of the cut
\* itself is left out: there the text order decides.)
EveryHourDrawn ==
  \A since \in 0 .. now, t \in accepted :
    /\ HourStart(Hour(t)) > since
    /\ ~Dropped(Hour(t))
    /\ t \div 2 # RawStart \div 2
    => \E point \in History(since) : \E u \in point : Hour(u) = Hour(t)

\* So it is after every run of maintenance (storage.go:266-329, 365-394).
ChartsHaveNoHole == [][Maintain => EveryHourDrawn']_vars

\* "Upserts completed hours [...] and retains those points for 90 days"
\* (ARCHITECTURE.md:87-89): the row of an hour keeps the samples it was built from.
AggregatesKeepSamples ==
  [][\A h \in Hours : hourly[h] \subseteq hourly'[h] \/ Dropped(h)]_vars
=============================================================================
