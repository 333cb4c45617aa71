--------------------------- MODULE RetentionProofs ---------------------------
(***************************************************************************)
(* Proofs about Retention for every length of the hour, retention, skew    *)
(* and bound its assumptions allow.  They rest on one fact about times:    *)
(* the raw cutoff is before the current hour, in text order as well, so    *)
(* every row Maintain deletes is one it aggregates in the same transaction.*)
(***************************************************************************)
EXTENDS Retention, TLAPS

-----------------------------------------------------------------------------
(* Times.                                                                  *)

\* An hour begins at most an hour before each of its times.
LEMMA HourLemma ==
  ASSUME NEW t \in Nat
  PROVE  /\ Hour(t) \in Nat
         /\ HourStart(Hour(t)) \in Nat
         /\ HourStart(Hour(t)) <= t /\ t < HourStart(Hour(t)) + HourLength
  BY HourAssumption DEF Hour, HourStart

\* Hours begin on whole seconds.
LEMMA WholeSecondLemma ==
  ASSUME NEW h \in Nat
  PROVE  HourStart(h) \in Nat /\ HourStart(h) % 2 = 0
<1>1. PICK k \in Nat : HourLength = 2 * k
  BY HourAssumption
<1>2. HourStart(h) = 2 * (h * k) /\ h * k \in Nat
  BY <1>1 DEF HourStart
<1>3. QED  BY <1>2

\* What is before the raw cutoff as text is before the current hour as text.
LEMMA CutoffLemma ==
  ASSUME NEW t \in Nat, now \in Nat, TextNano(t) < TextNano(now - RawRetention)
  PROVE  TextNano(t) < TextSeconds(HourStart(Hour(now)))
<1> DEFINE start == HourStart(Hour(now))
<1>1. start \in Nat /\ now < start + HourLength /\ start % 2 = 0
  BY HourLemma, WholeSecondLemma
<1>2. now - RawRetention \in Int /\ now - RawRetention < start
  BY <1>1, RetentionAssumption, HourAssumption
<1> HIDE DEF start
<1>3. TextNano(now - RawRetention) < TextSeconds(start)
  BY <1>1, <1>2 DEF TextNano, TextSeconds
<1>4. QED
  BY <1>1, <1>2, <1>3 DEF TextNano, TextSeconds, start

\* Seconds do not go back.
LEMMA SecondsLemma ==
  /\ \A a, b \in Int : a <= b => a \div 2 <= b \div 2
  /\ \A a, b \in Int : TextNano(a) < TextNano(b) => a \div 2 <= b \div 2
  /\ \A a, b \in Int : a <= b => TextSeconds(a) <= TextSeconds(b)
  BY DEF TextNano, TextSeconds

\* Maintain keeps, for each hour that loses a row, the aggregate it had or a new one.
LEMMA AggregatedLemma ==
  ASSUME TypeOK, NEW t \in accepted,
         \/ hourly[Hour(t)] # {}
         \/ t \in raw /\ TextNano(t) < TextSeconds(HourStart(Hour(now)))
  PROVE  Aggregated[Hour(t)] # {}
<1>1. t \in Nat /\ Hour(t) \in Hours
  BY HourAssumption, BoundAssumption, IngestAssumption DEF TypeOK, Times, Hours, Hour
<1> DEFINE old == {u \in raw : TextNano(u) < TextSeconds(HourStart(Hour(now)))}
<1>2. CASE \E u \in old : Hour(u) = Hour(t)
  <2>1. Aggregated[Hour(t)] = {u \in old : Hour(u) = Hour(t)}
    BY <1>1, <1>2, Zenon DEF Aggregated
  <2>2. QED  BY <1>2, <2>1
<1>3. CASE ~ \E u \in old : Hour(u) = Hour(t)
  <2>1. Aggregated[Hour(t)] = hourly[Hour(t)]
    BY <1>1, <1>3, Zenon DEF Aggregated
  <2>2. QED  BY <1>3, <2>1
<1>4. QED  BY <1>2, <1>3

-----------------------------------------------------------------------------
(* The invariant.                                                          *)

IInv == TypeOK /\ RecentStaysRaw /\ NoHourForgotten

\* A step keeps the types.
LEMMA TypeStep == TypeOK /\ [Next]_vars => TypeOK'
<1> SUFFICES ASSUME TypeOK, [Next]_vars
             PROVE  TypeOK'
  OBVIOUS
<1>1. ASSUME NEW t \in Times, SaveReport(t) PROVE TypeOK'
  BY <1>1 DEF TypeOK, SaveReport
<1>2. CASE Tick
  BY <1>2, BoundAssumption DEF TypeOK, Tick
<1>3. CASE Maintain
  <2>1. now' = now /\ accepted' = accepted /\ raw' \subseteq raw
    BY <1>3 DEF Maintain, Kept
  <2>2. ASSUME NEW h \in Hours
        PROVE  hourly'[h] \subseteq accepted /\ \A t \in hourly'[h] : Hour(t) = h
    <3>1. Aggregated[h] \subseteq accepted /\ \A t \in Aggregated[h] : Hour(t) = h
      BY DEF TypeOK, Aggregated
    <3>2. hourly'[h] = IF Dropped(h) THEN {} ELSE Aggregated[h]
      BY <1>3 DEF Maintain
    <3>3. QED  BY <3>1, <3>2
  <2>3. hourly' = [h \in Hours |-> hourly'[h]]
    BY <1>3 DEF Maintain
  <2>4. QED  BY <2>1, <2>2, <2>3 DEF TypeOK
<1>4. CASE UNCHANGED vars
  BY <1>4 DEF TypeOK, vars
<1>5. QED  BY <1>1, <1>2, <1>3, <1>4 DEF Next

\* The cutoffs only move forward, and Maintain deletes up to them.
LEMMA RecentStep == TypeOK /\ RecentStaysRaw /\ [Next]_vars => RecentStaysRaw'
<1> SUFFICES ASSUME TypeOK, RecentStaysRaw, [Next]_vars
             PROVE  RecentStaysRaw'
  OBVIOUS
<1>0. accepted \subseteq Int /\ now \in Int /\ RawRetention \in Int
  BY RetentionAssumption, BoundAssumption, IngestAssumption DEF TypeOK, Times
<1>1. ASSUME NEW t \in Times, SaveReport(t) PROVE RecentStaysRaw'
  BY <1>1 DEF RecentStaysRaw, SaveReport
<1>2. CASE Tick
  <2>1. (now - RawRetention) \div 2 <= (now' - RawRetention) \div 2
    BY <1>0, <1>2, SecondsLemma DEF Tick
  <2>2. QED  BY <1>0, <1>2, <2>1 DEF RecentStaysRaw, Tick
<1>3. CASE Maintain
  <2>1. SUFFICES ASSUME NEW t \in accepted, t \notin raw'
                 PROVE  t \div 2 <= (now - RawRetention) \div 2
    BY <1>3 DEF RecentStaysRaw, Maintain
  <2>2. CASE t \notin raw
    BY <2>2 DEF RecentStaysRaw
  <2>3. CASE t \in raw
    <3>1. TextNano(t) < TextNano(now - RawRetention)
      BY <1>0, <1>3, <2>1, <2>3 DEF Maintain, Kept, TextNano
    <3>2. QED  BY <1>0, <3>1, SecondsLemma
  <2>4. QED  BY <2>2, <2>3
<1>4. CASE UNCHANGED vars
  BY <1>4 DEF RecentStaysRaw, vars
<1>5. QED  BY <1>1, <1>2, <1>3, <1>4 DEF Next

\* A row is deleted together with the aggregation of its hour; aggregates go only
\* with their retention, which has passed for good.
LEMMA HoursStep == TypeOK /\ NoHourForgotten /\ [Next]_vars => NoHourForgotten'
<1> SUFFICES ASSUME TypeOK, NoHourForgotten, [Next]_vars
             PROVE  NoHourForgotten'
  OBVIOUS
<1>0. now \in Nat /\ AggregateRetention \in Nat /\ RawRetention \in Nat
  BY RetentionAssumption, BoundAssumption DEF TypeOK
<1>1. ASSUME NEW t \in Times, SaveReport(t) PROVE NoHourForgotten'
  BY <1>1 DEF NoHourForgotten, SaveReport, Dropped
<1>2. CASE Tick
  <2>1. TextSeconds(now - AggregateRetention) <= TextSeconds(now' - AggregateRetention)
    BY <1>0, <1>2, SecondsLemma DEF Tick
  <2>2. ASSUME NEW h \in Hours, Dropped(h) PROVE Dropped(h)'
    <3>1. HourStart(h) \in Nat
      BY WholeSecondLemma DEF Hours
    <3>2. QED  BY <1>0, <1>2, <2>1, <2>2, <3>1 DEF Dropped, TextSeconds, Tick
  <2>3. ASSUME NEW t \in accepted PROVE Hour(t) \in Hours
    BY HourAssumption, BoundAssumption, IngestAssumption DEF TypeOK, Times, Hours, Hour
  <2>4. QED  BY <1>2, <2>2, <2>3 DEF NoHourForgotten, Tick
<1>3. CASE Maintain
  <2>1. SUFFICES ASSUME NEW t \in accepted, t \notin raw', ~Dropped(Hour(t))
                 PROVE  hourly'[Hour(t)] # {}
    BY <1>3 DEF NoHourForgotten, Maintain, Dropped
  <2>2. t \in Nat /\ Hour(t) \in Hours
    BY HourAssumption, BoundAssumption, IngestAssumption DEF TypeOK, Times, Hours, Hour
  <2>3. Aggregated[Hour(t)] # {}
    <3>1. CASE t \notin raw
      BY <2>1, <3>1, AggregatedLemma DEF NoHourForgotten
    <3>2. CASE t \in raw
      <4>1. TextNano(t) < TextNano(now - RawRetention)
        BY <1>0, <1>3, <2>1, <2>2, <3>2 DEF Maintain, Kept, TextNano
      <4>2. TextNano(t) < TextSeconds(HourStart(Hour(now)))
        BY <1>0, <2>2, <4>1, CutoffLemma
      <4>3. QED  BY <3>2, <4>2, AggregatedLemma
    <3>3. QED  BY <3>1, <3>2
  <2>4. hourly'[Hour(t)] = Aggregated[Hour(t)]
    BY <1>3, <2>1, <2>2, Zenon DEF Maintain
  <2>5. QED  BY <2>3, <2>4
<1>4. CASE UNCHANGED vars
  BY <1>4 DEF NoHourForgotten, Dropped, vars
<1>5. QED  BY <1>1, <1>2, <1>3, <1>4 DEF Next

\* The invariant holds in every state: runs of maintenance at any time and reports
\* late, early or in any order.
THEOREM Invariance == Spec => []IInv
<1>1. Init => IInv
  BY BoundAssumption, IngestAssumption
     DEF Init, IInv, TypeOK, RecentStaysRaw, NoHourForgotten
<1>2. IInv /\ [Next]_vars => IInv'
  BY TypeStep, RecentStep, HoursStep DEF IInv
<1>3. QED  BY <1>1, <1>2, PTL DEF Spec

\* Tables hold what they should, and an hour's row only samples of that hour.
THEOREM TypeCorrect == Spec => []TypeOK
<1>1. IInv => TypeOK
  BY DEF IInv
<1>2. QED  BY <1>1, Invariance, PTL

\* Maintain deletes no raw report that is within the raw retention (storage.go:391).
THEOREM RecentStays == Spec => []RecentStaysRaw
<1>1. IInv => RecentStaysRaw
  BY DEF IInv
<1>2. QED  BY <1>1, Invariance, PTL

\* Maintain deletes no raw report without leaving a row for its hour (storage.go:374-394).
THEOREM HoursRemembered == Spec => []NoHourForgotten
<1>1. IInv => NoHourForgotten
  BY DEF IInv
<1>2. QED  BY <1>1, Invariance, PTL

-----------------------------------------------------------------------------
(* The charts.                                                             *)

\* An accepted report has a time and an hour.
LEMMA AcceptedLemma ==
  ASSUME TypeOK, NEW t \in accepted
  PROVE  t \in Nat /\ Hour(t) \in Hours
BY HourAssumption, BoundAssumption, IngestAssumption DEF TypeOK, Times, Hours, Hour

\* An hour is drawn from its aggregate, when it begins before the raw reports do.
LEMMA HourlyPointLemma ==
  ASSUME TypeOK, NEW since \in Nat, since < RawStart, NEW t \in accepted, now \in Nat,
         HourStart(Hour(t)) > since, t \div 2 < RawStart \div 2, hourly[Hour(t)] # {}
  PROVE  \E point \in History(since) : \E u \in point : Hour(u) = Hour(t)
<1>1. t \in Nat /\ Hour(t) \in Hours
  BY AcceptedLemma
<1>2. RawStart \in Int
  BY RetentionAssumption DEF RawStart
<1>3. PICK start : start = HourStart(Hour(t)) /\ start \in Nat /\ start <= t
  BY <1>1, HourLemma
<1>4. TextSeconds(start) >= TextSeconds(since) /\ TextSeconds(start) < TextSeconds(RawStart)
  BY <1>1, <1>2, <1>3 DEF TextSeconds
<1>5. hourly[Hour(t)] \in HourlyHistory(since, RawStart)
  BY <1>1, <1>3, <1>4 DEF HourlyHistory
<1>6. \A u \in hourly[Hour(t)] : Hour(u) = Hour(t)
  BY <1>1 DEF TypeOK
<1>7. hourly[Hour(t)] \in History(since)
  BY <1>5 DEF History
<1>8. QED  BY <1>6, <1>7

\* A raw report draws itself, when it is inside the range and not before the raw reports.
LEMMA RawPointLemma ==
  ASSUME NEW since \in Nat, NEW t \in raw, TextNano(t) >= TextNano(since),
         TextNano(t) >= TextNano(RawStart)
  PROVE  \E point \in History(since) : \E u \in point : Hour(u) = Hour(t)
<1>1. {t} \in RawHistory(since) /\ {t} \in RawHistory(RawStart)
  BY DEF RawHistory
<1>2. {t} \in History(since)
  BY <1>1 DEF History
<1>3. QED  BY <1>2

\* Maintenance has just cut the raw reports.
Cut == \A t \in raw : TextNano(t) >= TextNano(RawStart)

\* What is left of the raw reports, and the aggregates of those that are gone, draw
\* every hour.
LEMMA DrawnLemma == IInv /\ Cut => EveryHourDrawn
<1> SUFFICES ASSUME IInv, Cut,
                    NEW since \in 0 .. now, NEW t \in accepted, HourStart(Hour(t)) > since,
                    ~Dropped(Hour(t)), t \div 2 # RawStart \div 2
             PROVE  \E point \in History(since) : \E u \in point : Hour(u) = Hour(t)
  BY DEF EveryHourDrawn
<1>1. t \in Nat /\ now \in Nat /\ since \in Nat /\ RawStart \in Int
  BY RetentionAssumption, BoundAssumption, IngestAssumption DEF IInv, TypeOK, Times, RawStart
<1>2. PICK start : start = HourStart(Hour(t)) /\ start \in Nat /\ start <= t /\ start % 2 = 0
  BY <1>1, HourLemma, WholeSecondLemma
<1>3. CASE t \in raw
  <2>1. TextNano(t) >= TextNano(since)
    BY <1>1, <1>2 DEF TextNano
  <2>2. QED  BY <1>1, <1>3, <2>1, RawPointLemma DEF Cut
<1>4. CASE t \notin raw
  <2>1. t \div 2 < RawStart \div 2
    <3>1. t \div 2 <= RawStart \div 2
      BY <1>4 DEF IInv, RecentStaysRaw, RawStart
    <3>2. QED  BY <1>1, <3>1
  <2>2. since < RawStart
    BY <1>1, <1>2, <2>1
  <2>3. hourly[Hour(t)] # {}
    BY <1>4 DEF IInv, NoHourForgotten
  <2>4. QED  BY <1>1, <2>1, <2>2, <2>3, HourlyPointLemma DEF IInv
<1>5. QED  BY <1>3, <1>4

\* A run of maintenance leaves no hour inside a chart without a point.
THEOREM ChartsDrawn == Spec => ChartsHaveNoHole
<1>1. IInv' /\ [Next]_vars /\ (IInv /\ Cut => EveryHourDrawn)'
      => [Maintain => EveryHourDrawn']_vars
  BY DEF Maintain, Kept, Cut, RawStart
<1>2. QED  BY Invariance, DrawnLemma, <1>1, PTL DEF Spec, ChartsHaveNoHole
=============================================================================
