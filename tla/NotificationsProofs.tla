-------------------------- MODULE NotificationsProofs --------------------------
(***************************************************************************)
(* Proofs about the alert table and the notification worker for every set  *)
(* of rules, preferences and faults and every bound.  IInv adds to the     *)
(* types that the table has one alert at a time, which counts what the     *)
(* rule engine saw (OneAlert), what the worker's snapshot can still say of *)
(* the rows (Batched), and that mails come before marks (Told).            *)
(***************************************************************************)
EXTENDS Notifications, FiniteSetTheorems, TLAPS

-----------------------------------------------------------------------------
(* The invariant.                                                          *)

\* There is at most one active alert.  It has the count and the start of the violations
\* that are going on, and there is none when none are.
OneAlert ==
  /\ \A i, j \in Active : i = j
  /\ streak # 0 <=> Active # {}
  /\ \A i \in Active : /\ rows[i].count = streak /\ rows[i].startedAt = since
                       /\ rows[i].severity \in rule.severities
                       /\ rows[i].state = "pending" => ~Immediate
  /\ streak <= rule.consecutive + 1 /\ since <= now

\* A snapshot's row is as far as the snapshot or further; one that was superseded while
\* nothing failed has been resolved since it was read.
Batched ==
  /\ worker.pc \in {"idle", "load"} => worker.batch = <<>> /\ superseded = {}
  /\ worker.pc \in {"suppress", "send", "mark"} => worker.batch # <<>>
  /\ \A k \in DOMAIN worker.batch :
       LET alert == worker.batch[k]
           row == rows[alert.id]
       IN  /\ row.state \in {"firing", "resolved"}
           /\ alert.state = "resolved" => row.state = "resolved"
           /\ alert.id \in superseded => alert.state = "firing" /\ row.state = "resolved"

\* A row that is marked sent, or is about to be, was announced.
Told ==
  /\ SentWasMailed
  /\ worker.pc = "mark" => Head(worker.batch).state \in told[Head(worker.batch).id]

IInv == TypeOK /\ OneAlert /\ Batched /\ Told

-----------------------------------------------------------------------------
(* Rows.                                                                   *)

\* What is assumed of the rule that was chosen.
LEMMA RuleLemma ==
  ASSUME AlertsTypeOK
  PROVE  /\ rule.for \in Nat /\ rule.consecutive \in Nat /\ rule.severities \subseteq Severities
         /\ \/ Immediate
            \/ \E s \in rule.severities : rule.severities = {s}
  BY RulesAssumption DEF AlertsTypeOK, Severities, Immediate

\* Replacing a row leaves the others alone.
LEMMA ReplaceLemma ==
  ASSUME rows \in Seq(Alert), NEW i \in DOMAIN rows, NEW row \in Alert,
         rows' = [rows EXCEPT ![i] = row]
  PROVE  /\ rows' \in Seq(Alert) /\ Len(rows') = Len(rows) /\ DOMAIN rows' = DOMAIN rows
         /\ rows'[i] = row
         /\ \A j \in DOMAIN rows \ {i} : rows'[j] = rows[j]
  OBVIOUS

\* The count is a number that stops above the rule's.
LEMMA CappedLemma ==
  ASSUME AlertsTypeOK, NEW n \in Nat
  PROVE  /\ Capped(n + 1) \in Nat /\ Capped(n + 1) # 0 /\ Capped(n + 1) <= rule.consecutive + 1
         /\ n + 1 >= rule.consecutive => Capped(n + 1) >= rule.consecutive
  BY RuleLemma DEF Capped

\* Only row i may have changed.
Only(i) ==
  /\ rows' \in Seq(Alert) /\ Len(rows') = Len(rows) /\ DOMAIN rows' = DOMAIN rows
  /\ \A j \in DOMAIN rows \ {i} : rows'[j] = rows[j]

\* What a violation without an active alert does.
Opens(severity) ==
  /\ Active = {} /\ Len(rows) < MaxRows
  /\ rows' \in Seq(Alert) /\ Len(rows') = Len(rows) + 1
  /\ DOMAIN rows' = DOMAIN rows \cup {Len(rows) + 1} /\ Len(rows) + 1 \notin DOMAIN rows
  /\ \A j \in DOMAIN rows : rows'[j] = rows[j]
  /\ LET row == rows'[Len(rows) + 1] IN
       /\ row.state = (IF Immediate THEN "firing" ELSE "pending")
       /\ row.notification = (IF Immediate THEN "pending" ELSE "none")
       /\ row.severity = severity /\ row.startedAt = now /\ row.count = 1
       /\ row.acknowledged = "no" /\ row.notifiedAt = NoTime

\* What a further violation does to alert i: the due one fires, a critical one asks again.
Goes(i, severity) ==
  LET old == rows[i]
      new == rows'[i]
      fires == old.state = "pending" /\ Due(old)
  IN  /\ Only(i)
      /\ new.state = (IF fires THEN "firing" ELSE old.state)
      /\ new.severity = severity
      /\ new.notification = (IF fires \/ Escalates(i, severity) THEN "pending" ELSE old.notification)
      /\ new.count = Capped(old.count + 1) /\ new.startedAt = old.startedAt
      /\ new.acknowledged = (IF Escalates(i, severity) THEN "no" ELSE old.acknowledged)
      /\ new.notifiedAt = old.notifiedAt

\* What an evaluation that is not violated does to alert i.
Ends(i) ==
  /\ Only(i) /\ rows'[i].state = "resolved"
  /\ rows'[i].notification = (IF rows[i].state = "pending" THEN "none"
                              ELSE IF rows[i].notification = "suppressed" THEN "suppressed"
                              ELSE "pending")
  /\ rows'[i].notifiedAt = rows[i].notifiedAt /\ rows'[i].severity = rows[i].severity

\* The cases of one evaluation of the rule.
LEMMA ApplyRuleLemma ==
  ASSUME AlertsTypeOK, NEW violated \in BOOLEAN, NEW severity \in rule.severities,
         ApplyRule(violated, severity)
  PROVE  \/ violated /\ Opens(severity)
         \/ violated /\ \E i \in Active : Goes(i, severity)
         \/ ~violated /\ \E i \in Active : Ends(i)
         \/ ~violated /\ Active = {} /\ rows' = rows
<1>0. severity \in Severities /\ rows \in Seq(Alert) /\ Active \subseteq DOMAIN rows
  BY RuleLemma DEF AlertsTypeOK, Active
<1>1. CASE violated /\ Active = {} /\ Open(severity)
  <2> DEFINE row == [state |-> IF Immediate THEN "firing" ELSE "pending",
                     severity |-> severity,
                     notification |-> IF Immediate THEN "pending" ELSE "none",
                     notifiedAt |-> NoTime, startedAt |-> now, count |-> 1,
                     acknowledged |-> "no"]
  <2>1. row \in Alert
    BY <1>0 DEF Alert, States, Notifications, AlertsTypeOK
  <2>2. rows' = Append(rows, row) /\ Len(rows) < MaxRows
    BY <1>1 DEF Open
  <2>3. /\ row.state = (IF Immediate THEN "firing" ELSE "pending")
        /\ row.notification = (IF Immediate THEN "pending" ELSE "none")
        /\ row.severity = severity /\ row.startedAt = now /\ row.count = 1
        /\ row.acknowledged = "no" /\ row.notifiedAt = NoTime
    OBVIOUS
  <2> HIDE DEF row
  <2>4. /\ rows' \in Seq(Alert) /\ Len(rows') = Len(rows) + 1 /\ rows'[Len(rows) + 1] = row
        /\ DOMAIN rows' = DOMAIN rows \cup {Len(rows) + 1} /\ Len(rows) + 1 \notin DOMAIN rows
        /\ \A j \in DOMAIN rows : rows'[j] = rows[j]
    BY <1>0, <2>1, <2>2
  <2>5. QED  BY <1>1, <2>2, <2>3, <2>4 DEF Opens
<1>2. ASSUME violated, NEW i \in Active, Fire(i, severity)
      PROVE  Goes(i, severity)
  <2>0. PICK old : old = rows[i] /\ old \in Alert
    BY <1>0
  <2>1. old \in Alert /\ old.count \in Nat /\ Capped(old.count + 1) \in Nat
    BY <2>0, CappedLemma DEF Alert
  <2>2. PICK row : row = [old EXCEPT !.state = "firing", !.severity = severity,
                                  !.notification = "pending", !.count = Capped(old.count + 1)]
    OBVIOUS
  <2>3. /\ row \in Alert
        /\ row.state = "firing" /\ row.notification = "pending"
        /\ row.acknowledged = old.acknowledged
        /\ row.severity = severity /\ row.count = Capped(old.count + 1)
        /\ row.startedAt = old.startedAt /\ row.notifiedAt = old.notifiedAt
    BY <1>0, <2>1, <2>2 DEF Alert, States, Notifications
  <2>4. rows' = [rows EXCEPT ![i] = row]
    BY <1>2, <2>0, <2>2, Zenon DEF Fire
  <2>5. Only(i) /\ rows'[i] = row
    BY <1>0, <2>3, <2>4, ReplaceLemma DEF Only
  <2>6. QED  BY <1>2, <2>0, <2>3, <2>5 DEF Goes, Fire, Escalates
<1>3. ASSUME violated, NEW i \in Active, Escalate(i, severity)
      PROVE  Goes(i, severity)
  <2>0. PICK old : old = rows[i] /\ old \in Alert
    BY <1>0
  <2>1. old \in Alert /\ old.count \in Nat /\ Capped(old.count + 1) \in Nat
    BY <2>0, CappedLemma DEF Alert
  <2>2. PICK row : row = [old EXCEPT !.severity = severity, !.notification = "pending",
                                  !.count = Capped(old.count + 1), !.acknowledged = "no"]
    OBVIOUS
  <2>3. /\ row \in Alert
        /\ row.state = old.state /\ row.notification = "pending"
        /\ row.acknowledged = "no"
        /\ row.severity = severity /\ row.count = Capped(old.count + 1)
        /\ row.startedAt = old.startedAt /\ row.notifiedAt = old.notifiedAt
    BY <1>0, <2>1, <2>2 DEF Alert, States, Notifications
  <2>4. rows' = [rows EXCEPT ![i] = row]
    BY <1>3, <2>0, <2>2, Zenon DEF Escalate
  <2>5. Only(i) /\ rows'[i] = row
    BY <1>0, <2>3, <2>4, ReplaceLemma DEF Only
  <2>6. QED  BY <1>3, <2>0, <2>3, <2>5 DEF Goes, Escalate, Escalates
<1>4. ASSUME violated, NEW i \in Active, Refresh(i, severity)
      PROVE  Goes(i, severity)
  <2>0. PICK old : old = rows[i] /\ old \in Alert
    BY <1>0
  <2>1. old \in Alert /\ old.count \in Nat /\ Capped(old.count + 1) \in Nat
    BY <2>0, CappedLemma DEF Alert
  <2>2. PICK row : row = [old EXCEPT !.severity = severity, !.count = Capped(old.count + 1)]
    OBVIOUS
  <2>3. /\ row \in Alert
        /\ row.state = old.state /\ row.notification = old.notification
        /\ row.acknowledged = old.acknowledged
        /\ row.severity = severity /\ row.count = Capped(old.count + 1)
        /\ row.startedAt = old.startedAt /\ row.notifiedAt = old.notifiedAt
    BY <1>0, <2>1, <2>2 DEF Alert, States, Notifications
  <2>4. rows' = [rows EXCEPT ![i] = row]
    BY <1>4, <2>0, <2>2, Zenon DEF Refresh
  <2>5. Only(i) /\ rows'[i] = row
    BY <1>0, <2>3, <2>4, ReplaceLemma DEF Only
  <2>6. QED  BY <1>4, <2>0, <2>3, <2>5 DEF Goes, Refresh
<1>5. ASSUME ~violated, NEW i \in Active, Resolve(i)
      PROVE  Ends(i)
  <2>1. PICK old : old = rows[i] /\ old \in Alert
    BY <1>0
  <2>2. PICK row : row = [old EXCEPT !.state = "resolved",
                                  !.notification =
                                    IF old.state = "pending" THEN "none"
                                    ELSE IF old.notification = "suppressed" THEN "suppressed"
                                    ELSE "pending"]
    OBVIOUS
  <2>3. /\ row \in Alert /\ row.state = "resolved"
        /\ row.notification = (IF old.state = "pending" THEN "none"
                               ELSE IF old.notification = "suppressed" THEN "suppressed"
                               ELSE "pending")
        /\ row.notifiedAt = old.notifiedAt /\ row.severity = old.severity
    BY <2>1, <2>2 DEF Alert, States, Notifications
  <2>4. rows' = [rows EXCEPT ![i] = row]
    BY <1>5, <2>1, <2>2, Zenon DEF Resolve
  <2>5. Only(i) /\ rows'[i] = row
    BY <1>0, <2>3, <2>4, ReplaceLemma DEF Only
  <2>6. QED  BY <2>1, <2>3, <2>5 DEF Ends
<1>6. QED  BY <1>1, <1>2, <1>3, <1>4, <1>5 DEF ApplyRule

\* What a mark does: nothing, or row alert.id still shows the snapshot and is marked.
Marks(alert, state) ==
  LET old == rows[alert.id]
      new == rows'[alert.id]
  IN  /\ Only(alert.id)
      /\ old.state = alert.state /\ old.severity = alert.severity /\ old.notification = "pending"
      /\ new.state = old.state /\ new.severity = old.severity /\ new.count = old.count
      /\ new.startedAt = old.startedAt /\ new.acknowledged = old.acknowledged
      /\ new.notification = state
      /\ new.notifiedAt = IF state = "sent" THEN now ELSE old.notifiedAt

LEMMA MarkLemma ==
  ASSUME AlertsTypeOK, NEW alert, alert.id \in DOMAIN rows, NEW state \in {"sent", "suppressed"},
         MarkAlertDelivery(alert, state)
  PROVE  rows' = rows \/ Marks(alert, state)
<1>1. SUFFICES ASSUME rows' # rows
               PROVE  Marks(alert, state)
  OBVIOUS
<1>2. PICK old, at : /\ rows \in Seq(Alert) /\ old = rows[alert.id] /\ old \in Alert
                     /\ at = (IF state = "sent" THEN now ELSE old.notifiedAt)
  BY DEF AlertsTypeOK
<1>3. PICK row : row = [old EXCEPT !.notification = state, !.notifiedAt = at]
  OBVIOUS
<1>4. at \in {NoTime} \cup 0 .. MaxTime
  BY <1>2 DEF AlertsTypeOK, Alert
<1>5. /\ row \in Alert
      /\ row.state = old.state /\ row.severity = old.severity
      /\ row.notification = state /\ row.count = old.count
      /\ row.startedAt = old.startedAt /\ row.acknowledged = old.acknowledged
      /\ row.notifiedAt = at
  <2>1. old \in Alert /\ state \in Notifications
    BY <1>2 DEF Notifications
  <2>2. QED  BY <1>3, <1>4, <2>1 DEF Alert, States, Notifications
<1>6. /\ old.state = alert.state /\ old.severity = alert.severity
      /\ old.notification = "pending" /\ rows' = [rows EXCEPT ![alert.id] = row]
  BY <1>1, <1>2, <1>3, Zenon DEF MarkAlertDelivery
<1>7. Only(alert.id) /\ rows'[alert.id] = row
  BY <1>2, <1>5, <1>6, ReplaceLemma DEF Only
<1>8. QED  BY <1>2, <1>5, <1>6, <1>7 DEF Marks

\* What an acknowledgement does.
Attends(i) ==
  LET old == rows[i]
      new == rows'[i]
  IN  /\ Only(i)
      /\ new.state = old.state /\ new.severity = old.severity /\ new.count = old.count
      /\ new.startedAt = old.startedAt /\ new.notification = old.notification
      /\ new.notifiedAt = old.notifiedAt /\ new.acknowledged = old.severity

LEMMA AcknowledgeLemma ==
  ASSUME AlertsTypeOK, NEW i \in DOMAIN rows, AcknowledgeAlert(i)
  PROVE  i \in Active /\ Attends(i)
<1>1. PICK old : rows \in Seq(Alert) /\ old = rows[i] /\ old \in Alert
  BY DEF AlertsTypeOK
<1>2. PICK row : row = [old EXCEPT !.acknowledged = old.severity]
  OBVIOUS
<1>3. /\ row \in Alert
      /\ row.state = old.state /\ row.severity = old.severity
      /\ row.notification = old.notification /\ row.count = old.count
      /\ row.startedAt = old.startedAt /\ row.acknowledged = old.severity
      /\ row.notifiedAt = old.notifiedAt
  <2>1. old \in Alert
    BY <1>1
  <2>2. QED  BY <1>2, <2>1 DEF Alert, States, Notifications, Severities
<1>4. i \in Active /\ rows' = [rows EXCEPT ![i] = row]
  BY <1>1, <1>2, Zenon DEF AcknowledgeAlert
<1>5. Only(i) /\ rows'[i] = row
  BY <1>1, <1>3, <1>4, ReplaceLemma DEF Only
<1>6. QED  BY <1>1, <1>3, <1>4, <1>5 DEF Attends

-----------------------------------------------------------------------------
(* The worker's batch.                                                     *)

LEMMA TailLemma ==
  ASSUME NEW S, NEW b \in Seq(S), b # <<>>
  PROVE  /\ Head(b) = b[1] /\ 1 \in DOMAIN b /\ Tail(b) \in Seq(S)
         /\ \A k \in DOMAIN Tail(b) : k + 1 \in DOMAIN b /\ Tail(b)[k] = b[k + 1]
  OBVIOUS

\* The k-th smallest element of a finite set of numbers is one of them.
LEMMA NthLemma ==
  ASSUME NEW ids \in SUBSET Nat, IsFiniteSet(ids), NEW k \in 1 .. Cardinality(ids)
  PROVE  \E i \in ids : Cardinality({j \in ids : j < i}) = k - 1
<1> DEFINE Below(i) == {j \in ids : j < i}
           n == Cardinality(ids)
           place == [i \in ids |-> Cardinality(Below(i)) + 1]
<1>1. n \in Nat /\ IsFiniteSet(1 .. n) /\ Cardinality(1 .. n) = n
  BY FS_CardinalityType, FS_Interval
<1>2. \A i \in ids : /\ IsFiniteSet(Below(i)) /\ Cardinality(Below(i)) \in Nat
                     /\ Cardinality(Below(i)) < n
  <2> TAKE i \in ids
  <2>1. Below(i) \in SUBSET ids /\ Below(i) # ids
    OBVIOUS
  <2> HIDE DEF Below
  <2>2. /\ IsFiniteSet(Below(i)) /\ Cardinality(Below(i)) <= n
        /\ Cardinality(Below(i)) # n
    BY <2>1, FS_Subset
  <2>3. QED  BY <1>1, <2>2, FS_CardinalityType
<1>3. \A i, j \in ids : i < j => Cardinality(Below(i)) < Cardinality(Below(j))
  <2>1. SUFFICES ASSUME NEW i \in ids, NEW j \in ids, i < j
                 PROVE  Cardinality(Below(i)) < Cardinality(Below(j))
    OBVIOUS
  <2>2. Below(i) \in SUBSET Below(j) /\ Below(i) # Below(j)
    <3>1. \A m \in ids : m \in Nat
      OBVIOUS
    <3>2. \A m \in Below(i) : m \in Below(j)
      BY <2>1, <3>1
    <3>3. i \in Below(j) /\ i \notin Below(i)
      BY <2>1, <3>1
    <3>4. QED  BY <3>2, <3>3
  <2> HIDE DEF Below
  <2>3. /\ Cardinality(Below(i)) <= Cardinality(Below(j))
        /\ Cardinality(Below(i)) # Cardinality(Below(j))
    BY <1>2, <2>2, FS_Subset
  <2>4. QED  BY <1>2, <2>3
<1>4. place \in Injection(ids, 1 .. n)
  <2> HIDE DEF Below, n
  <2>1. place \in [ids -> 1 .. n]
    BY <1>1, <1>2
  <2>2. \A i, j \in ids : place[i] = place[j] => i = j
    BY <1>2, <1>3
  <2>3. QED  BY <2>1, <2>2 DEF Injection, IsInjective
<1>5. place \in Surjection(ids, 1 .. n)
  <2> HIDE DEF place, n
  <2>1. QED  BY <1>1, <1>4, FS_Injection DEF n
<1>6. PICK i \in ids : place[i] = k
  BY <1>5 DEF Surjection
<1>7. QED  BY <1>2, <1>6

\* The worker's snapshots are of rows that ask for a mail.
LEMMA LoadLemma ==
  ASSUME TypeOK, LoadPending
  PROVE  /\ worker'.pc = "next" /\ worker'.preferences = worker.preferences
         /\ worker'.batch \in Seq(Snapshot)
         /\ \A k \in DOMAIN worker'.batch :
              LET alert == worker'.batch[k] IN
                /\ alert.id \in Pending /\ alert.state = rows[alert.id].state
                /\ alert.severity = rows[alert.id].severity
<1> DEFINE ids == {i \in Pending : Cardinality({j \in Pending : j < i}) < BatchLimit}
           Nth(k) == CHOOSE i \in ids : Cardinality({j \in ids : j < i}) = k - 1
           alert(k) == [id |-> Nth(k), state |-> rows[Nth(k)].state,
                        severity |-> rows[Nth(k)].severity]
           n == Cardinality(ids)
<1>1. /\ rows \in Seq(Alert) /\ Len(rows) \in Nat /\ Len(rows) <= MaxRows /\ MaxRows \in Nat
      /\ DOMAIN rows = 1 .. Len(rows)
  BY BoundsAssumption DEF TypeOK, AlertsTypeOK
<1>2. ids \in SUBSET (1 .. Len(rows)) /\ ids \subseteq Pending
  BY <1>1 DEF Pending
<1>3. worker' = [worker EXCEPT !.pc = "next", !.batch = [k \in 1 .. n |-> alert(k)]]
  BY DEF LoadPending, GoTo
<1> HIDE DEF ids
<1>4. IsFiniteSet(ids) /\ n \in Nat
  <2>1. IsFiniteSet(1 .. Len(rows))
    BY <1>1, FS_Interval
  <2>2. IsFiniteSet(ids)
    BY <1>2, <2>1, FS_Subset
  <2>3. QED  BY <2>2, FS_CardinalityType DEF n
<1> HIDE DEF n
<1>5. \A k \in 1 .. n : Nth(k) \in ids
  <2> TAKE k \in 1 .. n
  <2>1. ids \in SUBSET Nat
    BY <1>1, <1>2
  <2>2. \E i \in ids : Cardinality({j \in ids : j < i}) = k - 1
    BY <1>4, <2>1, NthLemma DEF n
  <2>3. QED  BY <2>2
<1>6. \A i \in Pending : /\ i \in 1 .. MaxRows /\ rows[i].state \in {"firing", "resolved"}
                         /\ rows[i].severity \in Severities
  <2> TAKE i \in Pending
  <2>1. i \in 1 .. Len(rows) /\ rows[i].state \in {"firing", "resolved"}
    BY <1>1 DEF Pending
  <2>2. rows[i] \in Alert
    BY <1>1, <2>1
  <2>3. QED  BY <1>1, <2>1, <2>2 DEF Alert
<1> HIDE DEF Nth
<1>7. \A k \in 1 .. n : /\ alert(k) \in Snapshot /\ alert(k).id \in Pending
                        /\ alert(k).state = rows[alert(k).id].state
                        /\ alert(k).severity = rows[alert(k).id].severity
  BY <1>2, <1>5, <1>6 DEF Snapshot
<1> HIDE DEF alert
<1>8. /\ worker'.pc = "next" /\ worker'.preferences = worker.preferences
      /\ worker'.batch = [k \in 1 .. n |-> alert(k)]
  BY <1>3 DEF TypeOK
<1>9. QED  BY <1>4, <1>7, <1>8

-----------------------------------------------------------------------------
(* Types.                                                                  *)

\* The pass goes on with the rest of its batch, in one of its states.
LEMMA GoToLemma ==
  ASSUME TypeOK, NEW pc \in {"next", "suppress", "send", "mark"}, NEW batch \in Seq(Snapshot),
         GoTo(pc, batch)
  PROVE  /\ worker' \in Pass
         /\ worker'.pc = pc /\ worker'.batch = batch /\ worker'.preferences = worker.preferences
<1>1. PICK old : old = worker /\ old \in Pass
  BY DEF TypeOK
<1>2. worker' = [old EXCEPT !.pc = pc, !.batch = batch]
  BY <1>1 DEF GoTo
<1>3. /\ worker' \in Pass
      /\ worker'.pc = pc /\ worker'.batch = batch /\ worker'.preferences = old.preferences
  BY <1>1, <1>2 DEF Pass
<1>4. QED  BY <1>1, <1>3

\* What a mark does besides the row: the batch is one shorter.
LEMMA MarkStepLemma ==
  ASSUME TypeOK, worker.batch # <<>>, NEW state \in {"sent", "suppressed"}, Mark(state)
  PROVE  /\ rows' = rows \/ Marks(Head(worker.batch), state)
         /\ worker'.pc = "next" /\ worker'.batch = Tail(worker.batch)
         /\ worker' \in Pass
         /\ Head(worker.batch) = worker.batch[1] /\ 1 \in DOMAIN worker.batch
         /\ UNCHANGED <<rule, now, streak, since, preferences, faults, superseded, told, announced>>
<1>1. /\ worker.batch \in Seq(Snapshot)
      /\ \A k \in DOMAIN worker.batch : worker.batch[k].id \in DOMAIN rows
  BY DEF TypeOK, Pass
<1>2. /\ Head(worker.batch) = worker.batch[1] /\ 1 \in DOMAIN worker.batch
      /\ Tail(worker.batch) \in Seq(Snapshot)
  BY <1>1, TailLemma
<1>3. Head(worker.batch).id \in DOMAIN rows
  BY <1>1, <1>2
<1>4. GoTo("next", Tail(worker.batch))
  BY DEF Mark
<1>5. rows' = rows \/ Marks(Head(worker.batch), state)
  BY <1>3, MarkLemma DEF Mark, TypeOK
<1>6. QED  BY <1>2, <1>4, <1>5, GoToLemma DEF Mark

\* The rows keep their type, and none goes away.
LEMMA RowsStep ==
  ASSUME TypeOK, Batched, [Next]_vars
  PROVE  /\ rows' \in Seq(Alert) /\ Len(rows') <= MaxRows
         /\ DOMAIN rows \subseteq DOMAIN rows'
<1>1. rows \in Seq(Alert) /\ Len(rows) <= MaxRows /\ MaxRows \in Nat /\ Len(rows) \in Nat
  BY BoundsAssumption DEF TypeOK, AlertsTypeOK
<1>2. CASE rows' = rows
  BY <1>1, <1>2
<1>3. ASSUME NEW i, Only(i)
      PROVE  /\ rows' \in Seq(Alert) /\ Len(rows') <= MaxRows
             /\ DOMAIN rows \subseteq DOMAIN rows'
  BY <1>1, <1>3 DEF Only
<1>4. CASE Evaluate
  <2>1. PICK violated \in BOOLEAN, severity \in rule.severities : ApplyRule(violated, severity)
    BY <1>4 DEF Evaluate
  <2>2. CASE Opens(severity)
    BY <1>1, <2>2 DEF Opens
  <2>3. CASE \E i \in Active : Goes(i, severity) \/ Ends(i)
    BY <1>3, <2>3 DEF Goes, Ends
  <2>4. QED  BY <1>2, <2>1, <2>2, <2>3, ApplyRuleLemma DEF TypeOK
<1>5. CASE Acknowledge
  <2>1. PICK i \in DOMAIN rows : AcknowledgeAlert(i)
    BY <1>5 DEF Acknowledge
  <2>2. Only(i)
    BY <2>1, AcknowledgeLemma DEF Attends, TypeOK
  <2>3. QED  BY <1>3, <2>2
<1>6. CASE Suppress \/ MarkSent
  <2>1. PICK state \in {"sent", "suppressed"} : Mark(state) /\ worker.batch # <<>>
    BY <1>6 DEF Suppress, MarkSent, Batched
  <2>2. rows' = rows \/ Marks(Head(worker.batch), state)
    BY <2>1, MarkStepLemma
  <2>3. QED  BY <1>2, <1>3, <2>2 DEF Marks
<1>7. CASE UNCHANGED vars
  BY <1>2, <1>7 DEF vars, alertVars
<1>8. CASE SaveNotifications \/ Tick \/ Restart
  BY <1>2, <1>8 DEF SaveNotifications, Tick, Restart, alertVars
<1>9. CASE LoadPreferences \/ LoadPending \/ Judge \/ Send \/ SendFails \/ Skip \/ EndPass
  BY <1>2, <1>9 DEF LoadPreferences, LoadPending, Judge, Send, SendFails, Skip, EndPass, alertVars
<1>10. QED  BY <1>4, <1>5, <1>6, <1>7, <1>8, <1>9 DEF Next, Work

\* The worker keeps its batch, drops its head, starts without one or loads one.
LEMMA WorkerStep ==
  ASSUME TypeOK, Batched, [Next]_vars
  PROVE  /\ worker' \in Pass
         /\ \/ worker'.batch = worker.batch
            \/ worker.batch # <<>> /\ worker'.batch = Tail(worker.batch)
            \/ worker'.batch = <<>>
            \/ LoadPending
<1>1. /\ worker \in Pass /\ worker.batch \in Seq(Snapshot) /\ <<>> \in Seq(Snapshot)
      /\ worker.batch # <<>> => Tail(worker.batch) \in Seq(Snapshot)
  BY TailLemma DEF TypeOK, Pass
<1>2. preferences \in PreferenceChoices /\ worker.preferences \in PreferenceChoices
  BY DEF TypeOK, Pass
<1>3. CASE worker' = worker
  BY <1>1, <1>3
<1>4. CASE LoadPreferences
  BY <1>1, <1>2, <1>4 DEF LoadPreferences, Pass
<1>5. CASE LoadPending
  <2>1. worker'.batch \in Seq(Snapshot) /\ GoTo("next", worker'.batch)
    BY <1>5, LoadLemma DEF LoadPending, GoTo
  <2>2. QED  BY <1>5, <2>1, GoToLemma
<1>6. CASE Judge
  <2>1. PICK pc \in {"next", "suppress", "send", "mark"} : GoTo(pc, worker.batch)
    BY <1>6 DEF Judge
  <2>2. QED  BY <1>1, <2>1, GoToLemma
<1>7. CASE Send
  BY <1>1, <1>7, GoToLemma DEF Send
<1>8. CASE Suppress \/ MarkSent \/ SendFails \/ Skip
  <2>1. worker.batch # <<>> /\ GoTo("next", Tail(worker.batch))
    BY <1>8 DEF Suppress, MarkSent, SendFails, Skip, Mark, Batched
  <2>2. QED  BY <1>1, <2>1, GoToLemma
<1>9. CASE Restart \/ EndPass
  <2>1. PICK prefs \in PreferenceChoices : worker' = Idle(prefs)
    BY <1>2, <1>9 DEF Restart, EndPass
  <2>2. QED  BY <1>1, <2>1 DEF Idle, Pass
<1>10. CASE UNCHANGED vars \/ Evaluate \/ Acknowledge \/ SaveNotifications \/ Tick
  BY <1>3, <1>10 DEF vars, workerVars, Evaluate, Acknowledge, SaveNotifications, Tick
<1>11. QED  BY <1>4, <1>5, <1>6, <1>7, <1>8, <1>9, <1>10 DEF Next, Work

\* What only one action changes.
LEMMA FrameLemma ==
  ASSUME [Next]_vars
  PROVE  /\ UNCHANGED <<rule, faults>>
         /\ ~Evaluate => UNCHANGED <<streak, since>>
         /\ ~Evaluate /\ ~Restart /\ ~EndPass => UNCHANGED superseded
         /\ ~Send => UNCHANGED <<told, announced>>
         /\ ~Tick => UNCHANGED now
         /\ ~SaveNotifications => UNCHANGED preferences
         /\ Evaluate \/ Acknowledge \/ Suppress \/ MarkSent \/ UNCHANGED rows
  BY DEF Next, Work, vars, alertVars, workerVars, Evaluate, ApplyRule, Acknowledge, AcknowledgeAlert,
         SaveNotifications, Tick, Restart, LoadPreferences, LoadPending, Judge, Suppress, Send,
         SendFails, MarkSent, Skip, EndPass, Mark

LEMMA TypeStep ==
  ASSUME TypeOK, Batched, [Next]_vars
  PROVE  TypeOK'
<1>1. AlertsTypeOK'
  <2>1. rule \in Rules /\ now \in 0 .. MaxTime /\ streak \in Nat /\ since \in 0 .. MaxTime
    BY DEF TypeOK, AlertsTypeOK
  <2>2. rule' \in Rules
    BY <2>1, FrameLemma
  <2>3. now' \in 0 .. MaxTime
    BY <2>1, FrameLemma, BoundsAssumption DEF Tick
  <2>4. CASE Evaluate
    BY <2>1, <2>4, CappedLemma, BoundsAssumption, <2>2, <2>3, RowsStep
       DEF Evaluate, ApplyRule, AlertsTypeOK, TypeOK
  <2>5. CASE ~Evaluate
    BY <2>1, <2>2, <2>3, <2>5, FrameLemma, RowsStep DEF AlertsTypeOK
  <2>6. QED  BY <2>4, <2>5
<1>2. preferences' \in PreferenceChoices /\ faults' \in FaultChoices
  BY FrameLemma DEF TypeOK, SaveNotifications
<1>3. worker' \in Pass
  BY WorkerStep
<1>4. \A k \in DOMAIN worker'.batch : worker'.batch[k].id \in DOMAIN rows'
  <2>1. /\ DOMAIN rows \subseteq DOMAIN rows' /\ worker.batch \in Seq(Snapshot)
        /\ \A k \in DOMAIN worker.batch : worker.batch[k].id \in DOMAIN rows
    BY RowsStep DEF TypeOK, Pass
  <2>2. CASE worker'.batch = worker.batch
    BY <2>1, <2>2
  <2>3. CASE worker.batch # <<>> /\ worker'.batch = Tail(worker.batch)
    BY <2>1, <2>3, TailLemma
  <2>4. CASE worker'.batch = <<>>
    BY <2>4
  <2>5. CASE LoadPending
    BY <2>1, <2>5, LoadLemma DEF Pending
  <2>6. QED  BY <2>2, <2>3, <2>4, <2>5, WorkerStep
<1>5. superseded' \subseteq 1 .. MaxRows
  <2>1. CASE Evaluate
    <3>1. InBatch \subseteq 1 .. MaxRows
      BY BoundsAssumption DEF InBatch, TypeOK, AlertsTypeOK
    <3>2. QED  BY <2>1, <3>1 DEF Evaluate, TypeOK
  <2>2. CASE ~Evaluate
    BY <2>2, FrameLemma DEF TypeOK, Restart, EndPass
  <2>3. QED  BY <2>1, <2>2
<1>6. told' \in [1 .. MaxRows -> SUBSET {"firing", "resolved"}]
      /\ announced' \in [Severities -> [id : 0 .. MaxRows, at : {NoTime} \cup 0 .. MaxTime]]
  <2>1. CASE Send
    <3>1. Head(worker.batch) \in Snapshot
      BY <2>1, TailLemma DEF Send, Batched, TypeOK, Pass
    <3>2. Head(worker.batch).state \in {"firing", "resolved"} /\ Head(worker.batch).id \in 0 .. MaxRows
          /\ Head(worker.batch).severity \in Severities
      BY <3>1, BoundsAssumption DEF Snapshot
    <3>3. QED  BY <2>1, <3>2 DEF Send, TypeOK, AlertsTypeOK
  <2>2. CASE ~Send
    BY <2>2, FrameLemma DEF TypeOK
  <2>3. QED  BY <2>1, <2>2
<1>7. QED  BY <1>1, <1>2, <1>3, <1>4, <1>5, <1>6 DEF TypeOK

-----------------------------------------------------------------------------
(* One alert at a time.                                                    *)

\* An evaluation opens the only active alert, continues it, ends it or finds none.
LEMMA EvaluationLemma ==
  ASSUME TypeOK, OneAlert, NEW violated \in BOOLEAN, NEW severity \in rule.severities,
         ApplyRule(violated, severity)
  PROVE  \/ /\ violated /\ Opens(severity) /\ Active' = {Len(rows) + 1}
         \/ /\ violated /\ \E i \in DOMAIN rows : Active = {i} /\ Active' = {i} /\ Goes(i, severity)
         \/ /\ ~violated /\ Active' = {} /\ \E i \in Active : Ends(i)
         \/ /\ ~violated /\ Active' = {} /\ Active = {} /\ rows' = rows
<1>0. AlertsTypeOK /\ rows \in Seq(Alert) /\ Active \subseteq DOMAIN rows
  BY DEF TypeOK, AlertsTypeOK, Active
<1>1. CASE violated /\ Opens(severity)
  <2>1. rows'[Len(rows) + 1].state \in {"pending", "firing"}
    BY <1>1 DEF Opens
  <2>2. \A j \in DOMAIN rows : rows'[j].state \notin {"pending", "firing"}
    BY <1>1 DEF Opens, Active
  <2>3. Active' = {Len(rows) + 1}
    BY <1>1, <2>1, <2>2 DEF Opens, Active
  <2>4. QED  BY <1>1, <2>3
<1>2. ASSUME violated, NEW i \in Active, Goes(i, severity)
      PROVE  Active = {i} /\ Active' = {i}
  <2>1. Active = {i} /\ rows[i].state \in {"pending", "firing"} /\ i \in DOMAIN rows
    BY DEF OneAlert, Active
  <2>2. rows'[i].state \in {"pending", "firing"}
    BY <1>2, <2>1 DEF Goes
  <2>3. \A j \in DOMAIN rows \ {i} : rows'[j].state \notin {"pending", "firing"}
    BY <1>2, <2>1 DEF Goes, Only, Active
  <2>4. QED  BY <1>2, <2>1, <2>2, <2>3 DEF Goes, Only, Active
<1>3. ASSUME ~violated, NEW i \in Active, Ends(i)
      PROVE  Active' = {}
  <2>1. Active = {i} /\ i \in DOMAIN rows
    BY DEF OneAlert, Active
  <2>2. \A j \in DOMAIN rows : rows'[j].state \notin {"pending", "firing"}
    BY <1>3, <2>1 DEF Ends, Only, Active
  <2>3. QED  BY <1>3, <2>2 DEF Ends, Only, Active
<1>4. CASE ~violated /\ Active = {} /\ rows' = rows
  BY <1>4 DEF Active
<1>5. QED  BY <1>0, <1>1, <1>2, <1>3, <1>4, ApplyRuleLemma

\* Marks and acknowledgements leave of a row what the rule engine counts on.
LEMMA KeepLemma ==
  ASSUME TypeOK, Batched, [Next]_vars, ~Evaluate
  PROVE  /\ DOMAIN rows' = DOMAIN rows
         /\ \A i \in DOMAIN rows :
              /\ rows'[i].state = rows[i].state /\ rows'[i].severity = rows[i].severity
              /\ rows'[i].count = rows[i].count /\ rows'[i].startedAt = rows[i].startedAt
         /\ Active' = Active
<1> DEFINE Kept == /\ DOMAIN rows' = DOMAIN rows
                   /\ \A i \in DOMAIN rows :
                        /\ rows'[i].state = rows[i].state /\ rows'[i].severity = rows[i].severity
                        /\ rows'[i].count = rows[i].count /\ rows'[i].startedAt = rows[i].startedAt
<1>1. CASE Acknowledge
  <2>1. PICK i \in DOMAIN rows : Attends(i)
    BY <1>1, AcknowledgeLemma DEF Acknowledge, TypeOK
  <2>2. QED  BY <2>1 DEF Attends, Only, Active
<1>2. CASE Suppress \/ MarkSent
  <2>1. PICK state \in {"sent", "suppressed"} : Mark(state) /\ worker.batch # <<>>
    BY <1>2 DEF Suppress, MarkSent, Batched
  <2>2. rows' = rows \/ Marks(Head(worker.batch), state)
    BY <2>1, MarkStepLemma
  <2>3. Kept
    BY <2>2 DEF Marks, Only
  <2>4. QED  BY <2>3 DEF Active
<1>3. CASE UNCHANGED rows
  BY <1>3 DEF Active
<1>4. QED  BY <1>1, <1>2, <1>3, FrameLemma

LEMMA AlertStep ==
  ASSUME TypeOK, OneAlert, Batched, [Next]_vars
  PROVE  OneAlert'
<1>1. /\ rule' = rule /\ Immediate' = Immediate /\ now \in Nat /\ now' \in Nat /\ now <= now'
      /\ streak \in Nat /\ since \in Nat
  BY FrameLemma DEF TypeOK, AlertsTypeOK, Immediate, Tick
<1>2. rule.for \in Nat /\ rule.consecutive \in Nat
  BY RuleLemma DEF TypeOK
<1>3. CASE Evaluate
  <2>1. PICK violated \in BOOLEAN, severity \in rule.severities : ApplyRule(violated, severity)
    BY <1>3 DEF Evaluate
  <2>2. /\ streak' = (IF violated THEN Capped(streak + 1) ELSE 0)
        /\ since' = (IF ~violated THEN 0 ELSE IF streak > 0 THEN since ELSE now)
        /\ now' = now
    BY <2>1 DEF ApplyRule
  <2>3. Capped(streak + 1) # 0 /\ Capped(streak + 1) <= rule.consecutive + 1
    BY <1>1, CappedLemma DEF TypeOK
  <2>4. CASE violated /\ Opens(severity) /\ Active' = {Len(rows) + 1}
    <3>1. streak = 0
      BY <2>4 DEF OneAlert, Opens
    <3>2. streak' = 1 /\ since' = now
      BY <1>2, <2>2, <2>4, <3>1 DEF Capped
    <3>3. QED  BY <1>1, <1>2, <2>2, <2>4, <3>2 DEF OneAlert, Opens
  <2>5. ASSUME violated, NEW i \in DOMAIN rows, Active = {i}, Active' = {i}, Goes(i, severity)
        PROVE  OneAlert'
    <3>1. streak # 0 /\ rows[i].count = streak /\ rows[i].startedAt = since
      BY <2>5 DEF OneAlert
    <3>2. rows'[i].count = streak' /\ rows'[i].startedAt = since' /\ since' = since
      BY <1>1, <2>2, <2>5, <3>1 DEF Goes
    <3>3. rows'[i].severity \in rule.severities
      BY <2>5 DEF Goes
    <3>4. rows'[i].state = "pending" => rows[i].state = "pending"
      BY <2>5 DEF Goes
    <3>5. QED  BY <1>1, <1>2, <2>2, <2>3, <2>5, <3>2, <3>3, <3>4 DEF OneAlert
  <2>6. CASE ~violated /\ Active' = {}
    BY <1>1, <1>2, <2>2, <2>6 DEF OneAlert
  <2>7. QED  BY <2>1, <2>4, <2>5, <2>6, EvaluationLemma
<1>4. CASE ~Evaluate
  <2>1. streak' = streak /\ since' = since
    BY <1>4, FrameLemma
  <2>2. Active \subseteq DOMAIN rows
    BY DEF Active
  <2>3. QED  BY <1>1, <1>4, <2>1, <2>2, KeepLemma DEF OneAlert
<1>5. QED  BY <1>3, <1>4

-----------------------------------------------------------------------------
(* Mails and marks.                                                        *)

LEMMA ToldStep ==
  ASSUME TypeOK, OneAlert, Batched, Told, [Next]_vars
  PROVE  Told'
<1>1. TypeOK'
  BY TypeStep
<1>2. \A i \in 1 .. MaxRows : told[i] \subseteq told'[i]
  <2>1. CASE Send
    BY <2>1 DEF Send, TypeOK
  <2>2. CASE ~Send
    BY <2>2, FrameLemma
  <2>3. QED  BY <2>1, <2>2
<1>3. SentWasMailed'
  <2>1. SUFFICES ASSUME NEW i \in DOMAIN rows', rows'[i].notification = "sent"
                 PROVE  rows'[i].state \in told'[i]
    BY DEF SentWasMailed
  <2>2. i \in 1 .. MaxRows
    BY <1>1, BoundsAssumption DEF TypeOK, AlertsTypeOK
  <2>3. CASE i \in DOMAIN rows /\ rows[i].notification = "sent" /\ rows'[i].state = rows[i].state
    BY <1>2, <2>2, <2>3 DEF Told, SentWasMailed
  <2>4. CASE Evaluate
    <3>1. PICK violated \in BOOLEAN, severity \in rule.severities : ApplyRule(violated, severity)
      BY <2>4 DEF Evaluate
    <3>2. CASE Opens(severity)
      BY <2>1, <2>3, <3>2 DEF Opens
    <3>3. ASSUME NEW j \in Active, Goes(j, severity)
          PROVE  rows'[i].state \in told'[i]
      BY <2>1, <2>3, <3>3 DEF Goes, Only
    <3>4. ASSUME NEW j \in Active, Ends(j)
          PROVE  rows'[i].state \in told'[i]
      BY <2>1, <2>3, <3>4 DEF Ends, Only
    <3>5. CASE rows' = rows
      BY <2>1, <2>3, <3>5
    <3>6. QED  BY <3>1, <3>2, <3>3, <3>4, <3>5, ApplyRuleLemma DEF TypeOK
  <2>5. CASE Acknowledge
    <3>1. PICK j \in DOMAIN rows : Attends(j)
      BY <2>5, AcknowledgeLemma DEF Acknowledge, TypeOK
    <3>2. QED  BY <2>1, <2>3, <3>1 DEF Attends, Only
  <2>6. CASE Suppress \/ MarkSent
    <3>1. PICK state \in {"sent", "suppressed"} :
            Mark(state) /\ worker.batch # <<>> /\ (state = "sent" => MarkSent)
      BY <2>6 DEF Suppress, MarkSent, Batched
    <3>2. rows' = rows \/ Marks(Head(worker.batch), state)
      BY <3>1, MarkStepLemma
    <3>3. state = "sent" => Head(worker.batch).state \in told[Head(worker.batch).id]
      BY <3>1 DEF MarkSent, Told
    <3>4. CASE rows' = rows
      BY <2>1, <2>3, <3>4
    <3>5. CASE Marks(Head(worker.batch), state)
      BY <1>2, <2>1, <2>2, <2>3, <3>3, <3>5 DEF Marks, Only
    <3>6. QED  BY <3>2, <3>4, <3>5
  <2>7. CASE UNCHANGED rows
    BY <2>1, <2>3, <2>7
  <2>8. QED  BY <2>4, <2>5, <2>6, <2>7, FrameLemma
<1>4. ASSUME worker'.pc = "mark"
      PROVE  Head(worker'.batch).state \in told'[Head(worker'.batch).id]
  <2>1. \/ Head(worker.batch) = worker.batch[1] /\ Head(worker.batch) \in Snapshot
        \/ worker.batch = <<>>
    BY TailLemma DEF TypeOK, Pass
  <2>2. CASE Send
    <3>1. worker.batch # <<>> /\ worker.batch \in Seq(Snapshot)
      BY <2>2 DEF Send, Batched, TypeOK, Pass
    <3>2. worker'.batch = worker.batch
      BY <2>2, <3>1, GoToLemma DEF Send
    <3>3. Head(worker.batch).id \in 1 .. MaxRows
      BY <2>1, <3>1 DEF Snapshot
    <3>4. QED  BY <2>2, <3>2, <3>3 DEF Send, TypeOK
  <2>3. CASE worker' = worker
    <3>1. worker.batch # <<>>
      BY <1>4, <2>3 DEF Batched
    <3>2. Head(worker.batch).id \in 1 .. MaxRows
      BY <2>1, <3>1 DEF Snapshot
    <3>3. QED  BY <1>2, <1>4, <2>3, <3>2 DEF Told
  <2>4. CASE LoadPreferences \/ Restart \/ EndPass
    BY <1>4, <2>4 DEF LoadPreferences, Restart, EndPass, Idle
  <2>5. CASE LoadPending
    BY <1>4, <2>5, LoadLemma
  <2>6. CASE Judge
    <3>1. PICK pc \in {"suppress", "send"} : GoTo(pc, worker.batch)
      BY <2>6 DEF Judge
    <3>2. QED  BY <1>4, <3>1, GoToLemma DEF TypeOK, Pass
  <2>7. CASE Suppress \/ MarkSent \/ SendFails \/ Skip
    <3>1. worker.batch # <<>> /\ GoTo("next", Tail(worker.batch))
      BY <2>7 DEF Suppress, MarkSent, SendFails, Skip, Mark, Batched
    <3>2. QED  BY <1>4, <3>1, GoToLemma, TailLemma DEF TypeOK, Pass
  <2>8. CASE UNCHANGED vars \/ Evaluate \/ Acknowledge \/ SaveNotifications \/ Tick
    BY <2>3, <2>8 DEF vars, workerVars, Evaluate, Acknowledge, SaveNotifications, Tick
  <2>9. QED  BY <2>2, <2>4, <2>5, <2>6, <2>7, <2>8 DEF Next, Work
<1>5. QED  BY <1>3, <1>4 DEF Told

-----------------------------------------------------------------------------
(* The batch and the rows.                                                 *)

\* A rule of one severity never escalates.
LEMMA OneSeverityLemma ==
  ASSUME AlertsTypeOK, Undisturbed
  PROVE  \A s, t \in rule.severities : s = t
<1>1. rule.severities \in SUBSET {"warning", "critical"} /\ IsFiniteSet({"warning", "critical"})
  <2>1. IsFiniteSet({"warning"}) /\ IsFiniteSet({"warning"} \cup {"critical"})
    BY FS_Singleton, FS_AddElement
  <2>2. {"warning", "critical"} = {"warning"} \cup {"critical"}
    OBVIOUS
  <2>3. QED  BY <2>1, <2>2, RuleLemma DEF Severities
<1>2. IsFiniteSet(rule.severities)
  BY <1>1, FS_Subset
<1>3. QED  BY <1>2, FS_Singleton DEF Undisturbed

\* An alert of the worker's snapshot, the row and whether it was superseded.
Agrees(alert) ==
  /\ rows[alert.id].state \in {"firing", "resolved"}
  /\ alert.state = "resolved" => rows[alert.id].state = "resolved"
  /\ alert.id \in superseded => alert.state = "firing" /\ rows[alert.id].state = "resolved"

LEMMA EvaluateAgrees ==
  ASSUME TypeOK, OneAlert, NEW alert \in Snapshot, alert.id \in DOMAIN rows,
         Agrees(alert), Evaluate
  PROVE  Agrees(alert)'
<1>1. PICK violated \in BOOLEAN, severity \in rule.severities : ApplyRule(violated, severity)
  BY DEF Evaluate
<1> DEFINE i == alert.id
<1>2. i \in superseded' =>
        \/ i \in superseded
        \/ /\ Undisturbed
           /\ rows'[i].state # rows[i].state \/ Escalates(i, rows'[i].severity)
  BY DEF Evaluate
<1>3. CASE rows'[i] = rows[i]
  BY <1>2, <1>3 DEF Agrees, Escalates
<1>4. CASE Opens(severity)
  BY <1>3, <1>4 DEF Opens
<1>5. ASSUME NEW j \in Active, Goes(j, severity)
      PROVE  Agrees(alert)'
  <2>1. CASE j = i
    <3>1. rows[i].state = "firing" /\ rows'[i].state = "firing" /\ rows'[i].severity = severity
      BY <1>5, <2>1 DEF Goes, Agrees, Active
    <3>2. Undisturbed => ~Escalates(i, severity)
      BY <2>1, OneSeverityLemma DEF OneAlert, Escalates, TypeOK
    <3>3. QED  BY <1>2, <3>1, <3>2 DEF Agrees
  <2>2. CASE j # i
    BY <1>3, <1>5, <2>2 DEF Goes, Only
  <2>3. QED  BY <2>1, <2>2
<1>6. ASSUME NEW j \in Active, Ends(j)
      PROVE  Agrees(alert)'
  <2>1. CASE j = i
    <3>1. rows[i].state = "firing" /\ rows'[i].state = "resolved"
      BY <1>6, <2>1 DEF Ends, Agrees, Active
    <3>2. QED  BY <3>1 DEF Agrees, Snapshot
  <2>2. CASE j # i
    BY <1>3, <1>6, <2>2 DEF Ends, Only
  <2>3. QED  BY <2>1, <2>2
<1>7. CASE rows' = rows
  BY <1>3, <1>7
<1>8. QED  BY <1>1, <1>4, <1>5, <1>6, <1>7, ApplyRuleLemma DEF TypeOK

LEMMA BatchStep ==
  ASSUME TypeOK, OneAlert, Batched, [Next]_vars
  PROVE  Batched'
<1>1. /\ worker.batch \in Seq(Snapshot)
      /\ \A k \in DOMAIN worker.batch :
           /\ worker.batch[k] \in Snapshot /\ worker.batch[k].id \in DOMAIN rows
           /\ Agrees(worker.batch[k])
  BY DEF TypeOK, Pass, Batched, Agrees
<1>2. worker'.pc \in {"idle", "load"} => worker'.batch = <<>> /\ superseded' = {}
  <2>1. CASE Evaluate
    BY <2>1 DEF Evaluate, Batched, InBatch
  <2>2. CASE LoadPreferences \/ Restart \/ EndPass
    BY <2>2 DEF LoadPreferences, Restart, EndPass, Idle, Batched
  <2>3. CASE LoadPending
    BY <2>3, LoadLemma
  <2>4. CASE Judge
    <3>1. PICK pc \in {"suppress", "send"} : GoTo(pc, worker.batch)
      BY <2>4 DEF Judge
    <3>2. QED  BY <1>1, <3>1, GoToLemma
  <2>5. CASE Send
    BY <1>1, <2>5, GoToLemma DEF Send
  <2>6. CASE Suppress \/ MarkSent \/ SendFails \/ Skip
    <3>1. worker.batch # <<>> /\ GoTo("next", Tail(worker.batch))
      BY <2>6 DEF Suppress, MarkSent, SendFails, Skip, Mark, Batched
    <3>2. QED  BY <1>1, <3>1, GoToLemma, TailLemma
  <2>7. CASE UNCHANGED vars \/ Acknowledge \/ SaveNotifications \/ Tick
    BY <2>7 DEF vars, workerVars, Acknowledge, SaveNotifications, Tick, Batched
  <2>8. QED  BY <2>1, <2>2, <2>3, <2>4, <2>5, <2>6, <2>7 DEF Next, Work
<1>3. worker'.pc \in {"suppress", "send", "mark"} => worker'.batch # <<>>
  <2>1. CASE UNCHANGED vars \/ Evaluate \/ Acknowledge \/ SaveNotifications \/ Tick
    BY <2>1 DEF vars, workerVars, Evaluate, Acknowledge, SaveNotifications, Tick, Batched
  <2>2. CASE LoadPreferences \/ Restart \/ EndPass
    BY <2>2 DEF LoadPreferences, Restart, EndPass, Idle
  <2>3. CASE LoadPending
    BY <2>3, LoadLemma
  <2>4. CASE Judge
    <3>1. PICK pc \in {"suppress", "send"} : GoTo(pc, worker.batch) /\ worker.batch # <<>>
      BY <2>4 DEF Judge
    <3>2. QED  BY <1>1, <3>1, GoToLemma
  <2>5. CASE Send
    BY <1>1, <2>5, GoToLemma DEF Send, Batched
  <2>6. CASE Suppress \/ MarkSent \/ SendFails \/ Skip
    <3>1. worker.batch # <<>> /\ GoTo("next", Tail(worker.batch))
      BY <2>6 DEF Suppress, MarkSent, SendFails, Skip, Mark, Batched
    <3>2. QED  BY <1>1, <3>1, GoToLemma, TailLemma
  <2>7. QED  BY <2>1, <2>2, <2>3, <2>4, <2>5, <2>6 DEF Next, Work
<1>4. ASSUME NEW alert \in Snapshot, alert.id \in DOMAIN rows, Agrees(alert)
      PROVE  Agrees(alert)'
  <2>1. CASE Evaluate
    BY <1>4, <2>1, EvaluateAgrees
  <2>2. CASE ~Evaluate
    <3>1. superseded' \subseteq superseded
      BY <2>2, FrameLemma DEF Restart, EndPass
    <3>2. rows'[alert.id].state = rows[alert.id].state
      BY <1>4, <2>2, KeepLemma
    <3>3. QED  BY <1>4, <3>1, <3>2 DEF Agrees
  <2>3. QED  BY <2>1, <2>2
<1>5. ASSUME NEW k \in DOMAIN worker'.batch, NEW alert, alert = worker'.batch[k]
      PROVE  Agrees(alert)'
  <2>1. CASE worker'.batch = worker.batch
    BY <1>1, <1>4, <1>5, <2>1
  <2>2. CASE worker.batch # <<>> /\ worker'.batch = Tail(worker.batch)
    BY <1>1, <1>4, <1>5, <2>2, TailLemma
  <2>3. CASE worker'.batch = <<>>
    BY <2>3
  <2>4. CASE LoadPending
    <3>1. superseded' = {} /\ rows' = rows
      BY <2>4 DEF LoadPending, Batched, alertVars
    <3>2. alert.id \in Pending /\ alert.state = rows[alert.id].state
      BY <1>5, <2>4, LoadLemma
    <3>3. QED  BY <3>1, <3>2 DEF Agrees, Pending
  <2>5. QED  BY <2>1, <2>2, <2>3, <2>4, WorkerStep
<1>6. \A k \in DOMAIN worker'.batch :
        LET alert == worker'.batch[k]
            row == rows'[alert.id]
        IN  /\ row.state \in {"firing", "resolved"}
            /\ alert.state = "resolved" => row.state = "resolved"
            /\ alert.id \in superseded' => alert.state = "firing" /\ row.state = "resolved"
  BY <1>5 DEF Agrees
<1>7. QED  BY <1>2, <1>3, <1>6 DEF Batched

-----------------------------------------------------------------------------
(* The theorems.                                                           *)

LEMMA Initially == Init => IInv
<1>1. SUFFICES ASSUME Init PROVE IInv
  OBVIOUS
<1>2. 0 \in 0 .. MaxTime /\ <<>> \in Seq(Alert) /\ <<>> \in Seq(Snapshot)
  BY BoundsAssumption
<1>3. TypeOK
  <2>1. AlertsTypeOK
    BY <1>1, <1>2, BoundsAssumption DEF Init, AlertsInit, AlertsTypeOK
  <2>2. worker \in Pass /\ worker.batch = <<>>
    BY <1>1, <1>2 DEF Init, Idle, Pass
  <2>3. announced \in [Severities -> [id : 0 .. MaxRows, at : {NoTime} \cup 0 .. MaxTime]]
    BY <1>1, BoundsAssumption DEF Init, NoMail
  <2>4. QED  BY <1>1, <2>1, <2>2, <2>3 DEF Init, TypeOK
<1>4. Active = {} /\ rule.consecutive \in Nat
  BY <1>1, <1>3, RuleLemma DEF Init, AlertsInit, Active, TypeOK
<1>5. OneAlert
  BY <1>1, <1>4 DEF Init, AlertsInit, OneAlert
<1>6. Batched /\ Told
  BY <1>1 DEF Init, AlertsInit, Idle, Batched, Told, SentWasMailed
<1>7. QED  BY <1>3, <1>5, <1>6 DEF IInv

\* The invariant of the alert table and the worker is inductive (storage.go:482-640,
\* server.go:526-610).
THEOREM Invariance == Spec => []IInv
<1>1. IInv /\ [Next]_vars => IInv'
  BY TypeStep, AlertStep, BatchStep, ToldStep DEF IInv
<1>2. QED  BY Initially, <1>1, PTL DEF Spec

\* Rows, worker and histories keep their types; the worker's snapshots are of rows that
\* exist, whatever number of alerts is loaded at once (storage.go:579).
THEOREM TypeCorrect == Spec => []TypeOK
<1>1. IInv => TypeOK
  BY DEF IInv
<1>2. QED  BY Invariance, <1>1, PTL

\* For every rule, cooldown and batch limit, whatever fails and whatever the operator
\* saves: an alert marked sent was announced in the state it is in (storage.go:620).
THEOREM Sent == Spec => []SentWasMailed
<1>1. IInv => SentWasMailed
  BY DEF IInv, Told
<1>2. QED  BY Invariance, <1>1, PTL

\* For every rule: an alert fires only after as many consecutive violations, or as long a
\* time of violations only, as the rule demands (storage.go:482).
THEOREM FiresAfterStreak == Spec => FiresOnlyAfterStreak
<1> DEFINE Earned == \/ rule.consecutive > 1 /\ streak' >= rule.consecutive
                     \/ rule.consecutive <= 1 /\ now - since' >= rule.for
<1>1. ASSUME IInv, Next, NEW i \in DOMAIN rows', rows'[i].state = "firing",
             i \in DOMAIN rows => rows[i].state # "firing"
      PROVE  Earned
  <2>2. TypeOK /\ OneAlert /\ Batched /\ AlertsTypeOK /\ now \in Nat /\ streak \in Nat /\ [Next]_vars
        /\ rule.for \in Nat /\ rule.consecutive \in Nat
    BY <1>1, RuleLemma DEF IInv, TypeOK, AlertsTypeOK
  <2>3. CASE Evaluate
    <3>1. PICK violated \in BOOLEAN, severity \in rule.severities : ApplyRule(violated, severity)
      BY <2>3 DEF Evaluate
    <3>2. /\ violated => streak' = Capped(streak + 1)
          /\ violated => since' = IF streak > 0 THEN since ELSE now
      BY <3>1 DEF ApplyRule
    <3>3. CASE violated /\ Opens(severity)
      <4>1. i = Len(rows) + 1 /\ Immediate
        BY <1>1, <3>3 DEF Opens
      <4>2. streak = 0
        BY <2>2, <3>3 DEF Opens, OneAlert
      <4>3. QED  BY <2>2, <3>2, <3>3, <4>1, <4>2 DEF Immediate
    <3>4. ASSUME violated, NEW j \in Active, Goes(j, severity)
          PROVE  Earned
      <4>1. i = j /\ rows[i].state = "pending" /\ Due(rows[i])
        BY <1>1, <3>4 DEF Goes, Only, Active
      <4>2. streak # 0 /\ rows[i].count = streak /\ rows[i].startedAt = since
        BY <2>2, <4>1 DEF OneAlert
      <4>3. streak + 1 >= rule.consecutive => streak' >= rule.consecutive
        BY <2>2, <3>2, <3>4, CappedLemma
      <4>4. since' = since
        BY <2>2, <3>2, <3>4, <4>2
      <4>5. QED  BY <4>1, <4>2, <4>3, <4>4 DEF Due
    <3>5. ASSUME NEW j \in Active, Ends(j)
          PROVE  Earned
      BY <1>1, <3>5 DEF Ends, Only
    <3>6. CASE rows' = rows
      BY <1>1, <3>6
    <3>7. QED  BY <2>2, <3>1, <3>3, <3>4, <3>5, <3>6, ApplyRuleLemma
  <2>4. CASE ~Evaluate
    BY <1>1, <2>2, <2>4, KeepLemma
  <2>5. QED  BY <2>3, <2>4
<1>2. IInv /\ [Next]_vars =>
        [\A i \in DOMAIN rows' :
           (/\ rows'[i].state = "firing"
            /\ i \in DOMAIN rows => rows[i].state # "firing")
           => \/ rule.consecutive > 1 /\ streak' >= rule.consecutive
              \/ rule.consecutive <= 1 /\ now - since' >= rule.for]_vars
  BY <1>1
<1>3. QED  BY Invariance, <1>2, PTL DEF Spec, FiresOnlyAfterStreak

\* For every rule of one severity: while nothing fails, the worker never marks a row that
\* had a newer transition since it was read (storage.go:620).
THEOREM NewerKept == Spec => NoNewerTransitionConsumed
<1>1. ASSUME IInv, Next, NEW i \in DOMAIN rows, rows[i].notification = "pending",
             rows'[i].notification \in {"sent", "suppressed"},
             worker.pc \in {"mark", "suppress"}
      PROVE  i \notin superseded
  <2>1. /\ TypeOK /\ OneAlert /\ Batched /\ AlertsTypeOK /\ [Next]_vars
        /\ worker.batch \in Seq(Snapshot) /\ worker.batch # <<>>
    BY <1>1 DEF IInv, TypeOK, Batched, Pass
  <2>2. CASE Evaluate
    <3>1. PICK violated \in BOOLEAN, severity \in rule.severities : ApplyRule(violated, severity)
      BY <2>2 DEF Evaluate
    <3>2. ~Opens(severity)
      BY <1>1 DEF Opens
    <3>3. ASSUME NEW j \in Active, Goes(j, severity)
          PROVE  FALSE
      BY <1>1, <3>3 DEF Goes, Only
    <3>4. ASSUME NEW j \in Active, Ends(j)
          PROVE  FALSE
      BY <1>1, <3>4 DEF Ends, Only
    <3>5. rows' # rows
      BY <1>1
    <3>6. QED  BY <2>1, <3>1, <3>2, <3>3, <3>4, <3>5, ApplyRuleLemma
  <2>3. CASE Acknowledge
    <3>1. PICK j \in DOMAIN rows : Attends(j)
      BY <2>1, <2>3, AcknowledgeLemma DEF Acknowledge
    <3>2. QED  BY <1>1, <3>1 DEF Attends, Only
  <2>4. CASE Suppress \/ MarkSent
    <3>1. PICK state \in {"sent", "suppressed"} : Mark(state)
      BY <2>4 DEF Suppress, MarkSent
    <3>2. rows' = rows \/ Marks(Head(worker.batch), state)
      BY <2>1, <3>1, MarkStepLemma
    <3>3. i = worker.batch[1].id /\ rows[i].state = worker.batch[1].state
      BY <1>1, <2>1, <3>2, TailLemma DEF Marks, Only
    <3>4. i \in superseded => worker.batch[1].state = "firing" /\ rows[i].state = "resolved"
      BY <2>1, <3>3, TailLemma DEF Batched
    <3>5. QED  BY <3>3, <3>4
  <2>5. CASE UNCHANGED rows
    BY <1>1, <2>5
  <2>6. QED  BY <2>1, <2>2, <2>3, <2>4, <2>5, FrameLemma
<1>2. IInv /\ [Next]_vars =>
        [\A i \in DOMAIN rows :
           (/\ Undisturbed
            /\ rows[i].notification = "pending"
            /\ rows'[i].notification \in {"sent", "suppressed"}
            /\ worker.pc \in {"mark", "suppress"}) => i \notin superseded]_vars
  BY <1>1
<1>3. QED  BY Invariance, <1>2, PTL DEF Spec, NoNewerTransitionConsumed

-----------------------------------------------------------------------------
(* The refinement of AlertCycle.                                           *)

\* The alert a row shows.
Shown(row) == [state |-> row.state, severity |-> row.severity,
               startedAt |-> row.startedAt, count |-> row.count]

LEMMA ContinuedLemma ==
  ASSUME NEW row, NEW severity, NEW at
  PROVE  Continued(Shown(row), rule, severity, at) =
           [state |-> IF DueAt(Shown(row), rule, at) THEN "firing" ELSE row.state,
            severity |-> severity, startedAt |-> row.startedAt,
            count |-> NextCount(Shown(row), rule)]
<1> DEFINE due == DueAt(Shown(row), rule, at)
           count == NextCount(Shown(row), rule)
<1>1. Continued(Shown(row), rule, severity, at) =
        [Shown(row) EXCEPT !.state = IF due THEN "firing" ELSE Shown(row).state,
                           !.severity = severity, !.count = count]
  BY Zenon DEF Continued
<1> HIDE DEF due, count
<1>2. QED  BY <1>1 DEF Shown, due, count

LEMMA CurrentLemma ==
  /\ Active = {} => CurrentAlert = NoAlert /\ CurrentAcknowledgement = "no"
  /\ \A i : Active = {i} => /\ CurrentAlert = Shown(rows[i])
                            /\ CurrentAcknowledgement = rows[i].acknowledged
  /\ Active' = {} => CurrentAlert' = NoAlert /\ CurrentAcknowledgement' = "no"
  /\ \A i : Active' = {i} => /\ CurrentAlert' = Shown(rows'[i])
                             /\ CurrentAcknowledgement' = rows'[i].acknowledged
<1>1. \A i : (CHOOSE j \in {i} : TRUE) = i
  OBVIOUS
<1> DEFINE Row(i) == [state |-> rows[i].state, severity |-> rows[i].severity,
                      startedAt |-> rows[i].startedAt, count |-> rows[i].count]
<1>2. /\ Active = {} => CurrentAlert = NoAlert /\ CurrentAcknowledgement = "no"
      /\ Active' = {} => CurrentAlert' = NoAlert /\ CurrentAcknowledgement' = "no"
  BY DEF CurrentAlert, CurrentAcknowledgement, NoAlert
<1>3. ASSUME NEW i, Active = {i}
      PROVE  CurrentAlert = Shown(rows[i]) /\ CurrentAcknowledgement = rows[i].acknowledged
  BY <1>1, <1>3, Zenon DEF CurrentAlert, CurrentAcknowledgement, Shown
<1>4. ASSUME NEW i, Active' = {i}
      PROVE  CurrentAlert' = Shown(rows'[i]) /\ CurrentAcknowledgement' = rows'[i].acknowledged
  BY <1>1, <1>4, Zenon DEF CurrentAlert, CurrentAcknowledgement, Shown
<1>5. QED  BY <1>2, <1>3, <1>4, Zenon

\* An evaluation of the table is an evaluation of the one alert.
LEMMA EvaluateRefines ==
  ASSUME TypeOK, OneAlert, Evaluate
  PROVE  Cycle!Evaluated
<1>1. PICK violated \in BOOLEAN, severity \in rule.severities : ApplyRule(violated, severity)
  BY DEF Evaluate
<1>2. /\ UNCHANGED <<rule, now>> /\ rule.for \in Nat /\ rule.consecutive \in Nat
      /\ rule.severities \subseteq Severities
  BY <1>1, RuleLemma DEF ApplyRule, TypeOK
<1> DEFINE alert == CurrentAlert
           acknowledged == CurrentAcknowledgement
<1>3. SUFFICES /\ alert' = Cycle!Applied(alert, rule, violated, severity, now)
               /\ acknowledged' = IF Cycle!Unattended THEN "no" ELSE acknowledged
  BY <1>2 DEF Cycle!Evaluated
<1>4. CASE violated /\ Opens(severity) /\ Active' = {Len(rows) + 1}
  <2>1. alert = NoAlert /\ acknowledged = "no"
    BY <1>4, CurrentLemma DEF Opens
  <2>2. /\ alert' = Shown(rows'[Len(rows) + 1])
        /\ acknowledged' = rows'[Len(rows) + 1].acknowledged
    BY <1>4, CurrentLemma
  <2>3. Shown(rows'[Len(rows) + 1]) = Opened(rule, severity, now)
    BY <1>4 DEF Opens, Shown, Opened, Immediate
  <2>4. acknowledged' = "no"
    BY <1>4, <2>2 DEF Opens
  <2>5. QED  BY <1>4, <2>1, <2>2, <2>3, <2>4
             DEF Cycle!Applied, Cycle!NoAlert, Cycle!Opened, NoAlert, Opened
<1>5. ASSUME violated, NEW i \in DOMAIN rows, Active = {i}, Active' = {i}, Goes(i, severity)
      PROVE  /\ alert' = Cycle!Applied(alert, rule, violated, severity, now)
             /\ acknowledged' = IF Cycle!Unattended THEN "no" ELSE acknowledged
  <2>1. /\ alert = Shown(rows[i]) /\ acknowledged = rows[i].acknowledged
        /\ alert' = Shown(rows'[i]) /\ acknowledged' = rows'[i].acknowledged
    BY <1>5, CurrentLemma
  <2>2. /\ rows[i].state \in {"pending", "firing"} /\ rows[i].count \in Nat
        /\ rows[i].count <= rule.consecutive + 1
    BY <1>5 DEF OneAlert, Active, TypeOK, AlertsTypeOK
  <2>3. Shown(rows[i]) # NoAlert /\ Shown(rows'[i]) # NoAlert
    BY <1>5, <2>2 DEF Shown, NoAlert, Goes
  <2>4. Capped(rows[i].count + 1) = NextCount(Shown(rows[i]), rule)
    BY <1>2, <2>2 DEF Capped, NextCount, Shown
  <2>5. Due(rows[i]) <=> DueAt(Shown(rows[i]), rule, now)
    BY DEF Due, DueAt, Shown
  <2>6. Shown(rows'[i]) = Continued(Shown(rows[i]), rule, severity, now)
    <3>1. Shown(rows'[i]) = [state |-> rows'[i].state, severity |-> severity,
                             startedAt |-> rows[i].startedAt, count |-> Capped(rows[i].count + 1)]
      BY <1>5 DEF Goes, Shown
    <3>2. rows'[i].state = IF Due(rows[i]) THEN "firing" ELSE rows[i].state
      BY <1>5, <2>2 DEF Goes
    <3>3. QED  BY <2>4, <2>5, <3>1, <3>2, ContinuedLemma, Zenon
  <2>7. Escalates(i, severity) <=> rows[i].severity # "critical" /\ severity = "critical"
    BY <1>5, <2>2, RuleLemma DEF Escalates, OneAlert, TypeOK
  <2>8. alert' = Cycle!Applied(alert, rule, violated, severity, now)
    BY <1>5, <2>1, <2>3, <2>6
       DEF Cycle!Applied, Cycle!NoAlert, NoAlert, Cycle!Continued, Continued,
           Cycle!NextCount, NextCount, Cycle!DueAt, DueAt
  <2>9. Cycle!Unattended <=> Escalates(i, severity)
    BY <1>5, <2>1, <2>3, <2>7 DEF Cycle!Unattended, Cycle!NoAlert, NoAlert, Shown, Goes
  <2>10. QED  BY <1>5, <2>1, <2>8, <2>9 DEF Goes
<1>6. CASE ~violated /\ Active' = {} /\ (Active = {} \/ \E i \in Active : TRUE)
  BY <1>6, CurrentLemma DEF Cycle!Applied, Cycle!NoAlert, Cycle!Unattended, NoAlert
<1>7. QED  BY <1>1, <1>4, <1>5, <1>6, EvaluationLemma

\* Every other step leaves the alert alone or takes it on.
LEMMA OtherRefines ==
  ASSUME TypeOK, OneAlert, Batched, [Next]_vars, ~Evaluate
  PROVE  Cycle!Acknowledged \/ Cycle!Elapsed \/ UNCHANGED Cycle!cycleVars
<1>1. /\ rule' = rule /\ Active' = Active /\ Active \subseteq DOMAIN rows
      /\ \A i \in DOMAIN rows : Shown(rows'[i]) = Shown(rows[i])
  BY FrameLemma, KeepLemma DEF Active, Shown
<1>2. Active = {} \/ \E i \in DOMAIN rows : Active = {i}
  BY <1>1 DEF OneAlert
<1>3. CurrentAlert' = CurrentAlert
  BY <1>1, <1>2, CurrentLemma
<1>4. CASE Acknowledge
  <2>1. PICK i \in DOMAIN rows : AcknowledgeAlert(i)
    BY <1>4 DEF Acknowledge
  <2>2. i \in Active /\ Attends(i) /\ rows[i].acknowledged = "no" /\ now' = now
    BY <2>1, AcknowledgeLemma DEF AcknowledgeAlert, TypeOK
  <2>3. Active = {i} /\ Active' = {i}
    BY <1>1, <1>2, <2>2
  <2>4. /\ CurrentAlert = Shown(rows[i]) /\ CurrentAcknowledgement = "no"
        /\ CurrentAcknowledgement' = rows[i].severity
    BY <2>2, <2>3, CurrentLemma DEF Attends
  <2>5. CurrentAlert # Cycle!NoAlert /\ CurrentAlert.severity = rows[i].severity
    BY <2>2, <2>4 DEF Shown, Cycle!NoAlert, Active
  <2>6. QED  BY <1>1, <1>3, <2>2, <2>4, <2>5 DEF Cycle!Acknowledged
<1>5. CASE ~Acknowledge
  <2>1. \A i \in DOMAIN rows : rows'[i].acknowledged = rows[i].acknowledged
    <3>1. CASE Suppress \/ MarkSent
      <4>1. PICK state \in {"sent", "suppressed"} : Mark(state) /\ worker.batch # <<>>
        BY <3>1 DEF Suppress, MarkSent, Batched
      <4>2. rows' = rows \/ Marks(Head(worker.batch), state)
        BY <4>1, MarkStepLemma
      <4>3. QED  BY <4>2 DEF Marks, Only
    <3>2. CASE UNCHANGED rows
      BY <3>2
    <3>3. QED  BY <1>5, <3>1, <3>2, FrameLemma
  <2>2. CurrentAcknowledgement' = CurrentAcknowledgement
    BY <1>1, <1>2, <2>1, CurrentLemma
  <2>3. now' = now \/ now' > now
    BY FrameLemma DEF Tick, TypeOK, AlertsTypeOK
  <2>4. QED  BY <1>1, <1>3, <2>2, <2>3 DEF Cycle!Elapsed, Cycle!cycleVars
<1>6. QED  BY <1>4, <1>5

\* For every rule, bound, fault and preference: the table of rows and the mails implement
\* the one alert the rule engine counts on, which only an evaluation or an acknowledgement
\* changes (storage.go:482-577).
THEOREM Implements == Spec => ImplementsAlertCycle
<1>1. Init => Cycle!Init
  <2>1. SUFFICES ASSUME Init PROVE Cycle!Init
    OBVIOUS
  <2>2. Active = {}
    BY <2>1 DEF Init, AlertsInit, Active
  <2>3. QED  BY <2>1, <2>2, CurrentLemma DEF Init, AlertsInit, Cycle!Init, Cycle!NoAlert, NoAlert
<1>2. IInv /\ [Next]_vars =>
        [Cycle!Evaluated \/ Cycle!Acknowledged \/ Cycle!Elapsed]_Cycle!cycleVars
  <2>1. SUFFICES ASSUME IInv, [Next]_vars
                 PROVE  \/ Cycle!Evaluated \/ Cycle!Acknowledged \/ Cycle!Elapsed
                        \/ UNCHANGED Cycle!cycleVars
    OBVIOUS
  <2>2. QED  BY <2>1, EvaluateRefines, OtherRefines DEF IInv
<1>3. QED  BY Invariance, <1>1, <1>2, PTL DEF Spec, ImplementsAlertCycle, Cycle!Spec
=============================================================================
