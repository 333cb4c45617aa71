----------------------------- MODULE AccessProofs -----------------------------
(***************************************************************************)
(* Proofs about Access for every limit, window, capacity and number of     *)
(* concurrent logins.  IInv adds to the types how the attempts of the      *)
(* watched client are spread over its windows (Windows), how old an entry  *)
(* of the limiter can be (Swept), and how a stream that is served relates  *)
(* to the end of its session (Streams).                                    *)
(***************************************************************************)
EXTENDS Access, FiniteSetTheorems, TLAPS

-----------------------------------------------------------------------------
(* The invariant.                                                          *)

\* Attempts since, after and before a moment.
Since(attempts, t) == {g \in attempts : g.at >= t}
After(attempts, t) == {g \in attempts : g.at > t}
Before(attempts, t) == {g \in attempts : g.at < t}

\* Only attempts of the last window are remembered, and the ones of this moment are numbered.
Recent ==
  /\ IsFiniteSet(granted)
  /\ \A g \in granted : /\ now - g.at < Window
                        /\ g.at = now => g.nth <= Cardinality(granted)

\* The client's entry counts the attempts of its window, the first of which opened it; what
\* is left of the window before has lost its first one.
Counting(item) ==
  /\ \A g \in granted : g.at < item.since + Window
  /\ Cardinality(Since(granted, item.since)) <= Limit /\ Cardinality(Since(granted, item.since)) <= item.count
  /\ Cardinality(After(granted, item.since)) < Limit /\ Cardinality(After(granted, item.since)) < item.count
  /\ Cardinality(Before(granted, item.since)) < Limit
  /\ ~Expired(item) =>
       \/ Cardinality(Since(granted, item.since)) >= Limit
       \/ Cardinality(Since(granted, item.since)) >= item.count

\* Without an entry there are only attempts of an expired window.
Forgotten ==
  /\ Cardinality(granted) < Limit
  /\ \A g \in granted : g.at < now

Windows ==
  /\ Recent
  /\ items[Client] # NoItem => Counting(items[Client])
  /\ items[Client] = NoItem => Forgotten

\* An entry that survived the last cleanup was not expired then.
Swept == \A a \in Tracked(items) : lastCleanup < items[a].since + Window

\* A stream was opened with a valid session and ends with its timer.
Streams ==
  \A s \in Tokens : stream[s] # NoStream =>
    /\ now - stream[s] <= Revalidate
    /\ sessions[s].state # "unused" /\ stream[s] <= EndOf(sessions[s])

IInv == TypeOK /\ Windows /\ Swept /\ Streams

-----------------------------------------------------------------------------
(* Parameters and operators.                                               *)

\* What is assumed of the parameters, one by one.
LEMMA ParameterLemma ==
  /\ Limit \in Nat /\ Limit >= 1 /\ Window \in Nat /\ Window >= 1
  /\ MaxKeys \in Nat /\ MaxKeys >= 1 /\ Capacity \in Nat /\ Capacity >= 1
  /\ IdleTimeout \in Nat /\ IdleTimeout >= 1 /\ Lifetime \in Nat /\ Lifetime >= 1
  /\ Revalidate \in Nat /\ Revalidate >= 1 /\ MaxTime \in Nat
  BY AccessAssumption

\* What the tables hold.
Entries == {NoItem} \cup [count : 1 .. Limit + 1, since : 0 .. now]

SessionRecords == [state : {"unused", "live", "gone"}, created : 0 .. now,
                   active : 0 .. now, ended : 0 .. now]

\* The tables are finite, and so is what is selected of them.
LEMMA TableLemma ==
  /\ \A table : Tracked(table) \subseteq Addresses /\ IsFiniteSet(Tracked(table))
                /\ Cardinality(Tracked(table)) \in Nat
  /\ \A table : Live(table) \subseteq Tokens /\ IsFiniteSet(Live(table))
                /\ Cardinality(Live(table)) \in Nat
<1>1. ASSUME NEW table
      PROVE  Tracked(table) \subseteq Addresses /\ Live(table) \subseteq Tokens
  BY DEF Tracked, Live
<1>2. QED  BY <1>1, FS_Subset, FS_CardinalityType, AccessAssumption

\* A table with fewer rows selects fewer.
LEMMA FewerLemma ==
  ASSUME NEW S, NEW T, IsFiniteSet(T), S \subseteq T
  PROVE  /\ IsFiniteSet(S) /\ Cardinality(S) \in Nat /\ Cardinality(T) \in Nat
         /\ Cardinality(S) <= Cardinality(T)
  BY FS_Subset, FS_CardinalityType

\* One element more.
LEMMA OneMoreLemma ==
  ASSUME NEW S, NEW x, IsFiniteSet(S)
  PROVE  /\ IsFiniteSet(S \cup {x}) /\ Cardinality(S) \in Nat
         /\ Cardinality(S \cup {x}) <= Cardinality(S) + 1
         /\ x \notin S => Cardinality(S \cup {x}) = Cardinality(S) + 1
  BY FS_AddElement, FS_CardinalityType

\* The cleanup deletes expired entries and nothing else.
LEMMA CleanedLemma ==
  ASSUME TypeOK
  PROVE  /\ Cleaned \in [Addresses -> Entries]
         /\ \A a \in Addresses : \/ Cleaned[a] = items[a]
                                 \/ Cleaned[a] = NoItem /\ items[a] # NoItem /\ Expired(items[a])
         /\ Tracked(Cleaned) \subseteq Tracked(items)
         /\ Cardinality(Tracked(Cleaned)) <= MaxKeys
<1>1. Cleaned \in [Addresses -> Entries]
  BY DEF TypeOK, Cleaned, Entries
<1>2. \A a \in Addresses : \/ Cleaned[a] = items[a]
                           \/ Cleaned[a] = NoItem /\ items[a] # NoItem /\ Expired(items[a])
  BY DEF TypeOK, Cleaned
<1>3. Tracked(Cleaned) \subseteq Tracked(items)
  BY <1>2 DEF Tracked
<1>4. Cardinality(Tracked(Cleaned)) <= Cardinality(Tracked(items))
  BY <1>3, TableLemma, FewerLemma
<1>5. Cardinality(Tracked(items)) <= MaxKeys
  BY DEF TypeOK
<1>6. QED  BY <1>1, <1>2, <1>3, <1>4, <1>5, TableLemma, ParameterLemma

\* An attempt starts a window of its own or counts in the one that is open.
LEMMA CountedLemma ==
  ASSUME TypeOK, NEW item \in Entries
  PROVE  /\ Counted(item) \in [count : 1 .. Limit + 1, since : 0 .. now]
         /\ Counted(item) # NoItem
         /\ item = NoItem \/ Expired(item) => Counted(item) = [count |-> 1, since |-> now]
         /\ item # NoItem /\ ~Expired(item) =>
              /\ Counted(item).since = item.since
              /\ item.count <= Limit => Counted(item).count = item.count + 1
              /\ item.count > Limit => Counted(item).count = item.count
<1>1. now \in Nat
  BY ParameterLemma DEF TypeOK, Times
<1>2. CASE item = NoItem \/ Expired(item)
  BY <1>1, <1>2, ParameterLemma DEF Counted, NoItem
<1>3. CASE item # NoItem /\ ~Expired(item)
  <2>1. item \in [count : 1 .. Limit + 1, since : 0 .. now]
    BY <1>3 DEF Entries
  <2>2. Counted(item) = [count |-> IF item.count > Limit THEN item.count ELSE item.count + 1,
                         since |-> item.since]
    BY <1>3, <2>1 DEF Counted
  <2>3. QED  BY <1>3, <2>1, <2>2, ParameterLemma DEF NoItem
<1>4. QED  BY <1>2, <1>3

\* The end of a session is a moment; a session that ended by itself did so before now.
LEMMA EndLemma ==
  ASSUME TypeOK, NEW s \in Tokens
  PROVE  /\ EndOf(sessions[s]) \in Nat
         /\ sessions[s].state = "live" /\ ~Valid(s) => EndOf(sessions[s]) < now
         /\ \A at : EndOf(Gone(at)) = at
<1>1. now \in Nat /\ sessions[s] \in SessionRecords
  BY ParameterLemma DEF TypeOK, Times, SessionRecords
<1>2. \A a, b \in Nat : Min({a, b}) \in {a, b} /\ Min({a, b}) <= a /\ Min({a, b}) <= b
  BY DEF Min
<1>3. EndOf(sessions[s]) \in Nat
  BY <1>1, <1>2, ParameterLemma DEF EndOf, SessionRecords
<1>4. \A at : EndOf(Gone(at)) = at
  BY DEF EndOf, Gone, Unused
<1>5. QED  BY <1>1, <1>3, <1>4 DEF Valid

\* So is the end of any record of a session.
LEMMA RecordEndLemma ==
  ASSUME now \in Nat, NEW session \in SessionRecords
  PROVE  EndOf(session) \in Int
<1>1. \A a, b \in Nat : Min({a, b}) \in {a, b}
  BY DEF Min
<1>2. QED  BY <1>1, ParameterLemma DEF EndOf, SessionRecords

\* What an operation may make of the sessions: none is forgotten to have existed, and none
\* ends before this moment that did not end before.
Continues(table) ==
  /\ table \in [Tokens -> SessionRecords]
  /\ \A s \in Tokens : table[s].created <= table[s].active
  /\ \A s \in Tokens : sessions[s].state # "unused" =>
       /\ table[s].state # "unused"
       /\ EndOf(table[s]) >= now \/ EndOf(table[s]) >= EndOf(sessions[s])

\* A session that is gone is a session.
LEMMA GoneLemma ==
  ASSUME NEW at \in 0 .. now, now \in Nat
  PROVE  /\ Gone(at) \in SessionRecords /\ Gone(at).state = "gone"
         /\ Gone(at).created <= Gone(at).active
<1>1. Gone(at) = [state |-> "gone", created |-> 0, active |-> 0, ended |-> at]
  BY DEF Gone
<1>2. QED  BY <1>1 DEF SessionRecords

\* The cleanup ends the sessions that have expired, at the end they had.
LEMMA CleanedSessionsLemma ==
  ASSUME TypeOK
  PROVE  /\ Continues(CleanedSessions)
         /\ Live(CleanedSessions) = {s \in Tokens : Valid(s)}
         /\ Live(CleanedSessions) \subseteq Live(sessions)
         /\ \A s \in Tokens : sessions[s] = Unused => CleanedSessions[s] = Unused
<1>1. now \in Nat /\ sessions \in [Tokens -> SessionRecords]
  BY ParameterLemma DEF TypeOK, Times, SessionRecords
<1>2. ASSUME NEW s \in Tokens
      PROVE  \/ /\ CleanedSessions[s] = sessions[s]
                /\ sessions[s].state = "live" <=> Valid(s)
             \/ /\ CleanedSessions[s] = Gone(EndOf(sessions[s]))
                /\ sessions[s].state = "live" /\ ~Valid(s)
                /\ EndOf(sessions[s]) \in 0 .. now
  BY <1>1, EndLemma DEF CleanedSessions, Valid
<1>3. ASSUME NEW s \in Tokens
      PROVE  /\ CleanedSessions[s] \in SessionRecords
             /\ CleanedSessions[s].created <= CleanedSessions[s].active
             /\ sessions[s].state # "unused" => CleanedSessions[s].state # "unused"
             /\ EndOf(CleanedSessions[s]) = EndOf(sessions[s])
             /\ CleanedSessions[s].state = "live" <=> Valid(s)
             /\ Valid(s) => sessions[s].state = "live"
             /\ sessions[s] = Unused => CleanedSessions[s] = Unused
  <2>1. CASE CleanedSessions[s] = sessions[s] /\ (sessions[s].state = "live" <=> Valid(s))
    BY <1>1, <2>1 DEF TypeOK
  <2>2. CASE /\ CleanedSessions[s] = Gone(EndOf(sessions[s]))
             /\ sessions[s].state = "live" /\ ~Valid(s) /\ EndOf(sessions[s]) \in 0 .. now
    BY <1>1, <2>2, GoneLemma, EndLemma DEF Unused
  <2>3. QED  BY <1>2, <2>1, <2>2
<1>4. Continues(CleanedSessions)
  <2>1. CleanedSessions = [s \in Tokens |-> CleanedSessions[s]]
    BY DEF CleanedSessions
  <2>2. CleanedSessions \in [Tokens -> SessionRecords]
    BY <1>3, <2>1
  <2>3. \A s \in Tokens : EndOf(sessions[s]) \in Nat
    BY EndLemma
  <2>4. QED  BY <1>3, <2>2, <2>3 DEF Continues
<1>5. QED  BY <1>3, <1>4 DEF Live

\* A use keeps a valid session going and ends an expired one at the end it had.
LEMMA GetLemma ==
  ASSUME TypeOK, NEW s \in Tokens, sessions[s].state = "live"
  PROVE  /\ Continues(Get(s)) /\ Live(Get(s)) \subseteq Live(sessions)
         /\ Valid(s) => EndOf(Get(s)[s]) >= now
<1>1. now \in Nat /\ sessions \in [Tokens -> SessionRecords]
  BY ParameterLemma DEF TypeOK, Times, SessionRecords
<1>2. \A t \in Tokens : EndOf(sessions[t]) \in Nat /\ sessions[t].created <= sessions[t].active
  BY EndLemma DEF TypeOK
<1>3. CASE Valid(s)
  <2> DEFINE used == [state |-> "live", created |-> sessions[s].created, active |-> now,
                      ended |-> sessions[s].ended]
  <2>1. sessions[s] = [state |-> "live", created |-> sessions[s].created,
                       active |-> sessions[s].active, ended |-> sessions[s].ended]
    BY <1>1 DEF SessionRecords
  <2>2. [sessions[s] EXCEPT !.active = now] = used
    BY <2>1
  <2>3. Get(s) = [sessions EXCEPT ![s] = used]
    BY <1>1, <1>3, <2>2 DEF Get
  <2>4. used \in SessionRecords /\ used.created <= used.active
    BY <1>1 DEF SessionRecords
  <2>5. EndOf(used) >= now
    <3>1. \A a, b \in Nat : Min({a, b}) \in {a, b}
      BY DEF Min
    <3>2. sessions[s].created + Lifetime >= now /\ sessions[s].created \in Nat
      <4>1. EndOf(sessions[s]) = Min({sessions[s].active + IdleTimeout, sessions[s].created + Lifetime})
        BY <1>3 DEF Valid, EndOf
      <4>2. \A a, b \in Nat : Min({a, b}) <= b
        BY DEF Min
      <4>3. sessions[s].active \in Nat /\ sessions[s].created \in Nat
        BY <1>1 DEF SessionRecords
      <4>4. QED  BY <1>1, <1>3, <1>2, <4>1, <4>2, <4>3, ParameterLemma DEF Valid
    <3>3. EndOf(used) = Min({now + IdleTimeout, sessions[s].created + Lifetime})
      BY DEF EndOf
    <3>4. QED  BY <1>1, <3>1, <3>2, <3>3, ParameterLemma
  <2> HIDE DEF used
  <2>6. \A t \in Tokens : t # s => Get(s)[t] = sessions[t]
    BY <1>1, <2>3
  <2>7. Get(s) \in [Tokens -> SessionRecords] /\ Get(s)[s] = used
    BY <1>1, <2>3, <2>4
  <2>8. used.state = "live"
    BY DEF used
  <2>9. QED  BY <1>1, <1>2, <2>4, <2>5, <2>6, <2>7, <2>8 DEF Continues, Live
<1>4. CASE ~Valid(s)
  <2>1. Get(s) = [sessions EXCEPT ![s] = Gone(EndOf(sessions[s]))]
    BY <1>1, <1>4 DEF Get
  <2>2. EndOf(sessions[s]) \in 0 .. now
    BY <1>1, <1>4, EndLemma
  <2>3. /\ Gone(EndOf(sessions[s])) \in SessionRecords
        /\ Gone(EndOf(sessions[s])).state = "gone"
        /\ Gone(EndOf(sessions[s])).created <= Gone(EndOf(sessions[s])).active
    BY <1>1, <2>2, GoneLemma
  <2>4. EndOf(Gone(EndOf(sessions[s]))) = EndOf(sessions[s])
    BY EndLemma
  <2>5. \A t \in Tokens : Get(s)[t] = IF t = s THEN Gone(EndOf(sessions[s])) ELSE sessions[t]
    BY <1>1, <2>1
  <2>6. Get(s) \in [Tokens -> SessionRecords]
    BY <1>1, <2>1, <2>3
  <2>7. QED  BY <1>1, <1>2, <1>4, <2>3, <2>4, <2>5, <2>6 DEF Continues, Live
<1>5. QED  BY <1>3, <1>4

\* A logout ends a valid session now.
LEMMA LogoutLemma ==
  ASSUME TypeOK, NEW s \in Tokens, Logout(s)
  PROVE  Continues(sessions') /\ Live(sessions') \subseteq Live(sessions)
<1>1. now \in Nat /\ sessions \in [Tokens -> SessionRecords]
  BY ParameterLemma DEF TypeOK, Times, SessionRecords
<1>2. \A t \in Tokens : EndOf(sessions[t]) \in Nat /\ sessions[t].created <= sessions[t].active
  BY EndLemma DEF TypeOK
<1>3. /\ Gone(now) \in SessionRecords /\ Gone(now).state = "gone"
      /\ Gone(now).created <= Gone(now).active /\ EndOf(Gone(now)) = now
  BY <1>1, GoneLemma, EndLemma
<1>4. sessions' = [sessions EXCEPT ![s] = Gone(now)]
  BY DEF Logout
<1>5. \A t \in Tokens : sessions'[t] = IF t = s THEN Gone(now) ELSE sessions[t]
  BY <1>1, <1>4
<1>6. sessions' \in [Tokens -> SessionRecords]
  BY <1>1, <1>3, <1>4
<1>7. QED  BY <1>1, <1>2, <1>3, <1>5, <1>6 DEF Continues, Live

\* A restart ends every session now.
LEMMA RestartLemma ==
  ASSUME TypeOK, Restart
  PROVE  Continues(sessions') /\ Live(sessions') \subseteq Live(sessions)
<1>1. now \in Nat /\ sessions \in [Tokens -> SessionRecords]
  BY ParameterLemma DEF TypeOK, Times, SessionRecords
<1>2. \A t \in Tokens : EndOf(sessions[t]) \in Nat /\ sessions[t].created <= sessions[t].active
  BY EndLemma DEF TypeOK
<1>3. \A t \in Tokens : EndOf(Gone(now)) = now
  BY EndLemma
<1>4. /\ Gone(now) \in SessionRecords /\ Gone(now).state = "gone"
      /\ Gone(now).created <= Gone(now).active
  BY <1>1, GoneLemma
<1>5. sessions' = [t \in Tokens |-> IF sessions[t].state = "live" THEN Gone(now) ELSE sessions[t]]
  BY DEF Restart
<1>6. sessions' \in [Tokens -> SessionRecords]
  BY <1>1, <1>4, <1>5
<1>7. QED  BY <1>1, <1>2, <1>3, <1>4, <1>5, <1>6 DEF Continues, Live

\* What an attempt makes of the table: the address counts, unless it is new and the table
\* full, and other entries only expire.
LEMMA AllowLemma ==
  ASSUME TypeOK, NEW c \in Callers, NEW a \in Addresses, Allow(c, a)
  PROVE  /\ items' \in [Addresses -> Entries]
         /\ Cardinality(Tracked(items')) <= MaxKeys
         /\ \A b \in Addresses \ {a} : items'[b] = Cleaned[b]
         /\ Full(a) => items' = Cleaned /\ items'[a] = NoItem
         /\ ~Full(a) => items'[a] = Counted(Cleaned[a])
<1>1. Cleaned \in [Addresses -> Entries] /\ Cardinality(Tracked(Cleaned)) <= MaxKeys
  BY CleanedLemma
<1>2. CASE Full(a)
  <2>1. items' = Cleaned /\ items'[a] = NoItem
    BY <1>2 DEF Allow, Full
  <2>2. QED  BY <1>1, <1>2, <2>1
<1>3. CASE ~Full(a)
  <2>1. items' = [Cleaned EXCEPT ![a] = Counted(Cleaned[a])]
    BY <1>3 DEF Allow
  <2>2. Counted(Cleaned[a]) \in Entries
    BY <1>1, CountedLemma DEF Entries
  <2>3. items' \in [Addresses -> Entries]
    BY <1>1, <2>1, <2>2
  <2>4. Cardinality(Tracked(items')) <= MaxKeys
    <3>1. CASE Cleaned[a] # NoItem
      <4>1. Tracked(items') \subseteq Tracked(Cleaned)
        BY <1>1, <2>1, <3>1 DEF Tracked
      <4>2. Cardinality(Tracked(items')) <= Cardinality(Tracked(Cleaned))
        BY <4>1, TableLemma, FewerLemma
      <4>3. QED  BY <1>1, <4>2, TableLemma, ParameterLemma
    <3>2. CASE Cleaned[a] = NoItem
      <4>1. Tracked(items') \subseteq Tracked(Cleaned) \cup {a}
        BY <1>1, <2>1 DEF Tracked
      <4>2. Cardinality(Tracked(Cleaned) \cup {a}) <= Cardinality(Tracked(Cleaned)) + 1
        BY TableLemma, OneMoreLemma
      <4>3. Cardinality(Tracked(Cleaned)) < MaxKeys
        BY <1>1, <1>3, <3>2, TableLemma, ParameterLemma DEF Full
      <4>4. /\ Cardinality(Tracked(items')) <= Cardinality(Tracked(Cleaned) \cup {a})
            /\ Cardinality(Tracked(Cleaned) \cup {a}) \in Nat
        BY <4>1, TableLemma, OneMoreLemma, FewerLemma
      <4>5. QED  BY <4>2, <4>3, <4>4, TableLemma, ParameterLemma
    <3>3. QED  BY <3>1, <3>2
  <2>5. QED  BY <1>1, <1>3, <2>1, <2>3, <2>4
<1>4. QED  BY <1>2, <1>3

-----------------------------------------------------------------------------
(* Steps.                                                                  *)

\* A step keeps the types.
LEMMA TypeStep == TypeOK /\ IsFiniteSet(granted) /\ [Next]_vars => TypeOK'
<1> SUFFICES ASSUME TypeOK, IsFiniteSet(granted), [Next]_vars
             PROVE  TypeOK'
  OBVIOUS
<1> USE DEF Times, Entries, SessionRecords
<1>0. now \in Nat /\ MaxTime \in Nat
  BY ParameterLemma DEF TypeOK
<1>1. ASSUME NEW c \in Callers, NEW a \in Addresses, Allow(c, a)
      PROVE  TypeOK'
  <2>1. items' \in [Addresses -> Entries] /\ Cardinality(Tracked(items')) <= MaxKeys
    BY <1>1, AllowLemma
  <2>2. now' = now /\ sessions' = sessions /\ stream' = stream
    BY <1>1 DEF Allow
  <2>3. lastCleanup' \in 0 .. now
    BY <1>0, <1>1 DEF Allow, TypeOK
  <2>4. caller' \in [Callers -> [pc : {"idle", "refused", "password", "create", "full", "reset"},
                                 address : Addresses]]
    <3>1. \E pc \in {"password", "refused"} :
            caller' = [caller EXCEPT ![c] = [pc |-> pc, address |-> a]]
      BY <1>1 DEF Allow
    <3>2. QED  BY <3>1 DEF TypeOK
  <2>5. granted' \subseteq [at : 0 .. now, nth : Nat]
    <3>1. [at |-> now, nth |-> Cardinality(granted) + 1] \in [at : 0 .. now, nth : Nat]
      BY <1>0, FS_CardinalityType
    <3>2. granted' \subseteq granted \cup {[at |-> now, nth |-> Cardinality(granted) + 1]}
      BY <1>1 DEF Allow
    <3>3. QED  BY <3>1, <3>2 DEF TypeOK
  <2>6. QED  BY <2>1, <2>2, <2>3, <2>4, <2>5 DEF TypeOK, Live
<1>2. ASSUME NEW c \in Callers, Answer(c)
      PROVE  TypeOK'
  <2>1. Resting \in [pc : {"idle"}, address : Addresses]
    BY AccessAssumption DEF Resting
  <2>2. QED  BY <1>2, <2>1 DEF Answer, TypeOK, Live, Tracked
<1>3. ASSUME NEW c \in Callers, PasswordRight(c)
      PROVE  TypeOK'
  BY <1>3 DEF PasswordRight, TypeOK, Live, Tracked
<1>4. ASSUME NEW c \in Callers, Create(c)
      PROVE  TypeOK'
  <2>1. now' = now /\ UNCHANGED <<items, lastCleanup, stream, granted>>
    BY <1>4 DEF Create
  <2>2. caller' \in [Callers -> [pc : {"idle", "refused", "password", "create", "full", "reset"},
                                 address : Addresses]]
    BY <1>4 DEF Create, TypeOK
  <2>3. /\ sessions' \in [Tokens -> SessionRecords]
        /\ \A s \in Tokens : sessions'[s].created <= sessions'[s].active
        /\ Cardinality(Live(sessions')) <= Capacity
    <3>1. /\ CleanedSessions \in [Tokens -> SessionRecords]
          /\ \A s \in Tokens : CleanedSessions[s].created <= CleanedSessions[s].active
          /\ Live(CleanedSessions) \subseteq Live(sessions)
      BY CleanedSessionsLemma DEF Continues
    <3>2. CASE sessions' = CleanedSessions
      <4>1. Cardinality(Live(CleanedSessions)) <= Cardinality(Live(sessions))
        BY <3>1, TableLemma, FewerLemma
      <4>2. QED  BY <3>1, <3>2, <4>1, TableLemma, ParameterLemma DEF TypeOK
    <3>3. ASSUME NEW s \in Tokens, Cardinality(Live(CleanedSessions)) < Capacity,
                 sessions' = [CleanedSessions EXCEPT ![s] =
                   [state |-> "live", created |-> now, active |-> now, ended |-> 0]]
          PROVE  /\ sessions' \in [Tokens -> SessionRecords]
                 /\ \A t \in Tokens : sessions'[t].created <= sessions'[t].active
                 /\ Cardinality(Live(sessions')) <= Capacity
      <4>1. [state |-> "live", created |-> now, active |-> now, ended |-> 0] \in SessionRecords
        BY <1>0
      <4>2. /\ sessions' \in [Tokens -> SessionRecords]
            /\ \A t \in Tokens : sessions'[t].created <= sessions'[t].active
        BY <1>0, <3>1, <3>3, <4>1
      <4>3. Live(sessions') \subseteq Live(CleanedSessions) \cup {s}
        BY <3>1, <3>3 DEF Live
      <4>4. /\ Cardinality(Live(sessions')) <= Cardinality(Live(CleanedSessions) \cup {s})
            /\ Cardinality(Live(CleanedSessions) \cup {s}) \in Nat
        BY <4>3, TableLemma, OneMoreLemma, FewerLemma
      <4>5. Cardinality(Live(CleanedSessions) \cup {s}) <= Cardinality(Live(CleanedSessions)) + 1
        BY TableLemma, OneMoreLemma
      <4>6. QED  BY <3>3, <4>2, <4>4, <4>5, TableLemma, ParameterLemma
    <3>4. QED  BY <1>4, <3>2, <3>3 DEF Create
  <2>4. QED  BY <2>1, <2>2, <2>3 DEF TypeOK, Tracked
<1>5. ASSUME NEW c \in Callers, Reset(c)
      PROVE  TypeOK'
  <2>1. items' \in [Addresses -> Entries] /\ Tracked(items') \subseteq Tracked(items)
    BY <1>5 DEF Reset, TypeOK, Tracked
  <2>2. Cardinality(Tracked(items')) <= Cardinality(Tracked(items))
    BY <2>1, TableLemma, FewerLemma
  <2>3. Cardinality(Tracked(items')) <= MaxKeys
    BY <2>2, TableLemma, ParameterLemma DEF TypeOK
  <2>4. Resting \in [pc : {"idle"}, address : Addresses]
    BY AccessAssumption DEF Resting
  <2>5. granted' \subseteq [at : 0 .. now, nth : Nat]
    BY <1>5 DEF Reset, TypeOK
  <2>6. QED  BY <1>5, <2>1, <2>3, <2>4, <2>5 DEF Reset, TypeOK, Live
<1>6. ASSUME NEW table, Continues(table), Live(table) \subseteq Live(sessions), sessions' = table,
             UNCHANGED <<now, items, lastCleanup, caller, granted>>,
             stream' \in [Tokens -> {NoStream} \cup 0 .. now]
      PROVE  TypeOK'
  <2>1. Cardinality(Live(table)) <= Cardinality(Live(sessions))
    BY <1>6, TableLemma, FewerLemma
  <2>2. Cardinality(Live(table)) <= Capacity
    BY <2>1, TableLemma, ParameterLemma DEF TypeOK
  <2>3. QED  BY <1>6, <2>2 DEF TypeOK, Continues, Tracked
<1>7. ASSUME NEW s \in Tokens, Request(s)
      PROVE  TypeOK'
  BY <1>6, <1>7, GetLemma DEF Request, TypeOK
<1>8. ASSUME NEW s \in Tokens, Logout(s)
      PROVE  TypeOK'
  BY <1>6, <1>8, LogoutLemma DEF Logout, TypeOK
<1>9. ASSUME NEW s \in Tokens, OpenStream(s)
      PROVE  TypeOK'
  <2>1. sessions[s].state = "live"
    BY <1>9 DEF OpenStream, Valid
  <2>2. stream' \in [Tokens -> {NoStream} \cup 0 .. now]
    BY <1>0, <1>9 DEF OpenStream, TypeOK
  <2>3. QED  BY <1>6, <1>9, <2>1, <2>2, GetLemma DEF OpenStream
<1>10. ASSUME NEW s \in Tokens, EndStream(s)
       PROVE  TypeOK'
  BY <1>10 DEF EndStream, TypeOK, Live, Tracked
<1>11. CASE Tick
  <2>1. now' = now + 1 /\ now' \in 0 .. MaxTime /\ 0 .. now \subseteq 0 .. now'
    BY <1>0, <1>11 DEF Tick
  <2>2. granted' \subseteq granted
    BY <1>11 DEF Tick
  <2>3. UNCHANGED <<items, lastCleanup, caller, sessions, stream>>
    BY <1>11 DEF Tick
  <2>4. lastCleanup \in 0 .. now'
    BY <2>1 DEF TypeOK
  <2>5. items \in [Addresses -> {NoItem} \cup [count : 1 .. Limit + 1, since : 0 .. now']]
    BY <2>1 DEF TypeOK
  <2>6. sessions \in [Tokens -> [state : {"unused", "live", "gone"}, created : 0 .. now',
                                 active : 0 .. now', ended : 0 .. now']]
    BY <2>1 DEF TypeOK
  <2>7. stream \in [Tokens -> {NoStream} \cup 0 .. now']
    BY <2>1 DEF TypeOK
  <2>8. granted' \subseteq [at : 0 .. now', nth : Nat]
    BY <2>1, <2>2 DEF TypeOK
  <2>9. QED  BY <2>1, <2>3, <2>4, <2>5, <2>6, <2>7, <2>8 DEF TypeOK, Live, Tracked
<1>12. CASE Restart
  <2>1. items' \in [Addresses -> Entries] /\ Tracked(items') = {}
    BY <1>12 DEF Restart, Tracked
  <2>2. Cardinality(Tracked(items')) <= MaxKeys
    BY <2>1, FS_EmptySet, ParameterLemma
  <2>3. caller' \in [Callers -> [pc : {"idle"}, address : Addresses]]
    BY <1>12, AccessAssumption DEF Restart, Resting
  <2>4. Continues(sessions') /\ Live(sessions') \subseteq Live(sessions)
    BY <1>12, RestartLemma
  <2>5. Cardinality(Live(sessions')) <= Cardinality(Live(sessions))
    BY <2>4, TableLemma, FewerLemma
  <2>6. Cardinality(Live(sessions')) <= Capacity
    BY <2>5, TableLemma, ParameterLemma DEF TypeOK
  <2>7. now' = now /\ lastCleanup' = now /\ granted' = {} /\ stream' = [s \in Tokens |-> NoStream]
    BY <1>12 DEF Restart
  <2>8. QED  BY <1>0, <2>1, <2>2, <2>3, <2>4, <2>6, <2>7 DEF TypeOK, Continues
<1>13. CASE UNCHANGED vars
  BY <1>13 DEF vars, TypeOK, Live, Tracked
<1>14. QED
  BY <1>1, <1>2, <1>3, <1>4, <1>5, <1>7, <1>8, <1>9, <1>10, <1>11, <1>12, <1>13 DEF Next

\* What is selected of the attempts is finite and no more than they are.
LEMMA SelectedLemma ==
  ASSUME NEW attempts, IsFiniteSet(attempts), NEW t
  PROVE  /\ IsFiniteSet(Since(attempts, t)) /\ Cardinality(Since(attempts, t)) \in Nat
         /\ IsFiniteSet(After(attempts, t)) /\ Cardinality(After(attempts, t)) \in Nat
         /\ IsFiniteSet(Before(attempts, t)) /\ Cardinality(Before(attempts, t)) \in Nat
<1>1. /\ Since(attempts, t) \subseteq attempts /\ After(attempts, t) \subseteq attempts
      /\ Before(attempts, t) \subseteq attempts
  BY DEF Since, After, Before
<1>2. QED  BY <1>1, FewerLemma

\* Of fewer attempts fewer are selected.
LEMMA FewerSelectedLemma ==
  ASSUME NEW attempts, IsFiniteSet(attempts), NEW some \in SUBSET attempts, NEW t
  PROVE  /\ IsFiniteSet(some)
         /\ Cardinality(Since(some, t)) <= Cardinality(Since(attempts, t))
         /\ Cardinality(After(some, t)) <= Cardinality(After(attempts, t))
         /\ Cardinality(Before(some, t)) <= Cardinality(Before(attempts, t))
<1>1. /\ Since(some, t) \subseteq Since(attempts, t) /\ After(some, t) \subseteq After(attempts, t)
      /\ Before(some, t) \subseteq Before(attempts, t)
  BY DEF Since, After, Before
<1>2. QED  BY <1>1, SelectedLemma, FewerLemma, FS_Subset

\* When the client's window is over, what is remembered of it is not all of it.
LEMMA ExpiredLemma ==
  ASSUME TypeOK, Windows, items[Client] # NoItem, Expired(items[Client])
  PROVE  Forgotten
<1>1. /\ now \in Nat /\ Window \in Nat /\ items[Client].since \in 0 .. now
      /\ granted \subseteq [at : 0 .. now, nth : Nat]
  BY AccessAssumption, ParameterLemma DEF TypeOK, Times
<1>2. Counting(items[Client]) /\ \A g \in granted : now - g.at < Window
  BY DEF Windows, Recent
<1>3. now - items[Client].since >= Window
  BY DEF Expired
<1>4. After(granted, items[Client].since) = granted
  BY <1>1, <1>2, <1>3 DEF After
<1>5. \A g \in granted : g.at < now
  BY <1>1, <1>2, <1>3 DEF Counting
<1>6. QED  BY <1>2, <1>4, <1>5 DEF Counting, Forgotten

\* A step keeps what is known of the client's windows.
LEMMA WindowStep == TypeOK /\ Windows /\ [Next]_vars => Windows'
<1> SUFFICES ASSUME TypeOK, Windows, [Next]_vars
             PROVE  Windows'
  OBVIOUS
<1>0. /\ now \in Nat /\ Window \in Nat /\ Window >= 1 /\ Limit \in Nat /\ Limit >= 1
      /\ granted \subseteq [at : 0 .. now, nth : Nat]
      /\ Client \in Addresses /\ items[Client] \in Entries
      /\ IsFiniteSet(granted) /\ Cardinality(granted) \in Nat
  BY AccessAssumption, ParameterLemma, FS_CardinalityType DEF TypeOK, Times, Windows, Recent, Entries
<1>1. ASSUME UNCHANGED <<now, granted>>, items'[Client] = items[Client]
      PROVE  Windows'
  BY <1>1 DEF Windows, Recent, Counting, Expired, Forgotten
<1>2. ASSUME UNCHANGED <<now, granted>>, items'[Client] = NoItem,
             items[Client] = NoItem \/ Expired(items[Client])
      PROVE  Windows'
  <2>1. Forgotten
    BY <1>2, ExpiredLemma DEF Windows
  <2>2. Recent' /\ Forgotten'
    BY <1>2, <2>1 DEF Windows, Recent, Forgotten
  <2>3. QED  BY <1>2, <2>2 DEF Windows
<1>3. ASSUME granted' = {}, now' = now, items'[Client] = NoItem
      PROVE  Windows'
  BY <1>0, <1>3, FS_EmptySet DEF Windows, Recent, Forgotten
<1>4. ASSUME NEW c \in Callers, NEW a \in Addresses, Allow(c, a)
      PROVE  Windows'
  <2> DEFINE item == items[Client]
             new == [at |-> now, nth |-> Cardinality(granted) + 1]
  <2>1. now' = now
    BY <1>4 DEF Allow
  <2>2. Cleaned[Client] \in Entries
    BY <1>0, CleanedLemma
  <2>3. \/ Cleaned[Client] = item
        \/ Cleaned[Client] = NoItem /\ item # NoItem /\ Expired(item)
    BY <1>0, CleanedLemma
  <2>4. CASE a # Client
    <3>1. granted' = granted /\ items'[Client] = Cleaned[Client]
      BY <1>0, <1>4, <2>4, AllowLemma DEF Allow
    <3>2. QED  BY <1>1, <1>2, <2>1, <2>3, <3>1
  <2>5. CASE a = Client /\ Full(Client)
    <3>1. granted' = granted /\ items'[Client] = NoItem /\ Cleaned[Client] = NoItem
      BY <1>4, <2>5, AllowLemma DEF Allow, Full
    <3>2. QED  BY <1>1, <1>2, <2>1, <2>3, <3>1
  <2>6. CASE a = Client /\ ~Full(Client) /\ ~(Counted(Cleaned[Client]).count <= Limit)
    <3>1. granted' = granted /\ items'[Client] = Counted(Cleaned[Client])
      BY <1>4, <2>6, AllowLemma DEF Allow
    <3>2. Cleaned[Client] = item /\ item # NoItem /\ ~Expired(item)
      BY <1>0, <2>2, <2>3, <2>6, CountedLemma
    <3>3. item \in [count : 1 .. Limit + 1, since : 0 .. now]
      BY <1>0, <3>2 DEF Entries
    <3>4. /\ items'[Client] \in [count : 1 .. Limit + 1, since : 0 .. now] /\ items'[Client] # NoItem
          /\ items'[Client].since = item.since /\ items'[Client].count >= item.count
          /\ item.count >= Limit
      BY <1>0, <2>2, <2>6, <3>1, <3>2, <3>3, CountedLemma
    <3>5. Counting(item)
      BY <3>2 DEF Windows
    <3>6. Recent'
      BY <2>1, <3>1 DEF Windows, Recent
    <3> HIDE DEF item
    <3>7. Counting(items[Client])'
      <4>1. /\ Cardinality(Since(granted, item.since)) \in Nat
            /\ Cardinality(After(granted, item.since)) \in Nat
        BY <1>0, SelectedLemma
      <4>2. QED  BY <1>0, <2>1, <3>1, <3>2, <3>3, <3>4, <3>5, <4>1 DEF Counting, Expired
    <3>8. QED  BY <3>4, <3>6, <3>7 DEF Windows
  <2>7. CASE a = Client /\ ~Full(Client) /\ Counted(Cleaned[Client]).count <= Limit
    <3>1. granted' = granted \cup {new} /\ items'[Client] = Counted(Cleaned[Client])
      BY <1>4, <2>7, AllowLemma DEF Allow
    <3>2. new \notin granted
      BY <1>0 DEF Windows, Recent
    <3>3. IsFiniteSet(granted') /\ Cardinality(granted') = Cardinality(granted) + 1
      BY <1>0, <3>1, <3>2, OneMoreLemma
    <3>4. Recent'
      <4>1. ASSUME NEW g \in granted'
            PROVE  now - g.at < Window /\ (g.at = now => g.nth <= Cardinality(granted'))
        <5>1. CASE g \in granted
          <6>1. /\ now - g.at < Window
                /\ g.at = now => g.nth <= Cardinality(granted)
            BY <5>1 DEF Windows, Recent
          <6>2. g.nth \in Nat
            BY <1>0, <5>1
          <6>3. QED  BY <1>0, <3>3, <6>1, <6>2
        <5>2. CASE g = new
          BY <1>0, <3>3, <5>2
        <5>3. QED  BY <3>1, <5>1, <5>2
      <4>2. QED  BY <2>1, <3>3, <4>1 DEF Recent
    <3>5. new.at = now
      OBVIOUS
    <3> HIDE DEF new
    <3>6. CASE Cleaned[Client] = NoItem \/ Expired(Cleaned[Client])
      <4>1. Forgotten
        BY <2>3, <3>6, ExpiredLemma DEF Windows
      <4>2. items'[Client] = [count |-> 1, since |-> now]
        BY <1>0, <2>2, <3>1, <3>6, CountedLemma
      <4>3. Since(granted', now) = {new}
        BY <1>0, <3>1, <3>5, <4>1 DEF Since, Forgotten
      <4>4. After(granted', now) = {}
        BY <1>0, <3>1, <3>5, <4>1 DEF After, Forgotten
      <4>5. Before(granted', now) = granted
        BY <1>0, <3>1, <3>5, <4>1 DEF Before, Forgotten
      <4>6. Cardinality({new}) = 1
        BY FS_Singleton
      <4>7. \A g \in granted' : g.at < now + Window
        BY <1>0, <3>1, <3>5, <4>1 DEF Forgotten
      <4>8. Cardinality(granted) < Limit
        BY <4>1 DEF Forgotten
      <4>9. Counting(items[Client])'
        BY <1>0, <2>1, <4>2, <4>3, <4>4, <4>5, <4>6, <4>7, <4>8, FS_EmptySet DEF Counting
      <4>10. items'[Client] # NoItem
        BY <4>2 DEF NoItem
      <4>11. QED  BY <3>4, <4>9, <4>10 DEF Windows
    <3>7. CASE Cleaned[Client] # NoItem /\ ~Expired(Cleaned[Client])
      <4>1. Cleaned[Client] = item /\ item # NoItem /\ ~Expired(item)
        BY <2>3, <3>7
      <4>2. item \in [count : 1 .. Limit + 1, since : 0 .. now]
        BY <1>0, <4>1 DEF Entries
      <4>3. /\ items'[Client] \in [count : 1 .. Limit + 1, since : 0 .. now]
            /\ items'[Client] # NoItem /\ items'[Client].since = item.since
            /\ items'[Client].count = item.count + 1 /\ item.count + 1 <= Limit
        BY <1>0, <2>2, <2>7, <3>1, <4>1, <4>2, CountedLemma
      <4>4. Counting(item)
        BY <4>1 DEF Windows
      <4> HIDE DEF item
      <4>5. Since(granted', item.since) = Since(granted, item.since) \cup {new}
        BY <3>1, <3>5, <4>2 DEF Since
      <4>6. After(granted', item.since) \subseteq After(granted, item.since) \cup {new}
        BY <3>1 DEF After
      <4>7. Before(granted', item.since) = Before(granted, item.since)
        BY <1>0, <3>1, <3>5, <4>2 DEF Before
      <4>8. \A g \in granted' : g.at < item.since + Window
        BY <1>0, <3>1, <3>5, <4>1, <4>2, <4>4 DEF Counting, Expired
      <4>9. /\ Cardinality(Since(granted', item.since)) = Cardinality(Since(granted, item.since)) + 1
            /\ Cardinality(Since(granted, item.since)) \in Nat
        <5>1. new \notin Since(granted, item.since)
          BY <3>2 DEF Since
        <5>2. QED  BY <1>0, <4>5, <5>1, SelectedLemma, OneMoreLemma
      <4>10. /\ Cardinality(After(granted', item.since)) <= Cardinality(After(granted, item.since)) + 1
             /\ Cardinality(After(granted, item.since)) \in Nat
             /\ Cardinality(After(granted', item.since)) \in Nat
        <5>1. /\ IsFiniteSet(After(granted, item.since) \cup {new})
              /\ Cardinality(After(granted, item.since)) \in Nat
              /\ Cardinality(After(granted, item.since) \cup {new})
                   <= Cardinality(After(granted, item.since)) + 1
          BY <1>0, SelectedLemma, OneMoreLemma
        <5>2. /\ Cardinality(After(granted', item.since))
                   <= Cardinality(After(granted, item.since) \cup {new})
              /\ Cardinality(After(granted', item.since)) \in Nat
              /\ Cardinality(After(granted, item.since) \cup {new}) \in Nat
          BY <4>6, <5>1, FewerLemma
        <5>3. QED  BY <5>1, <5>2
      <4>11. Counting(items[Client])'
        BY <1>0, <2>1, <4>1, <4>2, <4>3, <4>4, <4>7, <4>8, <4>9, <4>10 DEF Counting, Expired
      <4>12. QED  BY <3>4, <4>3, <4>11 DEF Windows
    <3>8. QED  BY <3>6, <3>7
  <2>8. QED  BY <2>4, <2>5, <2>6, <2>7
<1>5. ASSUME NEW c \in Callers, Reset(c)
      PROVE  Windows'
  <2>1. CASE caller[c].address = Client
    <3>1. granted' = {} /\ now' = now /\ items'[Client] = NoItem
      BY <1>0, <1>5, <2>1 DEF Reset, TypeOK
    <3>2. QED  BY <1>3, <3>1
  <2>2. CASE caller[c].address # Client
    <3>1. UNCHANGED <<now, granted>> /\ items'[Client] = items[Client]
      BY <1>0, <1>5, <2>2 DEF Reset, TypeOK
    <3>2. QED  BY <1>1, <3>1
  <2>3. QED  BY <2>1, <2>2
<1>6. CASE Tick
  <2>1. now' = now + 1 /\ granted' = {g \in granted : g.at > now' - Window} /\ items' = items
    BY <1>6 DEF Tick
  <2>2. granted' \in SUBSET granted /\ IsFiniteSet(granted')
    BY <1>0, <2>1, FS_Subset
  <2>3. Recent'
    BY <1>0, <2>1, <2>2 DEF Recent
  <2>4. CASE items[Client] = NoItem
    <3>1. Cardinality(granted') <= Cardinality(granted) /\ Cardinality(granted') \in Nat
      BY <1>0, <2>2, FewerLemma
    <3>2. Forgotten'
      BY <1>0, <2>1, <2>2, <2>4, <3>1 DEF Windows, Forgotten
    <3>3. QED  BY <2>1, <2>3, <2>4, <3>2 DEF Windows
  <2>5. CASE items[Client] # NoItem
    <3> DEFINE item == items[Client]
    <3>1. item \in [count : 1 .. Limit + 1, since : 0 .. now] /\ Counting(item)
      BY <1>0, <2>5 DEF Entries, Windows
    <3> HIDE DEF item
    <3>2. /\ Cardinality(Since(granted', item.since)) <= Cardinality(Since(granted, item.since))
          /\ Cardinality(After(granted', item.since)) <= Cardinality(After(granted, item.since))
          /\ Cardinality(Before(granted', item.since)) <= Cardinality(Before(granted, item.since))
      BY <1>0, <2>2, FewerSelectedLemma
    <3>3. /\ Cardinality(Since(granted, item.since)) \in Nat
          /\ Cardinality(After(granted, item.since)) \in Nat
          /\ Cardinality(Before(granted, item.since)) \in Nat
          /\ Cardinality(Since(granted', item.since)) \in Nat
          /\ Cardinality(After(granted', item.since)) \in Nat
          /\ Cardinality(Before(granted', item.since)) \in Nat
      BY <1>0, <2>2, SelectedLemma
    <3>4. ASSUME now' - item.since < Window
          PROVE  Since(granted', item.since) = Since(granted, item.since)
      BY <1>0, <2>1, <3>1, <3>4 DEF Since
    <3>5. \A g \in granted' : g.at < item.since + Window
      BY <2>2, <3>1 DEF Counting
    <3>6. Counting(item)'
      BY <1>0, <2>1, <3>1, <3>2, <3>3, <3>4, <3>5 DEF Counting, Expired, item
    <3>7. QED  BY <2>1, <2>3, <2>5, <3>6 DEF Windows, item
  <2>6. QED  BY <2>4, <2>5
<1>7. CASE Restart
  <2>1. granted' = {} /\ now' = now /\ items'[Client] = NoItem
    BY <1>0, <1>7 DEF Restart
  <2>2. QED  BY <1>3, <2>1
<1>8. CASE UNCHANGED <<now, items, granted>>
  BY <1>1, <1>8
<1>9. QED
  BY <1>4, <1>5, <1>6, <1>7, <1>8
     DEF Next, vars, Answer, PasswordRight, Create, Request, Logout, OpenStream, EndStream

\* A step keeps entries from growing older than a cleanup allows.
LEMMA SweptStep == TypeOK /\ Swept /\ [Next]_vars => Swept'
<1> SUFFICES ASSUME TypeOK, Swept, [Next]_vars
             PROVE  Swept'
  OBVIOUS
<1>0. now \in Nat /\ lastCleanup \in 0 .. now /\ Window \in Nat /\ Window >= 1
  BY ParameterLemma DEF TypeOK, Times
<1>1. ASSUME NEW c \in Callers, NEW a \in Addresses, Allow(c, a)
      PROVE  Swept'
  <2>1. lastCleanup' = (IF now - lastCleanup >= Window THEN now ELSE lastCleanup)
    BY <1>1 DEF Allow
  <2>2. ASSUME NEW b \in Addresses, Cleaned[b] # NoItem
        PROVE  /\ Cleaned[b] = items[b] /\ Cleaned[b].since \in 0 .. now
               /\ lastCleanup' < Cleaned[b].since + Window
    <3>1. Cleaned[b] = items[b] /\ items[b] # NoItem
      BY <2>2, CleanedLemma
    <3>2. items[b].since \in 0 .. now /\ lastCleanup < items[b].since + Window
      BY <3>1 DEF TypeOK, Swept, Tracked
    <3>3. CASE now - lastCleanup >= Window
      <4>1. ~Expired(items[b])
        BY <2>2, <3>1, <3>3 DEF Cleaned
      <4>2. QED  BY <1>0, <2>1, <3>1, <3>2, <3>3, <4>1 DEF Expired
    <3>4. CASE ~(now - lastCleanup >= Window)
      BY <2>1, <3>1, <3>2, <3>4
    <3>5. QED  BY <3>3, <3>4
  <2>3. ASSUME NEW b \in Addresses, items'[b] # NoItem
        PROVE  lastCleanup' < items'[b].since + Window
    <3>1. CASE items'[b] = Cleaned[b]
      BY <2>2, <2>3, <3>1
    <3>2. CASE b = a /\ items'[a] = Counted(Cleaned[a])
      <4>1. Cleaned[a] \in Entries
        BY CleanedLemma
      <4>2. CASE Cleaned[a] = NoItem \/ Expired(Cleaned[a])
        <5>1. items'[b] = [count |-> 1, since |-> now]
          BY <3>2, <4>1, <4>2, CountedLemma
        <5>2. QED  BY <1>0, <2>1, <5>1
      <4>3. CASE Cleaned[a] # NoItem /\ ~Expired(Cleaned[a])
        <5>1. items'[b].since = Cleaned[a].since
          BY <3>2, <4>1, <4>3, CountedLemma
        <5>2. QED  BY <2>2, <4>3, <5>1
      <4>4. QED  BY <4>2, <4>3
    <3>3. QED  BY <1>1, <3>1, <3>2, AllowLemma
  <2>4. QED  BY <2>3 DEF Swept, Tracked
<1>2. ASSUME NEW c \in Callers, Reset(c)
      PROVE  Swept'
  BY <1>2 DEF Reset, TypeOK, Swept, Tracked
<1>3. CASE Restart
  BY <1>3 DEF Restart, Swept, Tracked
<1>4. CASE UNCHANGED <<items, lastCleanup>>
  BY <1>4 DEF Swept, Tracked
<1>5. QED
  BY <1>1, <1>2, <1>3, <1>4 DEF Next, vars, Answer, PasswordRight, Create, Request, Logout,
     OpenStream, EndStream, Tick

\* A step keeps streams within reach of their sessions.
LEMMA StreamStep == TypeOK /\ Streams /\ [Next]_vars => Streams'
<1> SUFFICES ASSUME TypeOK, Streams, [Next]_vars
             PROVE  Streams'
  OBVIOUS
<1>0. /\ now \in Nat /\ Revalidate \in Nat
      /\ \A s \in Tokens : stream[s] \in {NoStream} \cup 0 .. now /\ EndOf(sessions[s]) \in Nat
  BY ParameterLemma, EndLemma DEF TypeOK, Times
<1>1. ASSUME Continues(sessions'), UNCHANGED <<now, stream>>
      PROVE  Streams'
  <2>1. ASSUME NEW s \in Tokens, stream[s] # NoStream
        PROVE  /\ now - stream[s] <= Revalidate
               /\ sessions'[s].state # "unused" /\ stream[s] <= EndOf(sessions'[s])
    <3>1. /\ now - stream[s] <= Revalidate
          /\ sessions[s].state # "unused" /\ stream[s] <= EndOf(sessions[s])
      BY <2>1 DEF Streams
    <3>2. /\ sessions'[s].state # "unused"
          /\ EndOf(sessions'[s]) >= now \/ EndOf(sessions'[s]) >= EndOf(sessions[s])
      BY <1>1, <3>1 DEF Continues
    <3>3. EndOf(sessions'[s]) \in Int
      BY <1>0, <1>1, RecordEndLemma DEF Continues
    <3>4. stream[s] \in 0 .. now
      BY <1>0, <2>1
    <3>5. QED  BY <1>0, <3>1, <3>2, <3>3, <3>4
  <2>2. QED  BY <1>1, <2>1 DEF Streams
<1>2. ASSUME NEW c \in Callers, Create(c)
      PROVE  Streams'
  <2>1. Continues(CleanedSessions) /\ UNCHANGED <<now, stream>>
    BY <1>2, CleanedSessionsLemma DEF Create
  <2>2. CASE sessions' = CleanedSessions
    BY <1>1, <2>1, <2>2
  <2>3. ASSUME NEW s \in Tokens, sessions[s] = Unused,
               sessions' = [CleanedSessions EXCEPT ![s] =
                 [state |-> "live", created |-> now, active |-> now, ended |-> 0]]
        PROVE  Streams'
    <3>1. [state |-> "live", created |-> now, active |-> now, ended |-> 0] \in SessionRecords
      BY <1>0 DEF SessionRecords
    <3>2. sessions[s].state = "unused"
      BY <2>3 DEF Unused
    <3>3. Continues(sessions')
      BY <1>0, <2>1, <2>3, <3>1, <3>2 DEF Continues
    <3>4. QED  BY <1>1, <2>1, <3>3
  <2>4. QED  BY <1>2, <2>2, <2>3 DEF Create
<1>3. ASSUME NEW s \in Tokens, Request(s)
      PROVE  Streams'
  BY <1>1, <1>3, GetLemma DEF Request
<1>4. ASSUME NEW s \in Tokens, Logout(s)
      PROVE  Streams'
  BY <1>1, <1>4, LogoutLemma DEF Logout
<1>5. ASSUME NEW s \in Tokens, OpenStream(s)
      PROVE  Streams'
  <2>1. sessions[s].state = "live" /\ Valid(s)
    BY <1>5 DEF OpenStream, Valid
  <2>2. Continues(Get(s)) /\ EndOf(Get(s)[s]) >= now
    BY <2>1, GetLemma
  <2>3. now' = now /\ sessions' = Get(s) /\ stream' = [stream EXCEPT ![s] = now]
    BY <1>5 DEF OpenStream
  <2>4. ASSUME NEW t \in Tokens, stream'[t] # NoStream
        PROVE  /\ now - stream'[t] <= Revalidate
               /\ sessions'[t].state # "unused" /\ stream'[t] <= EndOf(sessions'[t])
    <3>1. EndOf(sessions'[t]) \in Int
      BY <1>0, <2>2, <2>3, RecordEndLemma DEF Continues
    <3>2. CASE t = s
      <4>1. stream'[t] = now
        BY <2>3, <3>2 DEF TypeOK
      <4>2. sessions'[t].state # "unused"
        BY <2>1, <2>2, <2>3, <3>2 DEF Continues
      <4>3. QED  BY <1>0, <2>2, <2>3, <3>1, <3>2, <4>1, <4>2
    <3>3. CASE t # s
      <4>1. stream'[t] = stream[t]
        BY <2>3, <3>3 DEF TypeOK
      <4>2. /\ now - stream[t] <= Revalidate /\ stream[t] \in 0 .. now
            /\ sessions[t].state # "unused" /\ stream[t] <= EndOf(sessions[t])
        BY <1>0, <2>4, <4>1 DEF Streams
      <4>3. /\ sessions'[t].state # "unused"
            /\ EndOf(sessions'[t]) >= now \/ EndOf(sessions'[t]) >= EndOf(sessions[t])
        BY <2>2, <2>3, <4>2 DEF Continues
      <4>4. QED  BY <1>0, <3>1, <4>1, <4>2, <4>3
    <3>4. QED  BY <3>2, <3>3
  <2>5. QED  BY <2>3, <2>4 DEF Streams
<1>6. ASSUME NEW s \in Tokens, EndStream(s)
      PROVE  Streams'
  BY <1>6 DEF EndStream, TypeOK, Streams
<1>7. CASE Tick
  <2>1. now' = now + 1 /\ UNCHANGED <<sessions, stream>> /\ \A s \in Tokens : ~Due(s)
    BY <1>7 DEF Tick
  <2>2. QED  BY <1>0, <2>1 DEF Streams, Due
<1>8. CASE Restart
  BY <1>8 DEF Restart, Streams
<1>9. CASE UNCHANGED <<now, sessions, stream>>
  BY <1>9 DEF Streams
<1>10. QED
  BY <1>2, <1>3, <1>4, <1>5, <1>6, <1>7, <1>8, <1>9
     DEF Next, vars, Allow, Answer, PasswordRight, Reset

-----------------------------------------------------------------------------
(* Theorems.                                                               *)

\* The invariant holds at first.
LEMMA Initially == Init => IInv
<1> SUFFICES ASSUME Init PROVE IInv
  OBVIOUS
<1> USE DEF Init
<1>1. Tracked(items) = {} /\ Live(sessions) = {}
  BY DEF Tracked, Live, Unused
<1>2. Cardinality(Tracked(items)) <= MaxKeys /\ Cardinality(Live(sessions)) <= Capacity
  BY <1>1, FS_EmptySet, ParameterLemma
<1>3. /\ items \in [Addresses -> Entries] /\ sessions \in [Tokens -> SessionRecords]
      /\ stream \in [Tokens -> {NoStream} \cup 0 .. now]
  BY DEF Entries, SessionRecords, Unused
<1>4. caller \in [Callers -> [pc : {"idle"}, address : Addresses]]
  BY AccessAssumption DEF Resting
<1>5. TypeOK
  BY <1>2, <1>3, <1>4, ParameterLemma DEF TypeOK, Times, Entries, SessionRecords, Unused
<1>6. Windows
  BY AccessAssumption, ParameterLemma, FS_EmptySet DEF Windows, Recent, Forgotten
<1>7. Swept /\ Streams
  BY <1>1 DEF Swept, Streams
<1>8. QED  BY <1>5, <1>6, <1>7 DEF IInv

\* The inductive invariant holds in every state.
THEOREM Invariance == Spec => []IInv
<1>1. Init => IInv
  BY Initially
<1>2. IInv /\ [Next]_vars => IInv'
  BY TypeStep, WindowStep, SweptStep, StreamStep DEF IInv, Windows, Recent
<1>3. QED  BY <1>1, <1>2, PTL DEF Spec

\* Every variable keeps its type; in particular limiter and sessions keep to their sizes.
THEOREM TypeCorrect == Spec => []TypeOK
  BY Invariance, PTL DEF IInv

\* No interval as long as a window has 2 * Limit attempts of a client that are let through
\* between its successful logins, for every limit and window (limiter.go:29-51).
THEOREM Bounded == Spec => []AttemptsBounded
<1>1. IInv => AttemptsBounded
  <2> SUFFICES ASSUME IInv PROVE Cardinality(granted) < 2 * Limit
    BY DEF AttemptsBounded, GrantedInWindow
  <2>1. IsFiniteSet(granted) /\ Cardinality(granted) \in Nat /\ Limit \in Nat /\ Limit >= 1
    BY ParameterLemma, FS_CardinalityType DEF IInv, Windows, Recent
  <2>2. CASE items[Client] = NoItem
    BY <2>1, <2>2 DEF IInv, Windows, Forgotten
  <2>3. CASE items[Client] # NoItem
    <3> DEFINE t == items[Client].since
    <3>1. Cardinality(Since(granted, t)) <= Limit /\ Cardinality(Before(granted, t)) < Limit
      BY <2>3 DEF IInv, Windows, Counting
    <3>2. /\ IsFiniteSet(Since(granted, t)) /\ Cardinality(Since(granted, t)) \in Nat
          /\ IsFiniteSet(Before(granted, t)) /\ Cardinality(Before(granted, t)) \in Nat
      BY <2>1, SelectedLemma
    <3>3. granted = Since(granted, t) \cup Before(granted, t)
      <4>1. t \in Nat /\ \A g \in granted : g.at \in Nat
        BY <2>3, AccessAssumption DEF IInv, TypeOK
      <4>2. QED  BY <4>1 DEF Since, Before
    <3>4. Since(granted, t) \cap Before(granted, t) = {}
      <4>1. t \in Nat /\ \A g \in granted : g.at \in Nat
        BY <2>3, AccessAssumption DEF IInv, TypeOK
      <4>2. QED  BY <4>1 DEF Since, Before
    <3> HIDE DEF t
    <3>5. Cardinality(granted)
            = Cardinality(Since(granted, t)) + Cardinality(Before(granted, t)) - Cardinality({})
      <4>1. Cardinality(Since(granted, t) \cup Before(granted, t))
              = Cardinality(Since(granted, t)) + Cardinality(Before(granted, t))
                - Cardinality(Since(granted, t) \cap Before(granted, t))
        BY <3>2, FS_Union
      <4>2. QED  BY <3>3, <3>4, <4>1
    <3>6. QED  BY <2>1, <3>1, <3>2, <3>5, FS_EmptySet
  <2>4. QED  BY <2>2, <2>3
<1>2. QED  BY <1>1, Invariance, PTL

\* A client that is turned away had its attempts within the last window, or found the table
\* full of entries younger than two windows (limiter.go:33-50).
THEOREM Refused == Spec => RefusedWithCause
<1>1. IInv /\ [Next]_vars =>
        [\A c \in Callers :
           (caller[c].pc = "idle" /\ caller'[c].pc = "refused" /\ caller'[c].address = Client) =>
             \/ GrantedInWindow >= Limit
             \/ /\ items'[Client] = NoItem /\ Cardinality(Tracked(items')) = MaxKeys
                /\ \A a \in Tracked(items') : now - items'[a].since < 2 * Window]_vars
  <2> SUFFICES ASSUME IInv, [Next]_vars, NEW c \in Callers, caller[c].pc = "idle",
                      caller'[c].pc = "refused", caller'[c].address = Client
               PROVE  \/ Cardinality(granted) >= Limit
                      \/ /\ items'[Client] = NoItem /\ Cardinality(Tracked(items')) = MaxKeys
                         /\ \A a \in Tracked(items') : now - items'[a].since < 2 * Window
    BY DEF GrantedInWindow
  <2>0. /\ TypeOK /\ Windows /\ Swept /\ IsFiniteSet(granted) /\ Cardinality(granted) \in Nat
        /\ Client \in Addresses /\ Limit \in Nat /\ Limit >= 1 /\ Window \in Nat
        /\ now \in Nat /\ lastCleanup \in 0 .. now /\ MaxKeys \in Nat
    BY AccessAssumption, ParameterLemma, FS_CardinalityType
       DEF IInv, Windows, Recent, TypeOK, Times
  <2>1. Allow(c, Client)
    <3>1. caller[c] # caller'[c]
      OBVIOUS
    <3>2. ASSUME NEW d \in Callers, Answer(d) \/ PasswordRight(d) \/ Create(d) \/ Reset(d)
          PROVE  FALSE
      BY <2>0, <3>1, <3>2 DEF TypeOK, Answer, PasswordRight, Create, Reset, Resting
    <3>3. ASSUME NEW d \in Callers, NEW a \in Addresses, Allow(d, a)
          PROVE  d = c /\ a = Client
      <4>1. \E pc \in {"password", "refused"} :
              caller' = [caller EXCEPT ![d] = [pc |-> pc, address |-> a]]
        BY <3>3 DEF Allow
      <4>2. QED  BY <2>0, <3>1, <4>1 DEF TypeOK
    <3>4. ~Restart
      BY DEF Restart, Resting
    <3>5. caller' # caller
      BY <3>1
    <3>6. QED
      BY <3>2, <3>3, <3>4, <3>5 DEF Next, vars, Request, Logout, OpenStream, EndStream, Tick
  <2>2. caller'[c].pc = IF ~Full(Client) /\ Counted(Cleaned[Client]).count <= Limit
                        THEN "password" ELSE "refused"
    BY <2>0, <2>1 DEF Allow, TypeOK
  <2>3. CASE Full(Client)
    <3>1. items' = Cleaned /\ items'[Client] = NoItem
      BY <2>0, <2>1, <2>3, AllowLemma
    <3>2. Cardinality(Tracked(items')) = MaxKeys
      BY <2>0, <2>3, <3>1, CleanedLemma, TableLemma DEF Full
    <3>3. ASSUME NEW a \in Tracked(items')
          PROVE  now - items'[a].since < 2 * Window
      <4>1. Swept' /\ lastCleanup' = (IF now - lastCleanup >= Window THEN now ELSE lastCleanup)
        BY <2>0, <2>1, SweptStep DEF Allow
      <4>2. lastCleanup' < items'[a].since + Window
        BY <4>1 DEF Swept
      <4>3. items'[a].since \in 0 .. now
        BY <2>0, <2>1, AllowLemma DEF Tracked, Entries
      <4>4. QED  BY <2>0, <4>1, <4>2, <4>3
    <3>4. QED  BY <3>1, <3>2, <3>3
  <2>4. CASE ~Full(Client)
    <3> DEFINE item == items[Client]
    <3>1. ~(Counted(Cleaned[Client]).count <= Limit)
      BY <2>2, <2>4
    <3>2. Cleaned[Client] \in Entries /\ (Cleaned[Client] = item \/ Cleaned[Client] = NoItem)
      BY <2>0, CleanedLemma
    <3>3. Cleaned[Client] = item /\ item # NoItem /\ ~Expired(item)
      BY <2>0, <3>1, <3>2, CountedLemma
    <3>4. item \in [count : 1 .. Limit + 1, since : 0 .. now]
      BY <3>2, <3>3 DEF Entries
    <3>5. item.count >= Limit
      BY <2>0, <3>1, <3>2, <3>3, <3>4, CountedLemma
    <3>6. Counting(item)
      BY <2>0, <3>3 DEF Windows
    <3> HIDE DEF item
    <3>7. Cardinality(Since(granted, item.since)) >= Limit
      <4>1. Cardinality(Since(granted, item.since)) \in Nat
        BY <2>0, SelectedLemma
      <4>2. QED  BY <2>0, <3>3, <3>4, <3>5, <3>6, <4>1 DEF Counting
    <3>8. Cardinality(Since(granted, item.since)) <= Cardinality(granted)
      <4>1. Since(granted, item.since) \subseteq granted
        BY DEF Since
      <4>2. QED  BY <2>0, <4>1, FewerLemma
    <3>9. QED  BY <2>0, <3>7, <3>8, SelectedLemma
  <2>5. QED  BY <2>3, <2>4
<1>2. QED  BY <1>1, Invariance, PTL DEF Spec, RefusedWithCause

\* The right password is turned away only when there are as many valid sessions as there
\* may be (session.go:46-51).
THEOREM TurnedAway == Spec => TurnedAwayOnlyWhenFull
<1>1. IInv /\ [Next]_vars =>
        [\A c \in Callers :
           (caller[c].pc = "create" /\ caller'[c].pc = "full") =>
             Cardinality({s \in Tokens : Valid(s)}) >= Capacity]_vars
  <2> SUFFICES ASSUME IInv, [Next]_vars, NEW c \in Callers, caller[c].pc = "create",
                      caller'[c].pc = "full"
               PROVE  Cardinality({s \in Tokens : Valid(s)}) >= Capacity
    OBVIOUS
  <2>1. TypeOK
    BY DEF IInv
  <2>2. ASSUME NEW d \in Callers, Create(d)
        PROVE  Cardinality({s \in Tokens : Valid(s)}) >= Capacity
    <3>1. CASE Cardinality(Live(CleanedSessions)) >= Capacity
      BY <2>1, <3>1, CleanedSessionsLemma
    <3>2. CASE caller' = [caller EXCEPT ![d].pc = "reset"]
      BY <2>1, <3>2 DEF TypeOK
    <3>3. QED  BY <2>2, <3>1, <3>2 DEF Create
  <2>3. ASSUME NEW d \in Callers, Answer(d) \/ PasswordRight(d) \/ Reset(d)
        PROVE  FALSE
    BY <2>1, <2>3 DEF TypeOK, Answer, PasswordRight, Reset, Resting
  <2>4. ASSUME NEW d \in Callers, NEW a \in Addresses, Allow(d, a)
        PROVE  FALSE
    <3>1. \E pc \in {"password", "refused"} :
            caller' = [caller EXCEPT ![d] = [pc |-> pc, address |-> a]]
      BY <2>4 DEF Allow
    <3>2. QED  BY <2>1, <3>1 DEF TypeOK
  <2>5. ~Restart
    BY DEF Restart, Resting
  <2>6. caller' # caller
    OBVIOUS
  <2>7. QED
    BY <2>2, <2>3, <2>4, <2>5, <2>6 DEF Next, vars, Request, Logout, OpenStream, EndStream, Tick
<1>2. QED  BY <1>1, Invariance, PTL DEF Spec, TurnedAwayOnlyWhenFull

\* A stream outlives its session by no more than its timer (server.go:447-454).
THEOREM StreamEnds == Spec => []StreamEndsWithSession
<1>1. IInv => StreamEndsWithSession
  <2> SUFFICES ASSUME IInv, NEW s \in Tokens, stream[s] # NoStream
               PROVE  now - EndOf(sessions[s]) <= Revalidate
    BY DEF StreamEndsWithSession
  <2>1. TypeOK /\ Streams
    BY DEF IInv
  <2>2. /\ now \in Nat /\ Revalidate \in Nat /\ stream[s] \in 0 .. now
        /\ EndOf(sessions[s]) \in Nat
    BY <2>1, ParameterLemma, EndLemma DEF TypeOK, Times
  <2>3. now - stream[s] <= Revalidate /\ stream[s] <= EndOf(sessions[s])
    BY <2>1 DEF Streams
  <2>4. QED  BY <2>2, <2>3
<1>2. QED  BY <1>1, Invariance, PTL
=============================================================================
