-------------------------------- MODULE Access --------------------------------
(***************************************************************************)
(* Logging in and staying logged in: the limiter of login attempts         *)
(* (internal/auth/limiter.go), the sessions (session.go) and the handlers  *)
(* that use them (server.go).  Both live in memory behind a lock each, so  *)
(* a login is four steps other requests fall between: the limiter, the     *)
(* password, the session and the reset of the limiter.  A clock is read    *)
(* just before its lock is taken; a unit of time is longer than that.      *)
(***************************************************************************)
EXTENDS Integers, FiniteSets, FiniteSetsExt

CONSTANTS
  Callers,     \* login requests that may overlap
  Addresses, Client,  \* where they come from; the address that is watched
  Tokens,      \* session tokens that can be drawn
  Limit, Window, MaxKeys,               \* of the limiter (5, 15 minutes, 10000)
  IdleTimeout, Lifetime, Capacity,      \* of the sessions
  Revalidate,  \* how long an event stream is served (5 minutes)
  MaxTime      \* bound: the clock

ASSUME AccessAssumption ==
  /\ IsFiniteSet(Addresses) /\ IsFiniteSet(Tokens) /\ Client \in Addresses
  /\ {Limit, Window, MaxKeys, IdleTimeout, Lifetime, Capacity, Revalidate} \subseteq Nat \ {0}
  /\ MaxTime \in Nat

VARIABLES
  now,
  items,       \* per address [count, since], or NoItem
  lastCleanup,
  caller,      \* per login request [pc, address]
  sessions,    \* per token [state, created, active, ended]
  stream,      \* per token the time its event stream was opened, or NoStream
  granted      \* history: the client's granted attempts [at, nth] of the last window, since its
               \* last reset

vars == <<now, items, lastCleanup, caller, sessions, stream, granted>>

Times == 0 .. MaxTime
NoItem == [count |-> 0, since |-> -1]
NoStream == -1
Resting == [pc |-> "idle", address |-> Client]
Unused == [state |-> "unused", created |-> 0, active |-> 0, ended |-> 0]

Tracked(table) == {a \in Addresses : table[a] # NoItem}
Live(table) == {s \in Tokens : table[s].state = "live"}

TypeOK ==
  /\ now \in Times /\ lastCleanup \in 0 .. now
  /\ items \in [Addresses -> {NoItem} \cup [count : 1 .. Limit + 1, since : 0 .. now]]
  /\ Cardinality(Tracked(items)) <= MaxKeys
  /\ caller \in [Callers -> [pc : {"idle", "refused", "password", "create", "full", "reset"},
                              address : Addresses]]
  /\ sessions \in [Tokens -> [state : {"unused", "live", "gone"}, created : 0 .. now,
                               active : 0 .. now, ended : 0 .. now]]
  /\ \A s \in Tokens : sessions[s].created <= sessions[s].active
  /\ Cardinality(Live(sessions)) <= Capacity
  /\ stream \in [Tokens -> {NoStream} \cup 0 .. now]
  /\ granted \subseteq [at : 0 .. now, nth : Nat]

Init ==
  /\ now = 0 /\ lastCleanup = 0
  /\ items = [a \in Addresses |-> NoItem]
  /\ caller = [c \in Callers |-> Resting]
  /\ sessions = [s \in Tokens |-> Unused]
  /\ stream = [s \in Tokens |-> NoStream]
  /\ granted = {}

-----------------------------------------------------------------------------
(* The limiter.                                                            *)

Expired(item) == now - item.since >= Window

\* Mutant: the cleanup empties the table.
CleanedAll == IF now - lastCleanup >= Window THEN [a \in Addresses |-> NoItem] ELSE items

\* Once per window the expired entries are deleted.
Cleaned ==
  IF now - lastCleanup >= Window
  THEN [a \in Addresses |-> IF Expired(items[a]) THEN NoItem ELSE items[a]]
  ELSE items

\* Mutant: every attempt moves the window.
CountedSliding(item) ==
  [count |-> IF Expired(item) \/ item = NoItem THEN 1
             ELSE IF item.count > Limit THEN item.count ELSE item.count + 1,
   since |-> now]

\* A count above the limit is not told from limit + 1.
Counted(item) ==
  IF item = NoItem \/ Expired(item) THEN [count |-> 1, since |-> now]
  ELSE [item EXCEPT !.count = IF @ > Limit THEN @ ELSE @ + 1]

\* Mutant: one entry too many.
FullTracked(address) == Cleaned[address] = NoItem /\ Cardinality(Tracked(Cleaned)) > MaxKeys

Full(address) == Cleaned[address] = NoItem /\ Cardinality(Tracked(Cleaned)) >= MaxKeys

Allow(c, address) ==
  LET item == Counted(Cleaned[address])
      allowed == ~Full(address) /\ item.count <= Limit
  IN  /\ caller[c].pc = "idle"
      /\ items' = IF Full(address) THEN Cleaned ELSE [Cleaned EXCEPT ![address] = item]
      /\ lastCleanup' = IF now - lastCleanup >= Window THEN now ELSE lastCleanup
      /\ caller' = [caller EXCEPT ![c] =
           [pc |-> IF allowed THEN "password" ELSE "refused", address |-> address]]
      /\ granted' = IF allowed /\ address = Client
                    THEN granted \cup {[at |-> now, nth |-> Cardinality(granted) + 1]}
                    ELSE granted
      /\ UNCHANGED <<now, sessions, stream>>

\* A refused, failed or wrong attempt is answered.
Answer(c) ==
  /\ caller[c].pc \in {"refused", "password", "full"}
  /\ caller' = [caller EXCEPT ![c] = Resting]
  /\ UNCHANGED <<now, items, lastCleanup, sessions, stream, granted>>

PasswordRight(c) ==
  /\ caller[c].pc = "password"
  /\ caller' = [caller EXCEPT ![c].pc = "create"]
  /\ UNCHANGED <<now, items, lastCleanup, sessions, stream, granted>>

Reset(c) ==
  /\ caller[c].pc = "reset"
  /\ items' = [items EXCEPT ![caller[c].address] = NoItem]
  /\ caller' = [caller EXCEPT ![c] = Resting]
  /\ granted' = IF caller[c].address = Client THEN {} ELSE granted
  /\ UNCHANGED <<now, lastCleanup, sessions, stream>>

-----------------------------------------------------------------------------
(* Sessions.                                                               *)

\* The last moment at which a session is valid.
EndOf(session) ==
  IF session.state = "live"
  THEN Min({session.active + IdleTimeout, session.created + Lifetime})
  ELSE session.ended

Valid(s) == sessions[s].state = "live" /\ now <= EndOf(sessions[s])

Gone(at) == [state |-> "gone", created |-> 0, active |-> 0, ended |-> at]

\* Mutant: sessions are deleted when they are used only.
CleanedNothing == sessions

\* cleanupLocked.
CleanedSessions ==
  [s \in Tokens |->
     IF sessions[s].state = "live" /\ ~Valid(s) THEN Gone(EndOf(sessions[s]))
     ELSE sessions[s]]

Create(c) ==
  /\ caller[c].pc = "create"
  /\ \/ /\ Cardinality(Live(CleanedSessions)) >= Capacity
        /\ sessions' = CleanedSessions
        /\ caller' = [caller EXCEPT ![c].pc = "full"]
     \/ /\ Cardinality(Live(CleanedSessions)) < Capacity
        /\ \E s \in Tokens :
             /\ sessions[s] = Unused
             /\ sessions' = [CleanedSessions EXCEPT ![s] =
                  [state |-> "live", created |-> now, active |-> now, ended |-> 0]]
        /\ caller' = [caller EXCEPT ![c].pc = "reset"]
  /\ UNCHANGED <<now, items, lastCleanup, stream, granted>>

\* Sessions.Get: a valid session is active, an expired one is deleted.
Get(s) ==
  IF Valid(s) THEN [sessions EXCEPT ![s].active = now]
  ELSE [sessions EXCEPT ![s] = Gone(EndOf(@))]

\* Any page or form; also the page's refresh every 15 seconds.
Request(s) ==
  /\ sessions[s].state = "live" /\ sessions' = Get(s)
  /\ UNCHANGED <<now, items, lastCleanup, caller, stream, granted>>

Logout(s) ==
  /\ Valid(s) /\ sessions' = [sessions EXCEPT ![s] = Gone(now)]
  /\ UNCHANGED <<now, items, lastCleanup, caller, stream, granted>>

OpenStream(s) ==
  /\ Valid(s) /\ stream[s] = NoStream
  /\ sessions' = Get(s) /\ stream' = [stream EXCEPT ![s] = now]
  /\ UNCHANGED <<now, items, lastCleanup, caller, granted>>

\* Mutant: the stream may be served as long as a session may live.
DueByLifetime(s) == stream[s] # NoStream /\ now - stream[s] >= Lifetime

Due(s) == stream[s] # NoStream /\ now - stream[s] >= Revalidate

\* The timer's case of the stream's select, or the client goes away.
EndStream(s) ==
  /\ stream[s] # NoStream /\ stream' = [stream EXCEPT ![s] = NoStream]
  /\ UNCHANGED <<now, items, lastCleanup, caller, sessions, granted>>

-----------------------------------------------------------------------------
\* A timer that is due fires before time goes on.
Tick ==
  /\ now < MaxTime /\ \A s \in Tokens : ~Due(s)
  /\ now' = now + 1
  /\ granted' = {g \in granted : g.at > now' - Window}
  /\ UNCHANGED <<items, lastCleanup, caller, sessions, stream>>

\* Limiter and sessions are gone.
Restart ==
  /\ items' = [a \in Addresses |-> NoItem] /\ lastCleanup' = now
  /\ caller' = [c \in Callers |-> Resting]
  /\ sessions' = [s \in Tokens |-> IF sessions[s].state = "live" THEN Gone(now)
                                   ELSE sessions[s]]
  /\ stream' = [s \in Tokens |-> NoStream]
  /\ granted' = {}
  /\ UNCHANGED now

Next ==
  \/ \E c \in Callers :
       \/ \E a \in Addresses : Allow(c, a)
       \/ Answer(c) \/ PasswordRight(c) \/ Create(c) \/ Reset(c)
  \/ \E s \in Tokens : Request(s) \/ Logout(s) \/ OpenStream(s) \/ EndStream(s)
  \/ Tick \/ Restart

Spec == Init /\ [][Next]_vars

-----------------------------------------------------------------------------
GrantedInWindow == Cardinality(granted)

\* Between two successful logins an address gets fewer than 2 * Limit attempts in any
\* interval as long as the window, whatever cleanups and other addresses do to the table:
\* the windows follow each other and each starts with an attempt (limiter.go:29-51).
AttemptsBounded == GrantedInWindow < 2 * Limit

\* A refused client had its attempts within the last window, so that refused attempts never
\* prolong a lockout; or it met a table full of entries none of which is older than two
\* windows, although the cleanup runs once per window only (limiter.go:33-50).
RefusedWithCause ==
  [][\A c \in Callers :
       (caller[c].pc = "idle" /\ caller'[c].pc = "refused" /\ caller'[c].address = Client) =>
         \/ GrantedInWindow >= Limit
         \/ /\ items'[Client] = NoItem /\ Cardinality(Tracked(items')) = MaxKeys
            /\ \A a \in Tracked(items') : now - items'[a].since < 2 * Window]_vars

\* The right password is turned away only when as many sessions are valid as there may be:
\* abandoned sessions keep nobody out (session.go:46-51).
TurnedAwayOnlyWhenFull ==
  [][\A c \in Callers :
       (caller[c].pc = "create" /\ caller'[c].pc = "full") =>
         Cardinality({s \in Tokens : Valid(s)}) >= Capacity]_vars

\* The event stream checks the session only when it opens; it outlives the end of the
\* session, by logout, idling or age, by no more than its timer (server.go:447-454).
StreamEndsWithSession ==
  \A s \in Tokens : stream[s] # NoStream => now - EndOf(sessions[s]) <= Revalidate
=============================================================================
