------------------------------- MODULE Delivery -------------------------------
(***************************************************************************)
(* One agent, the network and the server's ingestion of its reports.       *)
(* The sender posts one report at a time and repeats it until an answer    *)
(* settles it.  An attempt it gave up (a timeout, a broken connection, a   *)
(* stopped process) may still reach the server at any later moment, so the *)
(* server sees reports late, repeated and out of order.  SaveReport        *)
(* decides in one transaction whether a report is new.                     *)
(***************************************************************************)
EXTENDS Agent

CONSTANTS
  MaxCrashes  \* bound: crashes and power cuts, for finite counter-free histories

ASSUME CrashAssumption == MaxCrashes \in Nat

VARIABLES
  late,          \* numbers of abandoned attempts that may still arrive
  reply,         \* the server's answer to the attempt the sender waits for
  lastSequence,  \* agents.last_sequence
  stored,        \* numbers of the rows of the reports table
  refused,       \* history: answered 400 or 422
  crashes        \* stops so far

serverVars == <<lastSequence, stored>>
networkVars == <<late, reply>>
vars == <<agentVars, networkVars, serverVars, refused, crashes>>

Replies == {"none", "accepted", "replay", "refused", "later"}

TypeOK ==
  /\ AgentTypeOK
  /\ late \subseteq Numbers
  /\ reply \in Replies
  /\ lastSequence \in Values
  /\ stored \subseteq Numbers
  /\ refused \subseteq Numbers
  /\ crashes \in 0 .. MaxCrashes

Init ==
  /\ AgentInit
  /\ late = {} /\ reply = "none"
  /\ lastSequence = 0 /\ stored = {}
  /\ refused = {}
  /\ crashes = 0

\* The attempt the sender waits for and the server has not answered yet.
Posted == phase = "post" /\ reply = "none"

-----------------------------------------------------------------------------
\* Mutant: SaveReport checks that the report is not stored, not that it is newer.
SaveReportUnordered(n) ==
  /\ n \notin stored
  /\ lastSequence' = n
  /\ stored' = stored \cup {n}

\* SaveReport: UPDATE ... WHERE last_sequence < n and INSERT in one transaction.
SaveReport(n) ==
  /\ n > lastSequence
  /\ lastSequence' = n
  /\ stored' = stored \cup {n}

\* The ingest handler on the attempt the sender waits for: 400 and 422 refuse it for
\* good, 401, 429 and 500 make the sender try again, 409 says it is no news.
Ingest ==
  /\ Posted
  /\ \/ SaveReport(head) /\ reply' = "accepted" /\ UNCHANGED refused
     \/ /\ head <= lastSequence
        /\ reply' = "replay"
        /\ UNCHANGED <<serverVars, refused>>
     \/ /\ reply' = "refused"
        /\ refused' = refused \cup {head}
        /\ UNCHANGED serverVars
     \/ reply' = "later" /\ UNCHANGED <<serverVars, refused>>
  /\ UNCHANGED <<agentVars, late, crashes>>

\* An abandoned attempt arrives, or is dropped on its way or by the handler.
ArriveLate(n) ==
  /\ n \in late
  /\ late' = late \ {n}
  /\ SaveReport(n) \/ UNCHANGED serverVars
  /\ UNCHANGED <<agentVars, reply, refused, crashes>>

\* Mutant: 401, 429 and 5xx count as answers that settle the report.
DeliverAnyAnswer ==
  /\ reply # "none"
  /\ reply' = "none"
  /\ Answered
  /\ UNCHANGED <<late, serverVars, refused, crashes>>

\* The answer reaches the sender; send() sorts it into final and to be retried.
DeliverAnswer ==
  /\ reply # "none"
  /\ reply' = "none"
  /\ IF reply = "later" THEN UNCHANGED agentVars ELSE Answered
  /\ UNCHANGED <<late, serverVars, refused, crashes>>

\* The attempt ends without an answer (timeout, broken connection, server restart)
\* and is repeated after the backoff.
LoseAttempt ==
  /\ up /\ phase = "post"
  /\ IF Posted THEN late' = late \cup {head} ELSE UNCHANGED late
  /\ reply' = "none"
  /\ UNCHANGED <<agentVars, serverVars, refused, crashes>>

\* The process stops; the attempt it was waiting for may still arrive.
Stop ==
  /\ crashes < MaxCrashes
  /\ crashes' = crashes + 1
  /\ Crash \/ PowerLoss
  /\ late' = IF Posted THEN late \cup {head} ELSE late
  /\ reply' = "none"
  /\ UNCHANGED <<serverVars, refused>>

AgentStep ==
  /\ SequenceNext \/ EnqueueFails \/ Enqueue \/ Peek \/ Woken \/ Acknowledge \/ Start
  /\ UNCHANGED <<networkVars, serverVars, refused, crashes>>

Next ==
  \/ AgentStep
  \/ Ingest
  \/ \E n \in Numbers : ArriveLate(n)
  \/ DeliverAnswer
  \/ LoseAttempt
  \/ Stop

Spec == Init /\ [][Next]_vars

-----------------------------------------------------------------------------
(* Safety.                                                                 *)

Settled == stored \cup refused \cup lost

\* Sender.Run sleeps on the channel only while there is nothing to send: a report
\* in the spool comes with a token (spool.go:111, sender.go:44).
NoLostWakeup == up /\ phase = "wait" /\ dir # {} => wake

\* A 409 never takes away a report the server has not seen: whatever crashes, power
\* cuts, evictions and late attempts came before, a report called a replay was
\* stored, refused or evicted earlier ("a restart does not make valid traffic look
\* like a replay", ARCHITECTURE.md:66).
ReplayOnlyIfSettled == reply = "replay" => head \in Settled

\* The sender works in sequence order across restarts: while it posts a report,
\* every report measured before it is settled.
OldestFirst == phase = "post" => \A n \in measured : n < head => n \in Settled

\* A report whose Enqueue returned without error is durable on disk until the server
\* has settled it or the full spool evicted it: no power cut takes it.
DurableUntilSettled == \A n \in promised \ Settled : n \in dir \cap disk

\* While no crash happens a report leaves the spool unsettled only as the oldest of a
\* spool filled by newer ones (trimLocked), never by Acknowledge.
EvictsOnlyOldestWhenFull ==
  [][crashes' = crashes =>
       \A n \in dir \ dir' : \/ n \in Settled
                             \/ /\ \A m \in dir' : n < m
                                /\ Cardinality(dir') >= QueueSize]_vars

\* Sequence.Next never returns a number twice nor a lower one, whatever was lost of
\* the sequence file before (sequence.go:64-70).
SequenceNeverReused ==
  [][drawn' \notin {0, drawn} => \A n \in measured : n < drawn']_vars

\* Spool, retries and crashes keep the promises of the abstract report stream.
Stream == INSTANCE ReportStream
            WITH held <- dir \cup InHand, lost <- lost \cup refused

ImplementsReportStream == Stream!Spec

-----------------------------------------------------------------------------
(* Liveness.  The goroutines run, systemd restarts the agent, and of the   *)
(* attempts the sender repeats for ever some are answered for good.  The   *)
(* collector owes nothing.  Stops are bounded, syncs may always fail, but  *)
(* removing a file succeeds now and then: a file that can never be removed *)
(* is posted, answered 409 and kept for ever, and blocks all behind it.    *)

AgentOnly(A) == A /\ UNCHANGED <<networkVars, serverVars, refused, crashes>>

Removed == AgentOnly(Acknowledge) /\ head \notin dir'

AnsweredForGood == Ingest /\ reply' # "later"

HeardForGood == DeliverAnswer /\ reply # "later"

Fairness ==
  /\ WF_vars(AgentOnly(Start))
  /\ WF_vars(AgentOnly(Peek))
  /\ WF_vars(AgentOnly(Woken))
  /\ WF_vars(AgentOnly(Acknowledge))
  /\ SF_vars(Removed)
  /\ SF_vars(AnsweredForGood)
  /\ WF_vars(DeliverAnswer)
  /\ SF_vars(HeardForGood)

FairSpec == Spec /\ Fairness

\* A report that was accepted into the spool is eventually settled: stored, refused
\* by the server, or evicted by newer ones.
EventuallySettled == \A n \in Numbers : n \in promised ~> n \in Settled
=============================================================================
