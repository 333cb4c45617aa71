-------------------------------- MODULE Agent --------------------------------
(***************************************************************************)
(* The agent process (cmd/agent, internal/agent): the persistent sequence  *)
(* counter, the on-disk spool, the collector loop that numbers and spools  *)
(* reports, and the sender goroutine that drains the spool.                *)
(*                                                                         *)
(* Every directory has two views: what processes see (seqFile, dir) and    *)
(* what survives a power cut (seqDisk, disk).  A directory sync makes the  *)
(* second equal to the first; a step whose sync fails stands also for a    *)
(* crash between the change and its sync.  The spool's mutex makes each of *)
(* Enqueue, Peek and Acknowledge one step for the other goroutine.         *)
(***************************************************************************)
EXTENDS Integers, FiniteSets

CONSTANTS
  Modulus,   \* the counter is a uint64: arithmetic is modulo 2^64 in the code
  QueueSize  \* capacity of the spool

ASSUME ModulusAssumption == Modulus \in Nat /\ Modulus > 1
ASSUME QueueAssumption == QueueSize \in Nat \ {0}

VARIABLES
  up,        \* the process runs
  seqFile,   \* content of the sequence file, 0 when absent
  seqDisk,   \* its durable content
  seqValue,  \* Sequence.value
  dir,       \* numbers of the committed files in the spool directory
  disk,      \* those whose directory entry is durable
  wake,      \* the buffered wake channel holds a token
  drawn,     \* the collector holds a report with this number, 0 for none
  phase,     \* the sender: peeking, waiting for a wake-up, posting, acknowledging
  head,      \* the number of the report the sender holds, 0 for none
  measured,  \* history: numbers Sequence.Next returned
  promised,  \* history: numbers for which Enqueue returned no error
  lost       \* history: evicted, never buffered, or cut off before durable

sequenceVars == <<seqFile, seqDisk, seqValue>>
spoolVars == <<dir, disk>>
senderVars == <<phase, head>>
historyVars == <<measured, promised, lost>>
agentVars == <<up, sequenceVars, spoolVars, wake, drawn, senderVars, historyVars>>

\* What the counter can hold, and the values of it a report can have.
Values == 0 .. Modulus - 1

Numbers == Values \ {0}

AgentTypeOK ==
  /\ up \in BOOLEAN
  /\ seqFile \in Values
  /\ seqDisk \in Values
  /\ seqValue \in Values
  /\ dir \subseteq Numbers
  /\ disk \subseteq Numbers
  /\ wake \in BOOLEAN
  /\ drawn \in Values
  /\ phase \in {"peek", "wait", "post", "acknowledge"}
  /\ head \in IF phase \in {"post", "acknowledge"} THEN Numbers ELSE {0}
  /\ measured \subseteq Numbers
  /\ promised \subseteq Numbers
  /\ lost \subseteq Numbers

AgentInit ==
  /\ up = FALSE
  /\ seqFile = 0 /\ seqDisk = 0 /\ seqValue = 0
  /\ dir = {} /\ disk = {}
  /\ wake = FALSE
  /\ drawn = 0
  /\ phase = "peek" /\ head = 0
  /\ measured = {} /\ promised = {} /\ lost = {}

-----------------------------------------------------------------------------
(* The collector: sequence.Next, then spool.Enqueue.                       *)

\* Mutant: the counter is taken to be unbounded.
SuccUnbounded(value) == value + 1

\* uint64 addition.
Succ(value) == (value + 1) % Modulus

\* Mutant: the counter is taken into memory and used before it is on disk.
SequenceNextUnsynced ==
  /\ up /\ drawn = 0
  /\ Succ(seqValue) # 0
  /\ seqFile' = Succ(seqValue)
  /\ seqValue' = Succ(seqValue)
  /\ drawn' = Succ(seqValue)
  /\ measured' = measured \cup {drawn'}
  /\ UNCHANGED <<up, seqDisk, spoolVars, wake, senderVars, promised, lost>>

\* The successor is written and synced before memory takes it: with a failed
\* directory sync the file is ahead and no number is returned.  Errors before the
\* file is replaced, and an exhausted counter, change nothing.
SequenceNext ==
  /\ up /\ drawn = 0
  /\ Succ(seqValue) # 0
  /\ seqFile' = Succ(seqValue)
  /\ \/ /\ seqDisk' = seqFile' /\ seqValue' = seqFile' /\ drawn' = seqFile'
        /\ measured' = measured \cup {drawn'}
     \/ UNCHANGED <<seqDisk, seqValue, drawn, measured>>
  /\ UNCHANGED <<up, spoolVars, wake, senderVars, promised, lost>>

\* Mutant: the spool is trimmed to one file less than its capacity.
NewestButOne(files) ==
  {n \in files : Cardinality({m \in files : m > n}) < QueueSize - 1}

\* What listLocked and the capacity leave: the QueueSize newest files.
Newest(files) == {n \in files : Cardinality({m \in files : m > n}) < QueueSize}

\* trimLocked removes the oldest files one at a time and stops at a failed removal.
Trims(files) ==
  {kept \in SUBSET files : /\ Newest(files) \subseteq kept
                           /\ \A n \in files \ kept, m \in kept : n < m}

\* Enqueue fails before its rename: the report in hand is gone, its number used.
EnqueueFails ==
  /\ up /\ drawn # 0
  /\ lost' = lost \cup {drawn}
  /\ drawn' = 0
  /\ UNCHANGED <<up, sequenceVars, spoolVars, wake, senderVars, measured, promised>>

\* Mutant: Enqueue forgets to wake the sender.
EnqueueSilently ==
  /\ up /\ drawn # 0 /\ drawn \notin dir
  /\ drawn' = 0
  /\ dir' = Newest(dir \cup {drawn}) /\ disk' = dir'
  /\ promised' = promised \cup {drawn}
  /\ lost' = lost \cup ((dir \cup {drawn}) \ dir')
  /\ UNCHANGED <<up, sequenceVars, wake, senderVars, measured>>

\* Mutant: Enqueue reports success without syncing the directory.
EnqueueUnsynced ==
  /\ up /\ drawn # 0 /\ drawn \notin dir
  /\ drawn' = 0 /\ wake' = TRUE
  /\ dir' = Newest(dir \cup {drawn})
  /\ promised' = promised \cup {drawn}
  /\ lost' = lost \cup ((dir \cup {drawn}) \ dir')
  /\ UNCHANGED <<up, sequenceVars, disk, senderVars, measured>>

\* The report is committed by rename and the sender woken; then the directory is
\* synced and the spool trimmed.  Each of these may fail after the commit: a failed
\* sync skips the trim, and a failed or unsynced eviction is reported as an error.
Enqueue ==
  /\ up /\ drawn # 0 /\ drawn \notin dir
  /\ drawn' = 0
  /\ wake' = TRUE
  /\ LET files == dir \cup {drawn} IN
       \/ /\ dir' = files
          /\ UNCHANGED <<disk, promised, lost>>
       \/ /\ dir' \in Trims(files)
          /\ \/ disk' = files /\ UNCHANGED promised
             \/ /\ dir' = Newest(files)
                /\ disk' = dir'
                /\ promised' = promised \cup {drawn}
          /\ lost' = lost \cup (files \ dir')
  /\ UNCHANGED <<up, sequenceVars, senderVars, measured>>

-----------------------------------------------------------------------------
(* The sender.                                                             *)

\* Mutant: the sender takes any report, not the oldest.
PeekAny ==
  /\ up /\ phase = "peek"
  /\ \/ dir = {} /\ phase' = "wait" /\ UNCHANGED head
     \/ \E n \in dir : head' = n /\ phase' = "post"
  /\ UNCHANGED <<up, sequenceVars, spoolVars, wake, drawn, historyVars>>

\* The sender takes the report with the lowest number, or waits on the channel.
\* A Peek that fails is repeated after five seconds and changes nothing.
Peek ==
  /\ up /\ phase = "peek"
  /\ \/ dir = {} /\ phase' = "wait" /\ UNCHANGED head
     \/ \E n \in dir : /\ \A m \in dir : n <= m
                       /\ head' = n /\ phase' = "post"
  /\ UNCHANGED <<up, sequenceVars, spoolVars, wake, drawn, historyVars>>

Woken ==
  /\ up /\ phase = "wait" /\ wake
  /\ wake' = FALSE
  /\ phase' = "peek"
  /\ UNCHANGED <<up, sequenceVars, spoolVars, drawn, head, historyVars>>

\* sendWithRetry returned: a success or a permanent error, which Run both acknowledge.
Answered ==
  /\ up /\ phase = "post"
  /\ phase' = "acknowledge"
  /\ UNCHANGED <<up, sequenceVars, spoolVars, wake, drawn, head, historyVars>>

\* The file is removed (it may be gone already) and the directory synced; Run logs
\* an error of either and goes on to the next Peek.
Acknowledge ==
  /\ up /\ phase = "acknowledge"
  /\ \/ UNCHANGED spoolVars
     \/ dir' = dir \ {head} /\ disk' \in {disk, dir'}
  /\ phase' = "peek" /\ head' = 0
  /\ UNCHANGED <<up, sequenceVars, wake, drawn, historyVars>>

-----------------------------------------------------------------------------
(* The life of the process.                                                *)

\* What a stop (SIGTERM or a kill at any point) takes from memory.
Halt ==
  /\ up' = FALSE
  /\ seqValue' = 0
  /\ wake' = FALSE
  /\ drawn' = 0
  /\ phase' = "peek" /\ head' = 0
  /\ UNCHANGED <<measured, promised>>

InHand == {drawn} \ {0}

Crash ==
  /\ up
  /\ Halt
  /\ lost' = lost \cup InHand
  /\ UNCHANGED <<seqFile, seqDisk, spoolVars>>

\* A power cut keeps of every unsynced change what it happens to have written.
PowerLoss ==
  /\ Halt
  /\ seqFile' \in {seqFile, seqDisk} /\ seqDisk' = seqFile'
  /\ \E written \in SUBSET (dir \cup disk) :
       dir' = (dir \cap disk) \cup written
  /\ disk' = dir'
  /\ lost' = lost \cup InHand \cup (dir \ dir')

\* main: NewSequence reads the file, NewSpool syncs the directory after removing
\* temporary files and trims; an error of the trim ends the process again.
Start ==
  /\ ~up
  /\ dir' \in Trims(dir)
  /\ lost' = lost \cup (dir \ dir')
  /\ \/ /\ dir' = Newest(dir) /\ disk' = dir'
        /\ up' = TRUE
        /\ seqValue' = seqFile
     \/ disk' = dir /\ UNCHANGED <<up, seqValue>>
  /\ UNCHANGED <<seqFile, seqDisk, wake, drawn, senderVars, measured, promised>>
=============================================================================
