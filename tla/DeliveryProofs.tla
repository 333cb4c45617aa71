---------------------------- MODULE DeliveryProofs ----------------------------
(***************************************************************************)
(* Proofs about Delivery for every counter width, spool capacity and       *)
(* number of stops.  IInv is the inductive invariant: where numbers come   *)
(* from (Counter), who answers for a measured report (Custody), in which   *)
(* order reports can reach the server (Order), and what is durable.        *)
(***************************************************************************)
EXTENDS Delivery, FiniteSetTheorems, WellFoundedInduction, TLAPS

-----------------------------------------------------------------------------
(* The inductive invariant.                                                *)

\* Every number given out is durable in the sequence file, and a running process
\* counts on from there.
Counter ==
  /\ \A n \in measured : n <= seqDisk
  /\ seqDisk <= seqFile
  /\ up => seqDisk <= seqValue

\* What the processes and the network hold are measured reports; the report in the
\* collector's hand is the newest.
Origin ==
  /\ dir \subseteq measured
  /\ disk \subseteq measured
  /\ late \subseteq measured
  /\ promised \subseteq measured
  /\ Settled \subseteq measured
  /\ lastSequence \in measured \cup {0}
  /\ phase \in {"post", "acknowledge"} => head \in measured
  /\ drawn # 0 => drawn \in measured /\ \A n \in measured : n <= drawn
  /\ ~up => phase = "peek" /\ drawn = 0
  /\ reply # "none" => phase = "post"

\* A measured report is in the spool, in the collector's hand, or settled; the sender
\* acknowledges only what is settled.
Custody ==
  /\ \A n \in measured : n \in dir \cup InHand \cup Settled
  /\ reply \in {"accepted", "replay", "refused"} => head \in Settled
  /\ phase = "acknowledge" => head \in Settled

\* Everything older than what the server has seen, or may still see, is settled.
Order ==
  /\ \A m \in late : \A n \in measured : n < m => n \in Settled
  /\ OldestFirst
  /\ \A n \in measured : n <= lastSequence => n \in Settled
  /\ \A n \in stored : n <= lastSequence

IInv ==
  /\ TypeOK
  /\ Counter
  /\ Origin
  /\ Custody
  /\ Order
  /\ DurableUntilSettled

-----------------------------------------------------------------------------
(* Numbers and operators.                                                  *)

\* Report numbers are positive naturals, 0 is the value that is none.
LEMMA NumbersLemma ==
  /\ Numbers \subseteq Nat /\ Numbers \subseteq Values
  /\ 0 \in Values /\ Values \subseteq Nat
  /\ \A v \in Values : v # 0 => v \in Numbers
BY ModulusAssumption DEF Numbers, Values

\* The counter's successor is one more, or 0 when it is exhausted.
LEMMA SuccLemma ==
  ASSUME NEW v \in Values, Succ(v) # 0
  PROVE  Succ(v) = v + 1 /\ Succ(v) \in Numbers
<1>1. CASE v + 1 = Modulus
  BY <1>1, ModulusAssumption DEF Succ, Values
<1>2. CASE v + 1 < Modulus
  BY <1>2, ModulusAssumption DEF Succ, Numbers, Values
<1>3. QED  BY <1>1, <1>2, ModulusAssumption DEF Values

\* Trimming keeps some of the files.
LEMMA TrimLemma ==
  ASSUME NEW files, NEW kept \in Trims(files)
  PROVE  kept \subseteq files /\ Newest(files) \subseteq files
BY DEF Trims, Newest

Less == {pair \in Nat \X Nat : pair[1] < pair[2]}

LEMMA LessLemma == IsWellFoundedOn(Less, Nat)
BY NatLessThanWellFounded DEF OpToRel, Less

\* A bounded set of numbers that is not empty has a greatest one.
LEMMA GreatestLemma ==
  ASSUME NEW limit \in Nat, NEW set \in SUBSET (0 .. limit), set # {}
  PROVE  \E greatest \in set : \A n \in set : n <= greatest
<1> DEFINE gaps == {limit - n : n \in set}
<1>1. gaps \subseteq Nat /\ gaps # {}
  <2>1. \A n \in set : limit - n \in Nat
    OBVIOUS
  <2>2. QED  BY <2>1
<1> HIDE DEF gaps
<1>2. PICK least \in gaps : \A gap \in gaps : <<gap, least>> \notin Less
  BY <1>1, LessLemma, WFMin
<1>3. ASSUME NEW gap \in gaps
      PROVE  least <= gap
  <2>1. gap \in Nat /\ least \in Nat
    BY <1>1
  <2>2. ~(gap < least)
    BY <1>2, <2>1 DEF Less
  <2>3. QED  BY <2>1, <2>2
<1>4. PICK greatest \in set : least = limit - greatest
  BY DEF gaps
<1>5. ASSUME NEW n \in set
      PROVE  n <= greatest
  <2>1. least <= limit - n
    BY <1>3 DEF gaps
  <2>2. n \in Nat /\ greatest \in Nat
    OBVIOUS
  <2>3. QED  BY <1>4, <2>1, <2>2
<1>6. QED  BY <1>5

\* What trimming removes is older than all that stays, and a full spool stays: the files
\* above the newest one removed stay, and there are QueueSize of them at least.
LEMMA EvictionLemma ==
  ASSUME NEW files \in SUBSET Numbers, NEW kept \in Trims(files), NEW n \in files \ kept
  PROVE  (\A m \in kept : n < m) /\ Cardinality(kept) >= QueueSize
<1>1. IsFiniteSet(kept) /\ kept \subseteq files
  <2>1. Modulus - 1 \in Int /\ Numbers \subseteq 0 .. Modulus - 1
    BY ModulusAssumption DEF Numbers, Values
  <2>2. IsFiniteSet(0 .. Modulus - 1)
    BY <2>1, FS_Interval
  <2>3. kept \in SUBSET (0 .. Modulus - 1)
    BY <2>1 DEF Trims
  <2>4. QED  BY <2>2, <2>3, FS_Subset DEF Trims
<1>2. PICK greatest \in files \ kept : \A m \in files \ kept : m <= greatest
  <2>1. Modulus - 1 \in Nat /\ Numbers \subseteq 0 .. Modulus - 1
    BY ModulusAssumption DEF Numbers, Values
  <2>2. files \ kept \in SUBSET (0 .. Modulus - 1) /\ files \ kept # {}
    BY <2>1
  <2>3. QED  BY <2>1, <2>2, GreatestLemma
<1>3. PICK newer : newer = {m \in files : m > greatest}
  OBVIOUS
<1>4. ~(Cardinality(newer) < QueueSize)
  BY <1>2, <1>3 DEF Trims, Newest
<1>5. newer \subseteq kept
  <2> SUFFICES ASSUME NEW m \in files, m > greatest
               PROVE  m \in kept
    BY <1>3
  <2>1. m \in Nat /\ greatest \in Nat
    BY <1>2, NumbersLemma
  <2>2. ~(m <= greatest)
    BY <2>1
  <2>3. QED  BY <1>2, <2>2
<1>6. /\ IsFiniteSet(newer) /\ Cardinality(newer) <= Cardinality(kept)
      /\ Cardinality(newer) \in Nat /\ Cardinality(kept) \in Nat
  BY <1>1, <1>5, FS_Subset, FS_CardinalityType
<1>7. Cardinality(kept) >= QueueSize
  BY <1>4, <1>6, QueueAssumption
<1>8. QED  BY <1>7 DEF Trims

-----------------------------------------------------------------------------
(* Every step keeps the invariant: one lemma per action.                   *)

USE DEF agentVars, sequenceVars, spoolVars, senderVars, historyVars,
        networkVars, serverVars, Settled, InHand

\* A step keeps the types; Zenon handles the two Boolean variables, SMT the rest.
LEMMA TypeStep == TypeOK /\ [Next]_vars => TypeOK'
<1> SUFFICES ASSUME TypeOK, [Next]_vars
             PROVE  TypeOK'
  OBVIOUS
<1>1. up' \in BOOLEAN /\ wake' \in BOOLEAN
  <2>1. CASE AgentOnly(SequenceNext)
    BY <2>1, Zenon DEF TypeOK, AgentTypeOK, AgentOnly, SequenceNext
  <2>2. CASE AgentOnly(EnqueueFails)
    BY <2>2, Zenon DEF TypeOK, AgentTypeOK, AgentOnly, EnqueueFails
  <2>3. CASE AgentOnly(Enqueue)
    BY <2>3, Zenon DEF TypeOK, AgentTypeOK, AgentOnly, Enqueue
  <2>4. CASE AgentOnly(Peek)
    BY <2>4, Zenon DEF TypeOK, AgentTypeOK, AgentOnly, Peek
  <2>5. CASE AgentOnly(Woken)
    BY <2>5, Zenon DEF TypeOK, AgentTypeOK, AgentOnly, Woken
  <2>6. CASE AgentOnly(Acknowledge)
    BY <2>6, Zenon DEF TypeOK, AgentTypeOK, AgentOnly, Acknowledge
  <2>7. CASE AgentOnly(Start)
    BY <2>7, Zenon DEF TypeOK, AgentTypeOK, AgentOnly, Start
  <2>8. CASE Ingest
    BY <2>8, Zenon DEF TypeOK, AgentTypeOK, Ingest, Posted, SaveReport
  <2>9. ASSUME NEW k \in Numbers, ArriveLate(k) PROVE  up' \in BOOLEAN /\ wake' \in BOOLEAN
    BY <2>9, Zenon DEF TypeOK, AgentTypeOK, ArriveLate, SaveReport
  <2>10. CASE DeliverAnswer
    BY <2>10, Zenon DEF TypeOK, AgentTypeOK, DeliverAnswer, Answered
  <2>11. CASE LoseAttempt
    BY <2>11, Zenon DEF TypeOK, AgentTypeOK, LoseAttempt, Posted
  <2>12. CASE Stop
    BY <2>12, Zenon DEF TypeOK, AgentTypeOK, Stop, Crash, PowerLoss, Halt, Posted
  <2>13. CASE UNCHANGED vars
    BY <2>13 DEF TypeOK, AgentTypeOK, vars
  <2> QED  BY <2>1, <2>2, <2>3, <2>4, <2>5, <2>6, <2>7, <2>8, <2>9, <2>10, <2>11, <2>12, <2>13
              DEF Next, AgentStep, AgentOnly
<1>2. QED
  <2>1. CASE AgentOnly(SequenceNext)
    BY <2>1, <1>1, SuccLemma, NumbersLemma
       DEF TypeOK, AgentTypeOK, Replies, AgentOnly, SequenceNext
  <2>2. CASE AgentOnly(EnqueueFails)
    BY <2>2, <1>1, NumbersLemma DEF TypeOK, AgentTypeOK, Replies, AgentOnly, EnqueueFails
  <2>3. CASE AgentOnly(Enqueue)
    <3>1. drawn \in Numbers
      BY <2>3, NumbersLemma DEF TypeOK, AgentTypeOK, AgentOnly, Enqueue
    <3>2. dir' \subseteq dir \cup {drawn} /\ disk' \subseteq disk \cup dir \cup {drawn}
      BY <2>3, TrimLemma DEF AgentOnly, Enqueue
    <3>3. promised' \subseteq promised \cup {drawn} /\ lost' \subseteq lost \cup dir \cup {drawn}
      BY <2>3 DEF AgentOnly, Enqueue
    <3> QED  BY <2>3, <1>1, <3>1, <3>2, <3>3, NumbersLemma
                DEF TypeOK, AgentTypeOK, AgentOnly, Enqueue
  <2>4. CASE AgentOnly(Peek)
    BY <2>4, <1>1, NumbersLemma DEF TypeOK, AgentTypeOK, Replies, AgentOnly, Peek
  <2>5. CASE AgentOnly(Woken)
    BY <2>5, <1>1, NumbersLemma DEF TypeOK, AgentTypeOK, Replies, AgentOnly, Woken
  <2>6. CASE AgentOnly(Acknowledge)
    BY <2>6, <1>1, NumbersLemma DEF TypeOK, AgentTypeOK, Replies, AgentOnly, Acknowledge
  <2>7. CASE AgentOnly(Start)
    BY <2>7, <1>1, TrimLemma, NumbersLemma DEF TypeOK, AgentTypeOK, Replies, AgentOnly, Start
  <2>8. CASE Ingest
    <3>1. head \in Numbers
      BY <2>8 DEF TypeOK, AgentTypeOK, Ingest, Posted
    <3>2. CASE SaveReport(head)
      BY <2>8, <1>1, <3>1, <3>2, NumbersLemma
         DEF TypeOK, AgentTypeOK, Replies, Ingest, SaveReport
    <3>3. CASE UNCHANGED serverVars
      BY <2>8, <1>1, <3>1, <3>3, NumbersLemma DEF TypeOK, AgentTypeOK, Replies, Ingest
    <3> QED  BY <2>8, <3>2, <3>3 DEF Ingest
  <2>9. ASSUME NEW k \in Numbers, ArriveLate(k) PROVE  TypeOK'
    BY <2>9, <1>1, NumbersLemma DEF TypeOK, AgentTypeOK, Replies, ArriveLate, SaveReport
  <2>10. CASE DeliverAnswer
    BY <2>10, <1>1, NumbersLemma DEF TypeOK, AgentTypeOK, Replies, DeliverAnswer, Answered
  <2>11. CASE LoseAttempt
    <3>1. late' \subseteq late \cup {head} /\ head \in Numbers
      BY <2>11 DEF TypeOK, AgentTypeOK, LoseAttempt
    <3> QED  BY <2>11, <1>1, <3>1 DEF TypeOK, AgentTypeOK, Replies, LoseAttempt
  <2>12. CASE Stop
    <3>1. late' \subseteq Numbers
      BY <2>12 DEF TypeOK, AgentTypeOK, Stop, Posted
    <3>2. crashes' \in 0 .. MaxCrashes
      BY <2>12, CrashAssumption DEF TypeOK, Stop
    <3>3. CASE Crash
      BY <2>12, <1>1, <3>1, <3>2, <3>3, NumbersLemma
         DEF TypeOK, AgentTypeOK, Replies, Stop, Crash, Halt
    <3>4. CASE PowerLoss
      BY <2>12, <1>1, <3>1, <3>2, <3>4, NumbersLemma
         DEF TypeOK, AgentTypeOK, Replies, Stop, PowerLoss, Halt
    <3> QED  BY <2>12, <3>3, <3>4 DEF Stop
  <2>13. CASE UNCHANGED vars
    BY <2>13, <1>1 DEF TypeOK, AgentTypeOK, vars
  <2> QED  BY <2>1, <2>2, <2>3, <2>4, <2>5, <2>6, <2>7, <2>8, <2>9, <2>10, <2>11, <2>12, <2>13
              DEF Next, AgentStep, AgentOnly

\* A new number is above all measured ones, so it is behind nothing already sent.
LEMMA SequenceNextInv ==
  ASSUME IInv, TypeOK', AgentOnly(SequenceNext)
  PROVE  IInv'
<1>a. Succ(seqValue) = seqValue + 1 /\ Succ(seqValue) \in Numbers
  BY SuccLemma DEF IInv, TypeOK, AgentTypeOK, AgentOnly, SequenceNext
<1>b. \A n \in measured : n < Succ(seqValue)
  BY <1>a, NumbersLemma DEF IInv, TypeOK, AgentTypeOK, Counter, AgentOnly, SequenceNext
<1>c. measured' \subseteq measured \cup {Succ(seqValue)} /\ measured \subseteq measured'
  BY DEF AgentOnly, SequenceNext
<1>1. Counter'
  BY <1>a, NumbersLemma DEF IInv, TypeOK, AgentTypeOK, Counter, AgentOnly, SequenceNext
<1>2. Origin'
  BY <1>a, <1>b, <1>c, NumbersLemma
     DEF IInv, TypeOK, AgentTypeOK, Origin, AgentOnly, SequenceNext
<1>3. Custody'
  BY <1>a, NumbersLemma DEF IInv, TypeOK, AgentTypeOK, Origin, Custody, AgentOnly, SequenceNext
<1>4. Order'
  <2>1. \A m \in measured : ~(Succ(seqValue) < m) /\ Succ(seqValue) \notin measured
    BY <1>a, <1>b, NumbersLemma DEF IInv, TypeOK, AgentTypeOK
  <2>2. ~(Succ(seqValue) <= lastSequence)
    BY <1>a, <1>b, NumbersLemma DEF IInv, TypeOK, AgentTypeOK, Origin
  <2>3. Settled' = Settled /\ UNCHANGED <<late, phase, head, lastSequence, stored>>
    BY DEF AgentOnly, SequenceNext
  <2> QED  BY <1>c, <2>1, <2>2, <2>3 DEF IInv, Origin, Order, OldestFirst
<1>5. DurableUntilSettled'
  BY <1>a, NumbersLemma
     DEF IInv, TypeOK, AgentTypeOK, Origin, Custody, DurableUntilSettled, AgentOnly, SequenceNext
<1> QED  BY <1>1, <1>2, <1>3, <1>4, <1>5 DEF IInv

\* The report in the collector's hand is given up.
LEMMA EnqueueFailsInv ==
  ASSUME IInv, TypeOK', AgentOnly(EnqueueFails)
  PROVE  IInv'
<1>1. Counter'
  BY NumbersLemma DEF IInv, TypeOK, AgentTypeOK, Counter, AgentOnly, EnqueueFails
<1>2. Origin'
  BY NumbersLemma DEF IInv, TypeOK, AgentTypeOK, Origin, AgentOnly, EnqueueFails
<1>3. Custody'
  BY NumbersLemma DEF IInv, TypeOK, AgentTypeOK, Origin, Custody, AgentOnly, EnqueueFails
<1>4. Order'
  BY NumbersLemma
     DEF IInv, TypeOK, AgentTypeOK, Origin, Custody, Order, OldestFirst, AgentOnly, EnqueueFails
<1>5. DurableUntilSettled'
  BY NumbersLemma
     DEF IInv, TypeOK, AgentTypeOK, Origin, Custody, DurableUntilSettled, AgentOnly, EnqueueFails
<1> QED  BY <1>1, <1>2, <1>3, <1>4, <1>5 DEF IInv

\* The report moves from the collector's hand into the spool, evicted files are lost.
LEMMA EnqueueInv ==
  ASSUME IInv, TypeOK', AgentOnly(Enqueue)
  PROVE  IInv'
<1>1. Counter'
  BY TrimLemma, NumbersLemma DEF IInv, TypeOK, AgentTypeOK, Counter, AgentOnly, Enqueue
<1>2. Origin'
  BY TrimLemma, NumbersLemma DEF IInv, TypeOK, AgentTypeOK, Origin, AgentOnly, Enqueue
<1>3. Custody'
  BY TrimLemma, NumbersLemma DEF IInv, TypeOK, AgentTypeOK, Origin, Custody, AgentOnly, Enqueue
<1>4. Order'
  BY TrimLemma, NumbersLemma
     DEF IInv, TypeOK, AgentTypeOK, Origin, Custody, Order, OldestFirst, AgentOnly, Enqueue
<1>5. DurableUntilSettled'
  BY TrimLemma, NumbersLemma
     DEF IInv, TypeOK, AgentTypeOK, Origin, Custody, DurableUntilSettled, AgentOnly, Enqueue
<1> QED  BY <1>1, <1>2, <1>3, <1>4, <1>5 DEF IInv

\* The oldest file of the spool: everything older that was measured is settled.
LEMMA PeekInv ==
  ASSUME IInv, TypeOK', AgentOnly(Peek)
  PROVE  IInv'
<1>1. Counter'
  BY NumbersLemma DEF IInv, TypeOK, AgentTypeOK, Counter, AgentOnly, Peek
<1>2. Origin'
  BY NumbersLemma DEF IInv, TypeOK, AgentTypeOK, Origin, AgentOnly, Peek
<1>3. Custody'
  BY NumbersLemma DEF IInv, TypeOK, AgentTypeOK, Origin, Custody, AgentOnly, Peek
<1>4. Order'
  BY NumbersLemma
     DEF IInv, TypeOK, AgentTypeOK, Origin, Custody, Order, OldestFirst, AgentOnly, Peek
<1>5. DurableUntilSettled'
  BY NumbersLemma
     DEF IInv, TypeOK, AgentTypeOK, Origin, Custody, DurableUntilSettled, AgentOnly, Peek
<1> QED  BY <1>1, <1>2, <1>3, <1>4, <1>5 DEF IInv

\* Only the token is taken.
LEMMA WokenInv ==
  ASSUME IInv, TypeOK', AgentOnly(Woken)
  PROVE  IInv'
<1>1. Counter'
  BY NumbersLemma DEF IInv, TypeOK, AgentTypeOK, Counter, AgentOnly, Woken
<1>2. Origin'
  BY NumbersLemma DEF IInv, TypeOK, AgentTypeOK, Origin, AgentOnly, Woken
<1>3. Custody'
  BY NumbersLemma DEF IInv, TypeOK, AgentTypeOK, Origin, Custody, AgentOnly, Woken
<1>4. Order'
  BY NumbersLemma
     DEF IInv, TypeOK, AgentTypeOK, Origin, Custody, Order, OldestFirst, AgentOnly, Woken
<1>5. DurableUntilSettled'
  BY NumbersLemma
     DEF IInv, TypeOK, AgentTypeOK, Origin, Custody, DurableUntilSettled, AgentOnly, Woken
<1> QED  BY <1>1, <1>2, <1>3, <1>4, <1>5 DEF IInv

\* Only a settled report is removed.
LEMMA AcknowledgeInv ==
  ASSUME IInv, TypeOK', AgentOnly(Acknowledge)
  PROVE  IInv'
<1>1. Counter'
  BY NumbersLemma DEF IInv, TypeOK, AgentTypeOK, Counter, AgentOnly, Acknowledge
<1>2. Origin'
  BY NumbersLemma DEF IInv, TypeOK, AgentTypeOK, Origin, AgentOnly, Acknowledge
<1>3. Custody'
  BY NumbersLemma DEF IInv, TypeOK, AgentTypeOK, Origin, Custody, AgentOnly, Acknowledge
<1>4. Order'
  BY NumbersLemma
     DEF IInv, TypeOK, AgentTypeOK, Origin, Custody, Order, OldestFirst, AgentOnly, Acknowledge
<1>5. DurableUntilSettled'
  BY NumbersLemma
     DEF IInv, TypeOK, AgentTypeOK, Origin, Custody, DurableUntilSettled, AgentOnly, Acknowledge
<1> QED  BY <1>1, <1>2, <1>3, <1>4, <1>5 DEF IInv

\* The counter restarts from the file; the trim evicts.
LEMMA StartInv ==
  ASSUME IInv, TypeOK', AgentOnly(Start)
  PROVE  IInv'
<1>1. Counter'
  BY TrimLemma, NumbersLemma DEF IInv, TypeOK, AgentTypeOK, Counter, AgentOnly, Start
<1>2. Origin'
  BY TrimLemma, NumbersLemma DEF IInv, TypeOK, AgentTypeOK, Origin, AgentOnly, Start
<1>3. Custody'
  BY TrimLemma, NumbersLemma DEF IInv, TypeOK, AgentTypeOK, Origin, Custody, AgentOnly, Start
<1>4. Order'
  BY TrimLemma, NumbersLemma
     DEF IInv, TypeOK, AgentTypeOK, Origin, Custody, Order, OldestFirst, AgentOnly, Start
<1>5. DurableUntilSettled'
  BY TrimLemma, NumbersLemma
     DEF IInv, TypeOK, AgentTypeOK, Origin, Custody, DurableUntilSettled, AgentOnly, Start
<1> QED  BY <1>1, <1>2, <1>3, <1>4, <1>5 DEF IInv

\* The server stores the oldest unsettled report, refuses it or calls it a replay.
LEMMA IngestInv ==
  ASSUME IInv, TypeOK', Ingest
  PROVE  IInv'
<1>1. Counter'
  BY NumbersLemma DEF IInv, TypeOK, AgentTypeOK, Counter, Ingest, Posted, SaveReport
<1>2. Origin'
  BY NumbersLemma DEF IInv, TypeOK, AgentTypeOK, Origin, Ingest, Posted, SaveReport
<1>3. Custody'
  BY NumbersLemma
     DEF IInv, TypeOK, AgentTypeOK, Origin, Custody, Order, Ingest, Posted, SaveReport
<1>4. Order'
  BY NumbersLemma
     DEF IInv, TypeOK, AgentTypeOK, Origin, Custody, Order, OldestFirst, Ingest, Posted, SaveReport
<1>5. DurableUntilSettled'
  BY NumbersLemma
     DEF IInv, TypeOK, AgentTypeOK, Origin, Custody, DurableUntilSettled, Ingest, Posted, SaveReport
<1> QED  BY <1>1, <1>2, <1>3, <1>4, <1>5 DEF IInv

\* An abandoned attempt stores a report whose elders are settled.
LEMMA ArriveLateInv ==
  ASSUME IInv, TypeOK', NEW k \in Numbers, ArriveLate(k)
  PROVE  IInv'
<1>1. Counter'
  BY NumbersLemma DEF IInv, TypeOK, AgentTypeOK, Counter, ArriveLate, SaveReport
<1>2. Origin'
  BY NumbersLemma DEF IInv, TypeOK, AgentTypeOK, Origin, ArriveLate, SaveReport
<1>3. Custody'
  BY NumbersLemma DEF IInv, TypeOK, AgentTypeOK, Origin, Custody, ArriveLate, SaveReport
<1>4. Order'
  BY NumbersLemma
     DEF IInv, TypeOK, AgentTypeOK, Origin, Custody, Order, OldestFirst, ArriveLate, SaveReport
<1>5. DurableUntilSettled'
  BY NumbersLemma
     DEF IInv, TypeOK, AgentTypeOK, Origin, Custody, DurableUntilSettled, ArriveLate, SaveReport
<1> QED  BY <1>1, <1>2, <1>3, <1>4, <1>5 DEF IInv

\* A final answer comes for a settled report.
LEMMA DeliverAnswerInv ==
  ASSUME IInv, TypeOK', DeliverAnswer
  PROVE  IInv'
<1>1. Counter'
  BY NumbersLemma DEF IInv, TypeOK, AgentTypeOK, Counter, Replies, DeliverAnswer, Answered
<1>2. Origin'
  BY NumbersLemma DEF IInv, TypeOK, AgentTypeOK, Origin, Replies, DeliverAnswer, Answered
<1>3. Custody'
  BY NumbersLemma
     DEF IInv, TypeOK, AgentTypeOK, Origin, Custody, Replies, DeliverAnswer, Answered
<1>4. Order'
  BY NumbersLemma
     DEF IInv, TypeOK, AgentTypeOK, Origin, Custody, Order, OldestFirst, Replies, DeliverAnswer, Answered
<1>5. DurableUntilSettled'
  BY NumbersLemma
     DEF IInv, TypeOK, AgentTypeOK, Origin, Custody, DurableUntilSettled, Replies, DeliverAnswer, Answered
<1> QED  BY <1>1, <1>2, <1>3, <1>4, <1>5 DEF IInv

\* The attempt stays in the network as a late one.
LEMMA LoseAttemptInv ==
  ASSUME IInv, TypeOK', LoseAttempt
  PROVE  IInv'
<1>1. Counter'
  BY NumbersLemma DEF IInv, TypeOK, AgentTypeOK, Counter, LoseAttempt, Posted
<1>2. Origin'
  BY NumbersLemma DEF IInv, TypeOK, AgentTypeOK, Origin, LoseAttempt, Posted
<1>3. Custody'
  BY NumbersLemma DEF IInv, TypeOK, AgentTypeOK, Origin, Custody, LoseAttempt, Posted
<1>4. Order'
  BY NumbersLemma
     DEF IInv, TypeOK, AgentTypeOK, Origin, Custody, Order, OldestFirst, LoseAttempt, Posted
<1>5. DurableUntilSettled'
  BY NumbersLemma
     DEF IInv, TypeOK, AgentTypeOK, Origin, Custody, DurableUntilSettled, LoseAttempt, Posted
<1> QED  BY <1>1, <1>2, <1>3, <1>4, <1>5 DEF IInv

\* Memory is lost, unsynced changes may be.
LEMMA StopInv ==
  ASSUME IInv, TypeOK', Stop
  PROVE  IInv'
<1>1. Counter'
  BY NumbersLemma DEF IInv, TypeOK, AgentTypeOK, Counter, Stop, Crash, PowerLoss, Halt, Posted
<1>2. Origin'
  BY NumbersLemma DEF IInv, TypeOK, AgentTypeOK, Origin, Stop, Crash, PowerLoss, Halt, Posted
<1>3. Custody'
  BY NumbersLemma
     DEF IInv, TypeOK, AgentTypeOK, Origin, Custody, Stop, Crash, PowerLoss, Halt, Posted
<1>4. Order'
  BY NumbersLemma
     DEF IInv, TypeOK, AgentTypeOK, Origin, Custody, Order, OldestFirst, Stop, Crash, PowerLoss, Halt, Posted
<1>5. DurableUntilSettled'
  BY NumbersLemma
     DEF IInv, TypeOK, AgentTypeOK, Origin, Custody, DurableUntilSettled, Stop, Crash, PowerLoss, Halt, Posted
<1> QED  BY <1>1, <1>2, <1>3, <1>4, <1>5 DEF IInv

\* Nothing changes.
LEMMA StutterInv ==
  ASSUME IInv, TypeOK', UNCHANGED vars
  PROVE  IInv'
<1>1. Counter'
  BY NumbersLemma DEF IInv, TypeOK, AgentTypeOK, Counter, vars
<1>2. Origin'
  BY NumbersLemma DEF IInv, TypeOK, AgentTypeOK, Origin, vars
<1>3. Custody'
  BY NumbersLemma DEF IInv, TypeOK, AgentTypeOK, Origin, Custody, vars
<1>4. Order'
  BY NumbersLemma DEF IInv, TypeOK, AgentTypeOK, Origin, Custody, Order, OldestFirst, vars
<1>5. DurableUntilSettled'
  BY NumbersLemma DEF IInv, TypeOK, AgentTypeOK, Origin, Custody, DurableUntilSettled, vars
<1> QED  BY <1>1, <1>2, <1>3, <1>4, <1>5 DEF IInv

-----------------------------------------------------------------------------
(* The theorems.                                                           *)

\* The initial state has the declared types.
LEMMA TypeInit == Init => TypeOK
<1>1. Init => up \in BOOLEAN /\ wake \in BOOLEAN
  BY Zenon DEF Init, AgentInit
<1>2. Init => crashes \in 0 .. MaxCrashes
  BY CrashAssumption DEF Init
<1>3. QED
  BY <1>1, <1>2, NumbersLemma DEF Init, AgentInit, TypeOK, AgentTypeOK, Replies

\* Every state has the declared types: counters, spool, sender and server.
THEOREM TypeCorrect == Spec => []TypeOK
BY TypeInit, TypeStep, PTL DEF Spec

\* IInv is inductive: it holds at the start and every step keeps it.
THEOREM Invariance == Spec => []IInv
<1>1. Init => IInv
  <2>1. Init => TypeOK
    BY TypeInit
  <2> QED
    BY <2>1 DEF Init, AgentInit, IInv, Counter, Origin, Custody, Order, OldestFirst,
                DurableUntilSettled
<1>2. IInv /\ [Next]_vars => IInv'
  <2> SUFFICES ASSUME IInv, [Next]_vars
               PROVE  IInv'
    OBVIOUS
  <2>1. TypeOK'
    BY TypeStep DEF IInv
  <2>2. CASE AgentStep
    BY <2>1, <2>2, SequenceNextInv, EnqueueFailsInv, EnqueueInv, PeekInv, WokenInv,
       AcknowledgeInv, StartInv DEF AgentStep, AgentOnly
  <2>3. CASE Next /\ ~AgentStep
    BY <2>1, <2>3, IngestInv, ArriveLateInv, DeliverAnswerInv, LoseAttemptInv, StopInv
    DEF Next
  <2>4. CASE UNCHANGED vars
    BY <2>1, <2>4, StutterInv
  <2> QED  BY <2>2, <2>3, <2>4
<1>3. QED  BY <1>1, <1>2, PTL DEF Spec

\* A report the server calls a replay was stored, refused or evicted before: a 409
\* never loses a report, whatever stopped and whatever arrived late.
THEOREM ReplaySafety == Spec => []ReplayOnlyIfSettled
<1>1. IInv => ReplayOnlyIfSettled
  BY DEF IInv, Custody, ReplayOnlyIfSettled
<1>2. QED  BY <1>1, Invariance, PTL

\* The sender posts a report only when every older one is settled.
THEOREM DeliveryOrder == Spec => []OldestFirst
<1>1. IInv => OldestFirst
  BY DEF IInv, Order
<1>2. QED  BY <1>1, Invariance, PTL

\* A report whose Enqueue succeeded survives every power cut until it is settled.
THEOREM Durability == Spec => []DurableUntilSettled
<1>1. IInv => DurableUntilSettled
  BY DEF IInv
<1>2. QED  BY <1>1, Invariance, PTL

\* The sender never sleeps on the channel while the spool holds a report: Enqueue
\* leaves a token, and only the sender takes it, before it looks again.
THEOREM Wakefulness == Spec => []NoLostWakeup
<1>1. Init => NoLostWakeup
  BY DEF Init, AgentInit, NoLostWakeup
<1>2. NoLostWakeup /\ IInv /\ [Next]_vars => NoLostWakeup'
  <2> SUFFICES ASSUME NoLostWakeup, IInv, [Next]_vars
               PROVE  NoLostWakeup'
    OBVIOUS
  <2>1. CASE AgentOnly(SequenceNext) \/ AgentOnly(EnqueueFails)
    BY <2>1 DEF NoLostWakeup, AgentOnly, SequenceNext, EnqueueFails
  <2>2. CASE AgentOnly(Enqueue)
    BY <2>2 DEF NoLostWakeup, AgentOnly, Enqueue
  <2>3. CASE AgentOnly(Peek)
    BY <2>3 DEF NoLostWakeup, AgentOnly, Peek
  <2>4. CASE AgentOnly(Woken)
    BY <2>4 DEF NoLostWakeup, AgentOnly, Woken
  <2>5. CASE AgentOnly(Acknowledge)
    BY <2>5 DEF NoLostWakeup, AgentOnly, Acknowledge
  <2>6. CASE AgentOnly(Start)
    BY <2>6 DEF NoLostWakeup, IInv, Origin, AgentOnly, Start
  <2>7. CASE Ingest \/ LoseAttempt \/ \E n \in Numbers : ArriveLate(n)
    BY <2>7 DEF NoLostWakeup, Ingest, LoseAttempt, ArriveLate
  <2>10. CASE DeliverAnswer
    <3>1. phase' = "acknowledge" \/ UNCHANGED agentVars
      BY <2>10, Zenon DEF DeliverAnswer, Answered
    <3> QED  BY <3>1 DEF NoLostWakeup
  <2>8. CASE Stop
    BY <2>8 DEF NoLostWakeup, Stop, Crash, PowerLoss, Halt
  <2>9. CASE UNCHANGED vars
    BY <2>9 DEF NoLostWakeup, vars
  <2> QED
    BY <2>1, <2>2, <2>3, <2>4, <2>5, <2>6, <2>7, <2>8, <2>9, <2>10
    DEF Next, AgentStep, AgentOnly
<1>3. QED  BY <1>1, <1>2, Invariance, PTL DEF Spec

\* Sequence.Next gives out only numbers above all it gave out before, over crashes,
\* power cuts and failed syncs of the sequence file.
THEOREM FreshNumbers == Spec => SequenceNeverReused
<1>1. IInv /\ [Next]_vars
      => [drawn' \notin {0, drawn} => \A n \in measured : n < drawn']_vars
  <2> SUFFICES ASSUME IInv, [Next]_vars, drawn' \notin {0, drawn}
               PROVE  \A n \in measured : n < drawn'
    OBVIOUS
  <2>1. AgentOnly(SequenceNext)
    BY DEF Next, AgentStep, AgentOnly, EnqueueFails, Enqueue, Peek, Woken, Acknowledge,
           Start, Ingest, ArriveLate, DeliverAnswer, Answered, LoseAttempt, Stop, Crash,
           PowerLoss, Halt, vars
  <2>2. drawn' = seqValue + 1
    BY <2>1, SuccLemma DEF IInv, TypeOK, AgentTypeOK, AgentOnly, SequenceNext
  <2> QED
    BY <2>1, <2>2, NumbersLemma
    DEF IInv, TypeOK, AgentTypeOK, Counter, AgentOnly, SequenceNext
<1>2. QED  BY <1>1, Invariance, PTL DEF Spec, SequenceNeverReused

\* While nothing stops, a report leaves the spool settled, or as one of the oldest of a
\* spool that newer reports fill (trimLocked).
THEOREM EvictsOldest == Spec => EvictsOnlyOldestWhenFull
<1>1. IInv /\ [Next]_vars
      => [crashes' = crashes =>
            \A n \in dir \ dir' : \/ n \in Settled
                                  \/ /\ \A m \in dir' : n < m
                                     /\ Cardinality(dir') >= QueueSize]_vars
  <2> SUFFICES ASSUME IInv, [Next]_vars, crashes' = crashes, NEW n \in dir \ dir'
               PROVE  \/ n \in Settled
                      \/ (\A m \in dir' : n < m) /\ Cardinality(dir') >= QueueSize
    OBVIOUS
  <2>1. dir \subseteq Numbers /\ crashes \in Nat
    BY CrashAssumption DEF IInv, TypeOK, AgentTypeOK
  <2>2. Enqueue \/ Acknowledge \/ Start
    <3>1. ~Stop
      BY <2>1 DEF Stop
    <3>2. QED
      BY <3>1 DEF Next, AgentStep, SequenceNext, EnqueueFails, Peek, Woken, Ingest, ArriveLate,
                  DeliverAnswer, Answered, LoseAttempt, vars
  <2>3. CASE Enqueue
    <3>1. drawn \in Numbers
      BY <2>3, NumbersLemma DEF Enqueue, IInv, TypeOK, AgentTypeOK
    <3>2. PICK files : files = dir \cup {drawn} /\ (dir' = files \/ dir' \in Trims(files))
      BY <2>3 DEF Enqueue
    <3>3. files \in SUBSET Numbers /\ n \in files \ dir'
      BY <2>1, <3>1, <3>2
    <3>4. dir' \in Trims(files)
      BY <3>2, <3>3
    <3>5. QED  BY <3>3, <3>4, EvictionLemma
  <2>4. CASE Acknowledge
    BY <2>4 DEF Acknowledge, IInv, Custody
  <2>5. CASE Start
    BY <2>1, <2>5, EvictionLemma DEF Start
  <2> QED  BY <2>2, <2>3, <2>4, <2>5
<1>2. QED  BY <1>1, Invariance, PTL DEF Spec, EvictsOnlyOldestWhenFull

\* A step that neither measures nor stores gives up or releases reports in the
\* abstract stream: custody before and after it says that nothing else can be missing.
LEMMA ReleaseLemma ==
  ASSUME IInv, IInv', UNCHANGED <<measured, stored>>,
         lost \cup refused \subseteq (lost \cup refused)'
  PROVE  Stream!Release
<1>1. \E reports \in SUBSET measured : (lost \cup refused)' = (lost \cup refused) \cup reports
  <2>1. (lost \cup refused)' \in SUBSET measured
    BY DEF IInv, Origin
  <2> QED  BY <2>1
<1>2. (dir \cup InHand)' \subseteq (dir \cup InHand) \cup Settled
  BY DEF IInv, Origin, Custody
<1>3. (dir \cup InHand) \ (dir \cup InHand)' \subseteq Settled'
  BY DEF IInv, Origin, Custody
<1> QED  BY <1>1, <1>2, <1>3 DEF Stream!Release, Stream!Settled

\* SaveReport of a report whose elders are settled stores it in the abstract stream.
LEMMA StoreLemma ==
  ASSUME IInv, NEW n \in measured, SaveReport(n),
         \A m \in measured : m < n => m \in Settled,
         UNCHANGED <<measured, dir, drawn, lost, refused>>
  PROVE  Stream!Store(n)
<1>1. \A m \in stored : m < n
  BY NumbersLemma DEF IInv, TypeOK, AgentTypeOK, Order, SaveReport
<1> QED  BY <1>1 DEF SaveReport, Stream!Store, Stream!Settled

\* Delivery implements the abstract stream: whatever stops, fails, is lost or comes
\* late, numbers and history grow upwards, no report is stored while an older one is
\* still to come, and none leaves the agent unsettled.
THEOREM Implementation == Spec => ImplementsReportStream
<1>1. Init => Stream!Init
  BY DEF Init, AgentInit, Stream!Init
<1>2. IInv /\ IInv' /\ [Next]_vars => [Stream!Next]_Stream!vars
  <2> SUFFICES ASSUME IInv, IInv', [Next]_vars
               PROVE  Stream!Next \/ UNCHANGED Stream!vars
    BY DEF Stream!vars
  <2>1. CASE AgentOnly(SequenceNext)
    <3>1. CASE UNCHANGED <<drawn, measured>>
      BY <2>1, <3>1 DEF AgentOnly, SequenceNext, Stream!vars
    <3>2. CASE measured' = measured \cup {drawn'} /\ drawn' = Succ(seqValue)
      <4>1. drawn' = seqValue + 1 /\ drawn' \in Numbers
        BY <2>1, <3>2, SuccLemma DEF IInv, TypeOK, AgentTypeOK, AgentOnly, SequenceNext
      <4>2. \A n \in measured : n < drawn'
        BY <2>1, <4>1, NumbersLemma
        DEF IInv, TypeOK, AgentTypeOK, Counter, AgentOnly, SequenceNext
      <4>3. (dir \cup InHand)' = (dir \cup InHand) \cup {drawn'}
        BY <2>1, <4>1 DEF AgentOnly, SequenceNext, Numbers
      <4>4. Stream!Measure(drawn')
        BY <2>1, <3>2, <4>2, <4>3 DEF AgentOnly, SequenceNext, Stream!Measure
      <4> QED  BY <4>1, <4>4 DEF Stream!Next
    <3> QED  BY <2>1, <3>1, <3>2 DEF AgentOnly, SequenceNext
  <2>2. CASE \/ AgentOnly(EnqueueFails) \/ AgentOnly(Enqueue) \/ AgentOnly(Peek)
             \/ AgentOnly(Woken) \/ AgentOnly(Acknowledge) \/ AgentOnly(Start)
    <3>1. UNCHANGED <<measured, stored>> /\ lost \cup refused \subseteq (lost \cup refused)'
      BY <2>2 DEF AgentOnly, EnqueueFails, Enqueue, Peek, Woken, Acknowledge, Start
    <3> QED  BY <3>1, ReleaseLemma DEF Stream!Next
  <2>3. CASE Ingest
    <3>1. CASE SaveReport(head) /\ UNCHANGED refused
      <4>1. Stream!Store(head)
        BY <2>3, <3>1, StoreLemma DEF Ingest, Posted, IInv, Origin, Order, OldestFirst
      <4>2. head \in Numbers
        BY <2>3 DEF Ingest, Posted, IInv, TypeOK, AgentTypeOK
      <4> QED  BY <4>1, <4>2 DEF Stream!Next
    <3>2. CASE UNCHANGED serverVars
      <4>1. UNCHANGED <<measured, stored>> /\ lost \cup refused \subseteq (lost \cup refused)'
        BY <2>3, <3>2 DEF Ingest
      <4> QED  BY <4>1, ReleaseLemma DEF Stream!Next
    <3> QED  BY <2>3, <3>1, <3>2 DEF Ingest
  <2>4. ASSUME NEW k \in Numbers, ArriveLate(k)
        PROVE  Stream!Next \/ UNCHANGED Stream!vars
    <3>1. CASE SaveReport(k)
      <4>1. k \in measured /\ \A m \in measured : m < k => m \in Settled
        BY <2>4 DEF ArriveLate, IInv, Origin, Order
      <4>2. Stream!Store(k)
        BY <2>4, <3>1, <4>1, StoreLemma DEF ArriveLate
      <4> QED  BY <4>2 DEF Stream!Next
    <3>2. CASE UNCHANGED serverVars
      BY <2>4, <3>2 DEF ArriveLate, Stream!vars
    <3> QED  BY <2>4, <3>1, <3>2 DEF ArriveLate
  <2>5. CASE DeliverAnswer
    <3>1. UNCHANGED <<dir, drawn, measured, stored, lost, refused>>
      BY <2>5, Zenon DEF DeliverAnswer, Answered
    <3> QED  BY <3>1 DEF Stream!vars
  <2>6. CASE LoseAttempt \/ UNCHANGED vars
    BY <2>6 DEF LoseAttempt, vars, Stream!vars
  <2>7. CASE Stop
    <3>1. UNCHANGED <<measured, stored>> /\ lost \cup refused \subseteq (lost \cup refused)'
      BY <2>7 DEF Stop, Crash, PowerLoss, Halt
    <3> QED  BY <3>1, ReleaseLemma DEF Stream!Next
  <2> QED
    BY <2>1, <2>2, <2>3, <2>4, <2>5, <2>6, <2>7 DEF Next, AgentStep, AgentOnly
<1>3. QED
  BY <1>1, <1>2, Invariance, PTL DEF Spec, ImplementsReportStream, Stream!Spec
=============================================================================
