----------------------------- MODULE UpdateProofs -----------------------------
(***************************************************************************)
(* Proofs about Update for every pair of schemas and every bound.  They    *)
(* rest on where the script stands: which binary is installed, whether the *)
(* server is down, and which database it leaves for the next start.        *)
(***************************************************************************)
EXTENDS Update, TLAPS

-----------------------------------------------------------------------------
(* The invariant.                                                          *)

\* A running server is the installed one, and the script changes binary and database only
\* while it is stopped.
Phases ==
  /\ server.pc # "down" => server.binary = installed
  /\ script.pc \in {"install", "start"} \cup (Undoes \ {"undo stop"}) => server.pc = "down"
  /\ script.pc \in Prepares \cup {"aborted", "install"} => installed = "old"
  /\ script.pc \in {"undo database", "undo log", "undo start"} => installed = "old"
  /\ script.pc \in {"start", "poll", "done"} => installed = "new"

\* Until the new release starts the schema is the old one, in the backup as well, and the
\* old release is only started on it.
Schemas ==
  /\ script.pc \in Prepares \cup {"aborted", "install"} => db.schema = OldSchema
  /\ script.pc \notin {"begin", "backup", "aborted"} => backup.schema = OldSchema
  /\ installed = "old" /\ server.pc # "down" => db.schema = OldSchema

\* The backup has what was acknowledged before it, and a rollback starts the server on it.
Copies ==
  /\ backup.reports = 1 .. saved
  /\ script.pc \in {"undo log", "undo start"} => db = backup
  /\ script.pc = "undo start" => ~wal

IInv ==
  /\ TypeOK /\ Phases /\ Schemas /\ Copies
  /\ SchemaFitsBinary /\ RestoredAlone /\ LosesOnlySinceBackup

-----------------------------------------------------------------------------
(* Steps.                                                                  *)

\* What is at least the upper limit of its range is the limit, and no number is below itself.
LEMMA LimitLemma ==
  /\ \A a, b \in Nat : \A s \in a .. b : s >= b => s = b
  /\ \A n \in Nat : ~(n < n)
  OBVIOUS

\* One more number.
LEMMA NextLemma == \A n \in Nat : 1 .. n + 1 = (1 .. n) \cup {n + 1}
  OBVIOUS

\* The counters are numbers within their bounds.
LEMMA CounterLemma ==
  ASSUME TypeOK
  PROVE  /\ reported \in Nat /\ reported <= MaxReports /\ saved \in Nat /\ saved <= reported
         /\ crashes \in Nat /\ crashes <= MaxCrashes /\ signals \in Nat /\ signals <= MaxSignals
  BY UpdateAssumption DEF TypeOK

\* A server that is not down has a binary, and migrates no further than it knows.
LEMMA ServerLemma ==
  ASSUME TypeOK
  PROVE  /\ server.pc = "down" => server = Down
         /\ server.pc # "down" => server \in [pc : {"failed", "migrate", "ready"}, binary : {"old", "new"}]
         /\ Target(server.binary) \in 0 .. NewSchema
  BY UpdateAssumption DEF TypeOK, Down, Target

\* The database is a record of a schema and of acknowledged reports.
LEMMA DatabaseLemma ==
  ASSUME TypeOK
  PROVE  /\ db = [schema |-> db.schema, reports |-> db.reports]
         /\ db.schema \in OldSchema .. NewSchema
         /\ db.reports \subseteq 1 .. reported /\ db.reports \subseteq 1 .. MaxReports
  BY UpdateAssumption DEF TypeOK, Databases

\* A step keeps the types.
LEMMA TypeStep == TypeOK /\ Schemas /\ [Next]_vars => TypeOK'
<1> SUFFICES ASSUME TypeOK, Schemas, [Next]_vars
             PROVE  TypeOK'
  OBVIOUS
<1> USE UpdateAssumption DEF Down, Prepares, Updates, Undoes, Ended
<1>1. CASE Migrate
  <2>1. db' = [schema |-> db.schema + 1, reports |-> db.reports]
    BY <1>1, DatabaseLemma DEF Migrate
  <2>2. db.schema < Target(server.binary)
    BY <1>1 DEF Migrate
  <2>3. db.schema + 1 \in OldSchema .. NewSchema
    BY <2>2, DatabaseLemma, ServerLemma
  <2>4. db' \in Databases /\ db'.schema >= OldSchema /\ db'.reports \subseteq 1 .. reported
    BY <2>1, <2>3, DatabaseLemma DEF Databases
  <2>5. UNCHANGED <<works, script, installed, server, wal, mixed, backup, saved, reported, crashes, signals>>
    BY <1>1 DEF Migrate
  <2>6. QED  BY <2>4, <2>5 DEF TypeOK
<1>2. CASE Listen
  <2>1. server' \in [pc : {"failed", "ready"}, binary : {"old", "new"}]
    BY <1>2, ServerLemma DEF Listen
  <2>2. QED  BY <1>2, <2>1 DEF Listen, TypeOK
<1>3. CASE SystemdRestarts
  BY <1>3 DEF SystemdRestarts, Started, TypeOK
<1>4. CASE AcceptReport
  <2>1. db' = [schema |-> db.schema, reports |-> db.reports \cup {reported + 1}]
    BY <1>4, DatabaseLemma DEF AcceptReport
  <2>2. reported' = reported + 1 /\ reported < MaxReports
    BY <1>4 DEF AcceptReport
  <2>3. reported' \in 0 .. MaxReports /\ 1 .. reported \subseteq 1 .. reported' /\ saved \in 0 .. reported'
    BY <2>2, CounterLemma
  <2>4. reported + 1 \in 1 .. MaxReports /\ reported + 1 \in 1 .. reported'
    BY <2>2, CounterLemma
  <2>5. db' \in Databases /\ db'.schema >= OldSchema /\ db'.reports \subseteq 1 .. reported'
    BY <2>1, <2>3, <2>4, DatabaseLemma DEF Databases
  <2>6. UNCHANGED <<works, script, installed, server, wal, mixed, backup, saved, crashes, signals>>
    BY <1>4 DEF AcceptReport
  <2>7. QED  BY <2>3, <2>5, <2>6 DEF TypeOK
<1>5. CASE Crash
  <2>1. server' \in [pc : {"failed"}, binary : {"old", "new"}]
    BY <1>5, ServerLemma DEF Crash
  <2>2. crashes' = crashes + 1 /\ crashes < MaxCrashes
    BY <1>5 DEF Crash
  <2>3. crashes' \in 0 .. MaxCrashes
    BY <2>2, CounterLemma
  <2>4. UNCHANGED <<works, script, installed, db, wal, mixed, backup, saved, reported, signals>>
    BY <1>5 DEF Crash
  <2>5. QED  BY <2>1, <2>3, <2>4 DEF TypeOK
<1>6. CASE CopyBinary
  BY <1>6 DEF CopyBinary, Goes, TypeOK
<1>7. CASE BackupDatabase
  <2>1. script' = [pc |-> "stop", trap |-> "none"]
    BY <1>7 DEF BackupDatabase, Goes, TypeOK
  <2>2. backup' = db /\ saved' = reported
    BY <1>7 DEF BackupDatabase
  <2>3. saved' \in 0 .. reported
    BY <2>2, CounterLemma
  <2>4. UNCHANGED <<works, installed, server, db, wal, mixed, reported, crashes, signals>>
    BY <1>7 DEF BackupDatabase
  <2>5. QED  BY <2>1, <2>2, <2>3, <2>4 DEF TypeOK
<1>8. CASE Abort
  BY <1>8 DEF Abort, TypeOK
<1>9. CASE StopServer
  BY <1>9 DEF StopServer, Goes, Stopped, TypeOK
<1>10. CASE InstallNew
  BY <1>10 DEF InstallNew, Goes, TypeOK
<1>11. CASE StartNew
  BY <1>11 DEF StartNew, Goes, Started, TypeOK
<1>12. CASE PollReady
  BY <1>12 DEF PollReady, Goes, TypeOK
<1>13. CASE Fail
  BY <1>13 DEF Fail, TypeOK
<1>14. CASE Signal
  <2>1. /\ script' \in [pc : Undoes \cup Ended, trap : {"none", "signal", "exit"}]
        /\ script'.pc \in Undoes <=> script'.trap # "none"
    BY <1>14 DEF Signal, TypeOK
  <2>2. signals' = signals + 1 /\ signals < MaxSignals
    BY <1>14 DEF Signal
  <2>3. signals' \in 0 .. MaxSignals
    BY <2>2, CounterLemma
  <2>4. UNCHANGED <<works, installed, server, db, wal, mixed, backup, saved, reported, crashes>>
    BY <1>14 DEF Signal
  <2>5. QED  BY <2>1, <2>3, <2>4 DEF TypeOK
<1>15. CASE UndoStop
  BY <1>15 DEF UndoStop, Goes, Stopped, TypeOK
<1>16. CASE UndoInstall
  BY <1>16 DEF UndoInstall, Goes, TypeOK
<1>17. CASE UndoDatabase
  <2>1. db' = backup /\ backup.schema = OldSchema
    BY <1>17 DEF UndoDatabase, Goes, Schemas
  <2>2. /\ script' \in [pc : Undoes, trap : {"none", "signal", "exit"}]
        /\ script'.pc \in Undoes <=> script'.trap # "none"
    BY <1>17 DEF UndoDatabase, Goes, TypeOK
  <2>3. UNCHANGED <<works, installed, server, wal, mixed, backup, saved, reported, crashes, signals>>
    BY <1>17 DEF UndoDatabase
  <2>4. db' \in Databases /\ db'.reports \subseteq 1 .. reported /\ backup.reports \subseteq 1 .. reported
    BY <2>1 DEF TypeOK
  <2>5. db'.schema >= OldSchema
    BY <2>1, UpdateAssumption
  <2>6. QED  BY <2>2, <2>3, <2>4, <2>5 DEF TypeOK
<1>18. CASE UndoLog
  BY <1>18 DEF UndoLog, Goes, TypeOK
<1>19. CASE UndoStart
  BY <1>19 DEF UndoStart, Started, TypeOK
<1>20. CASE UNCHANGED vars
  BY <1>20 DEF vars, TypeOK
<1>21. QED
  BY <1>1, <1>2, <1>3, <1>4, <1>5, <1>6, <1>7, <1>8, <1>9, <1>10, <1>11, <1>12, <1>13, <1>14,
     <1>15, <1>16, <1>17, <1>18, <1>19, <1>20 DEF Next, ServerStep, ScriptStep

\* A step keeps binary, server and script together.
LEMMA PhaseStep == TypeOK /\ Phases /\ [Next]_vars => Phases'
<1> SUFFICES ASSUME TypeOK, Phases, [Next]_vars
             PROVE  Phases'
  OBVIOUS
<1> USE UpdateAssumption DEF TypeOK, Phases, Down, Prepares, Updates, Undoes, Ended
<1>1. CASE Migrate
  BY <1>1 DEF Migrate
<1>2. CASE Listen
  BY <1>2 DEF Listen
<1>3. CASE SystemdRestarts
  BY <1>3 DEF SystemdRestarts, Started
<1>4. CASE AcceptReport
  BY <1>4 DEF AcceptReport
<1>5. CASE Crash
  BY <1>5 DEF Crash
<1>6. CASE CopyBinary
  BY <1>6 DEF CopyBinary, Goes
<1>7. CASE BackupDatabase
  BY <1>7 DEF BackupDatabase, Goes
<1>8. CASE Abort
  BY <1>8 DEF Abort
<1>9. CASE StopServer
  BY <1>9 DEF StopServer, Goes, Stopped
<1>10. CASE InstallNew
  BY <1>10 DEF InstallNew, Goes
<1>11. CASE StartNew
  BY <1>11 DEF StartNew, Goes, Started
<1>12. CASE PollReady
  BY <1>12 DEF PollReady, Goes
<1>13. CASE Fail
  BY <1>13 DEF Fail
<1>14. CASE Signal
  BY <1>14 DEF Signal
<1>15. CASE UndoStop
  BY <1>15 DEF UndoStop, Goes, Stopped
<1>16. CASE UndoInstall
  BY <1>16 DEF UndoInstall, Goes
<1>17. CASE UndoDatabase
  BY <1>17 DEF UndoDatabase, Goes
<1>18. CASE UndoLog
  BY <1>18 DEF UndoLog, Goes
<1>19. CASE UndoStart
  BY <1>19 DEF UndoStart, Started
<1>20. CASE UNCHANGED vars
  BY <1>20 DEF vars
<1>21. QED
  BY <1>1, <1>2, <1>3, <1>4, <1>5, <1>6, <1>7, <1>8, <1>9, <1>10, <1>11, <1>12, <1>13, <1>14,
     <1>15, <1>16, <1>17, <1>18, <1>19, <1>20 DEF Next, ServerStep, ScriptStep

\* A step keeps the old release on the old schema: nothing migrates under it.
LEMMA SchemaStep == TypeOK /\ Phases /\ Schemas /\ Copies /\ [Next]_vars => Schemas'
<1> SUFFICES ASSUME TypeOK, Phases, Schemas, Copies, [Next]_vars
             PROVE  Schemas'
  OBVIOUS
<1> USE UpdateAssumption DEF TypeOK, Phases, Schemas, Target, Databases, Down, Prepares, Updates, Undoes, Ended
<1>1. CASE Migrate
  <2>1. server.binary = installed /\ installed \in {"old", "new"}
    BY <1>1 DEF Migrate
  <2>2. installed = "old" => db.schema = OldSchema /\ Target(server.binary) = OldSchema
    BY <1>1, <2>1 DEF Migrate
  <2>3. db.schema < Target(server.binary)
    BY <1>1, Zenon DEF Migrate
  <2>4. ~(OldSchema < OldSchema)
    BY UpdateAssumption, LimitLemma, Zenon
  <2>5. installed = "new"
    BY <2>1, <2>2, <2>3, <2>4, Zenon
  <2>6. QED  BY <1>1, <2>5 DEF Migrate
<1>2. CASE Listen
  BY <1>2 DEF Listen
<1>3. CASE SystemdRestarts
  BY <1>3 DEF SystemdRestarts, Started
<1>4. CASE AcceptReport
  BY <1>4 DEF AcceptReport
<1>5. CASE Crash
  BY <1>5 DEF Crash
<1>6. CASE CopyBinary
  BY <1>6 DEF CopyBinary, Goes
<1>7. CASE BackupDatabase
  BY <1>7 DEF BackupDatabase, Goes
<1>8. CASE Abort
  BY <1>8 DEF Abort
<1>9. CASE StopServer
  BY <1>9 DEF StopServer, Goes, Stopped
<1>10. CASE InstallNew
  BY <1>10 DEF InstallNew, Goes
<1>11. CASE StartNew
  BY <1>11 DEF StartNew, Goes, Started
<1>12. CASE PollReady
  BY <1>12 DEF PollReady, Goes
<1>13. CASE Fail
  BY <1>13 DEF Fail
<1>14. CASE Signal
  BY <1>14 DEF Signal
<1>15. CASE UndoStop
  BY <1>15 DEF UndoStop, Goes, Stopped
<1>16. CASE UndoInstall
  BY <1>16 DEF UndoInstall, Goes
<1>17. CASE UndoDatabase
  BY <1>17 DEF UndoDatabase, Goes
<1>18. CASE UndoLog
  BY <1>18 DEF UndoLog, Goes
<1>19. CASE UndoStart
  <2>1. db.schema = OldSchema
    BY <1>19 DEF UndoStart, Copies
  <2>2. QED  BY <1>19, <2>1 DEF UndoStart, Started
<1>20. CASE UNCHANGED vars
  BY <1>20 DEF vars
<1>21. QED
  BY <1>1, <1>2, <1>3, <1>4, <1>5, <1>6, <1>7, <1>8, <1>9, <1>10, <1>11, <1>12, <1>13, <1>14,
     <1>15, <1>16, <1>17, <1>18, <1>19, <1>20 DEF Next, ServerStep, ScriptStep

\* A step keeps the backup complete and the rollback faithful to it.
LEMMA CopyStep == TypeOK /\ Phases /\ Copies /\ LosesOnlySinceBackup /\ [Next]_vars => Copies'
<1> SUFFICES ASSUME TypeOK, Phases, Copies, LosesOnlySinceBackup, [Next]_vars
             PROVE  Copies'
  OBVIOUS
<1> USE UpdateAssumption DEF TypeOK, Phases, Copies, LosesOnlySinceBackup, Down, Prepares, Updates, Undoes, Ended
<1>1. CASE Migrate
  BY <1>1 DEF Migrate
<1>2. CASE Listen
  BY <1>2 DEF Listen
<1>3. CASE SystemdRestarts
  BY <1>3 DEF SystemdRestarts, Started
<1>4. CASE AcceptReport
  BY <1>4 DEF AcceptReport
<1>5. CASE Crash
  BY <1>5 DEF Crash
<1>6. CASE CopyBinary
  BY <1>6 DEF CopyBinary, Goes
<1>7. CASE BackupDatabase
  BY <1>7 DEF BackupDatabase, Goes
<1>8. CASE Abort
  BY <1>8 DEF Abort
<1>9. CASE StopServer
  BY <1>9 DEF StopServer, Goes, Stopped
<1>10. CASE InstallNew
  BY <1>10 DEF InstallNew, Goes
<1>11. CASE StartNew
  BY <1>11 DEF StartNew, Goes, Started
<1>12. CASE PollReady
  BY <1>12 DEF PollReady, Goes
<1>13. CASE Fail
  BY <1>13 DEF Fail
<1>14. CASE Signal
  BY <1>14 DEF Signal
<1>15. CASE UndoStop
  BY <1>15 DEF UndoStop, Goes, Stopped
<1>16. CASE UndoInstall
  BY <1>16 DEF UndoInstall, Goes
<1>17. CASE UndoDatabase
  BY <1>17 DEF UndoDatabase, Goes
<1>18. CASE UndoLog
  BY <1>18 DEF UndoLog, Goes
<1>19. CASE UndoStart
  BY <1>19 DEF UndoStart, Started
<1>20. CASE UNCHANGED vars
  BY <1>20 DEF vars
<1>21. QED
  BY <1>1, <1>2, <1>3, <1>4, <1>5, <1>6, <1>7, <1>8, <1>9, <1>10, <1>11, <1>12, <1>13, <1>14,
     <1>15, <1>16, <1>17, <1>18, <1>19, <1>20 DEF Next, ServerStep, ScriptStep

\* A step of the invariant keeps the properties.
LEMMA SafetyStep == IInv /\ [Next]_vars => SchemaFitsBinary' /\ RestoredAlone' /\ LosesOnlySinceBackup'
<1> SUFFICES ASSUME IInv, [Next]_vars
             PROVE  SchemaFitsBinary' /\ RestoredAlone' /\ LosesOnlySinceBackup'
  OBVIOUS
<1> USE UpdateAssumption DEF IInv, SchemaFitsBinary, RestoredAlone, LosesOnlySinceBackup, TypeOK,
       Schemas, Phases, Copies, Down, Prepares, Updates, Undoes, Ended
<1>1. CASE Migrate
  <2>1. db'.reports = db.reports
    BY <1>1, DatabaseLemma DEF Migrate
  <2>2. QED  BY <1>1, <2>1 DEF Migrate
<1>2. CASE Listen
  <2>1. server'.pc = "ready" => server' = [pc |-> "ready", binary |-> server.binary]
    BY <1>2 DEF Listen
  <2>2. CASE server.binary = "old"
    <3>1. db.schema = Target(server.binary)
      BY <1>2, <2>2 DEF Listen, Target
    <3>2. QED  BY <1>2, <2>1, <2>2, <3>1 DEF Listen
  <2>3. CASE server.binary = "new"
    <3>1. db.schema \in OldSchema .. NewSchema /\ db.schema >= NewSchema
      BY <1>2, <2>3, DatabaseLemma DEF Listen, Target
    <3>2. db.schema = Target(server.binary)
      BY <2>3, <3>1, UpdateAssumption, LimitLemma DEF Target
    <3>3. QED  BY <1>2, <2>1, <2>3, <3>2 DEF Listen
  <2>4. QED  BY <1>2, <2>2, <2>3, ServerLemma DEF Listen
<1>3. CASE SystemdRestarts
  BY <1>3 DEF SystemdRestarts, Started
<1>4. CASE AcceptReport
  <2>1. db' = [schema |-> db.schema, reports |-> db.reports \cup {reported + 1}]
    BY <1>4, DatabaseLemma DEF AcceptReport
  <2>2. 1 .. reported + 1 = (1 .. reported) \cup {reported + 1}
    BY CounterLemma, NextLemma, Zenon
  <2>3. QED  BY <1>4, <2>1, <2>2 DEF AcceptReport
<1>5. CASE Crash
  BY <1>5 DEF Crash
<1>6. CASE CopyBinary
  BY <1>6 DEF CopyBinary, Goes
<1>7. CASE BackupDatabase
  BY <1>7 DEF BackupDatabase, Goes
<1>8. CASE Abort
  BY <1>8 DEF Abort
<1>9. CASE StopServer
  BY <1>9 DEF StopServer, Goes, Stopped
<1>10. CASE InstallNew
  BY <1>10 DEF InstallNew, Goes
<1>11. CASE StartNew
  BY <1>11 DEF StartNew, Goes, Started
<1>12. CASE PollReady
  BY <1>12 DEF PollReady, Goes
<1>13. CASE Fail
  BY <1>13 DEF Fail
<1>14. CASE Signal
  BY <1>14 DEF Signal
<1>15. CASE UndoStop
  BY <1>15 DEF UndoStop, Goes, Stopped
<1>16. CASE UndoInstall
  BY <1>16 DEF UndoInstall, Goes
<1>17. CASE UndoDatabase
  BY <1>17 DEF UndoDatabase, Goes
<1>18. CASE UndoLog
  BY <1>18 DEF UndoLog, Goes
<1>19. CASE UndoStart
  BY <1>19 DEF UndoStart, Started
<1>20. CASE UNCHANGED vars
  BY <1>20 DEF vars
<1>21. QED
  BY <1>1, <1>2, <1>3, <1>4, <1>5, <1>6, <1>7, <1>8, <1>9, <1>10, <1>11, <1>12, <1>13, <1>14,
     <1>15, <1>16, <1>17, <1>18, <1>19, <1>20 DEF Next, ServerStep, ScriptStep

-----------------------------------------------------------------------------
(* Theorems.                                                               *)

\* The invariant holds at first.
LEMMA Initially == Init => IInv
<1> SUFFICES ASSUME Init PROVE IInv
  OBVIOUS
<1> USE UpdateAssumption DEF Init
<1>1. 1 .. 0 = {}
  OBVIOUS
<1>2. db = [schema |-> OldSchema, reports |-> {}] /\ backup = [schema |-> 0, reports |-> {}]
  OBVIOUS
<1>3. OldSchema \in 0 .. NewSchema /\ 0 \in 0 .. NewSchema
  OBVIOUS
<1>4. db \in Databases /\ backup \in Databases /\ db.schema >= OldSchema
  BY <1>2, <1>3 DEF Databases
<1>5. TypeOK
  <2>1. works \in BOOLEAN /\ mixed \in BOOLEAN /\ wal \in BOOLEAN
    BY Zenon
  <2>2. /\ script \in [pc : {"begin"}, trap : {"none"}] /\ script.pc = "begin" /\ script.trap = "none"
        /\ server \in [pc : {"ready"}, binary : {"old"}]
    OBVIOUS
  <2>3. /\ reported \in 0 .. MaxReports /\ saved \in 0 .. reported
        /\ crashes \in 0 .. MaxCrashes /\ signals \in 0 .. MaxSignals
    OBVIOUS
  <2>4. db.reports \subseteq 1 .. reported /\ backup.reports \subseteq 1 .. reported
    BY <1>2
  <2>5. installed \in {"old", "new"}
    OBVIOUS
  <2> HIDE DEF Init
  <2>6. QED  BY <1>4, <2>1, <2>2, <2>3, <2>4, <2>5 DEF TypeOK, Prepares, Updates, Undoes, Ended
<1>6. Phases /\ Schemas /\ Copies
  BY <1>1, <1>2 DEF Phases, Schemas, Copies, Prepares, Undoes
<1>7. SchemaFitsBinary /\ RestoredAlone /\ LosesOnlySinceBackup
  BY <1>1, <1>2 DEF SchemaFitsBinary, RestoredAlone, LosesOnlySinceBackup, Target, Undoes
<1>8. QED  BY <1>5, <1>6, <1>7 DEF IInv

\* The inductive invariant holds in every state.
THEOREM Invariance == Spec => []IInv
<1>1. Init => IInv
  BY Initially
<1>2. IInv /\ [Next]_vars => IInv'
  BY TypeStep, PhaseStep, SchemaStep, CopyStep, SafetyStep DEF IInv
<1>3. QED
  BY <1>1, <1>2, PTL DEF Spec

\* Every variable keeps its type, whatever schemas the releases have.
THEOREM TypeCorrect == Spec => []TypeOK
  BY Invariance, PTL DEF IInv

\* No release works on the schema of the other one, whichever command fails, is
\* interrupted or is repeated, and wherever the server is killed (update.sh:68-94).
THEOREM Fits == Spec => []SchemaFitsBinary
  BY Invariance, PTL DEF IInv

\* No backup is opened with another database's log (update.sh:85).
THEOREM Alone == Spec => []RestoredAlone
  BY Invariance, PTL DEF IInv

\* Reports acknowledged before the backup stay, later ones are lost by a rollback only
\* (update.sh:63, update.sh:83).
THEOREM Loses == Spec => []LosesOnlySinceBackup
  BY Invariance, PTL DEF IInv
==============================================================================
