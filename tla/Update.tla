-------------------------------- MODULE Update --------------------------------
(***************************************************************************)
(* An update of the server: scripts/update.sh with its rollback trap, the  *)
(* unit systemd keeps alive, what the server does before it listens        *)
(* (cmd/server/main.go, Store.Open), and the agents' reports it accepts    *)
(* meanwhile.  Migrations go forward only, so a release that fails has to  *)
(* be undone together with its database.                                   *)
(***************************************************************************)
EXTENDS Integers

CONSTANTS
  OldSchema, NewSchema,  \* migrations the two releases know
  MaxReports,            \* bound: reports
  MaxCrashes,            \* bound: crashes of the server
  MaxSignals             \* bound: signals to the script

ASSUME UpdateAssumption ==
  /\ OldSchema \in Nat /\ NewSchema \in Nat /\ OldSchema <= NewSchema
  /\ MaxReports \in Nat /\ MaxCrashes \in Nat /\ MaxSignals \in Nat

VARIABLES
  works,      \* the new release becomes ready when it is started
  script,     \* [pc, trap]: the next command, and the trap that runs
  installed,  \* the installed binary, "old" or "new"
  server,     \* the unit: [pc, binary]
  db,         \* [schema, reports]: the database as a server that opens it finds it
  wal,        \* a write-ahead log may lie beside the database file
  mixed,      \* a server opened the backup's file with another database's log
  backup,     \* the release directory's copy of the database
  saved,      \* history: number of the last report acknowledged before that copy
  reported,   \* number of the last acknowledged report
  crashes, signals

vars == <<works, script, installed, server, db, wal, mixed, backup, saved, reported, crashes, signals>>

Databases == [schema : 0 .. NewSchema, reports : SUBSET (1 .. MaxReports)]
Target(binary) == IF binary = "old" THEN OldSchema ELSE NewSchema
Down == [pc |-> "down", binary |-> "none"]

Prepares == {"begin", "backup", "stop"}
Updates == {"install", "start", "poll"}
Undoes == {"undo stop", "undo install", "undo database", "undo log", "undo start"}
Ended == {"done", "failed", "aborted"}

TypeOK ==
  /\ works \in BOOLEAN /\ mixed \in BOOLEAN /\ wal \in BOOLEAN
  /\ script \in [pc : Prepares \cup Updates \cup Undoes \cup Ended, trap : {"none", "signal", "exit"}]
  /\ (script.pc \in Undoes) <=> (script.trap # "none")
  /\ installed \in {"old", "new"}
  /\ server \in {Down} \cup [pc : {"failed", "migrate", "ready"}, binary : {"old", "new"}]
  /\ db \in Databases /\ backup \in Databases /\ db.schema >= OldSchema
  /\ db.reports \subseteq 1 .. reported /\ backup.reports \subseteq 1 .. reported
  /\ reported \in 0 .. MaxReports /\ saved \in 0 .. reported /\ crashes \in 0 .. MaxCrashes /\ signals \in 0 .. MaxSignals

Init ==
  /\ works \in BOOLEAN
  /\ script = [pc |-> "begin", trap |-> "none"]
  /\ installed = "old" /\ server = [pc |-> "ready", binary |-> "old"]
  /\ db = [schema |-> OldSchema, reports |-> {}] /\ wal = TRUE /\ mixed = FALSE
  /\ backup = [schema |-> 0, reports |-> {}] /\ saved = 0
  /\ reported = 0 /\ crashes = 0 /\ signals = 0

-----------------------------------------------------------------------------
(* The server and systemd.                                                 *)

\* Mutant: migrations that are already applied are not skipped.
MigrateAgain ==
  /\ server.pc = "migrate"
  /\ db' = [db EXCEPT !.schema = @ + 1]
  /\ UNCHANGED <<works, script, installed, server, wal, mixed, backup, saved, reported, crashes, signals>>

\* One migration per transaction.
Migrate ==
  /\ server.pc = "migrate" /\ db.schema < Target(server.binary)
  /\ db' = [db EXCEPT !.schema = @ + 1]
  /\ UNCHANGED <<works, script, installed, server, wal, mixed, backup, saved, reported, crashes, signals>>

\* The agents' tokens are synchronised and the server listens; a release that does not
\* work ends here at the latest.
Listen ==
  /\ server.pc = "migrate" /\ db.schema >= Target(server.binary)
  /\ server' = [server EXCEPT !.pc = IF server.binary = "new" /\ ~works
                                     THEN "failed" ELSE "ready"]
  /\ UNCHANGED <<works, script, installed, db, wal, mixed, backup, saved, reported, crashes, signals>>

Crash ==
  /\ server.pc \in {"migrate", "ready"} /\ crashes < MaxCrashes
  /\ server' = [server EXCEPT !.pc = "failed"] /\ crashes' = crashes + 1
  /\ UNCHANGED <<works, script, installed, db, wal, mixed, backup, saved, reported, signals>>

\* The server opens the database and finds it as the file and the log beside it make it.
Started(binary) == server' = [pc |-> "migrate", binary |-> binary] /\ wal' = TRUE

\* Restart=on-failure.
SystemdRestarts ==
  /\ server.pc = "failed" /\ Started(installed)
  /\ UNCHANGED <<works, script, installed, db, mixed, backup, saved, reported, crashes, signals>>

\* An agent's report is stored and acknowledged.
AcceptReport ==
  /\ server.pc = "ready" /\ reported < MaxReports
  /\ reported' = reported + 1
  /\ db' = [db EXCEPT !.reports = @ \cup {reported + 1}]
  /\ UNCHANGED <<works, script, installed, server, wal, mixed, backup, saved, crashes, signals>>

-----------------------------------------------------------------------------
(* The script.  set -e: until the trap is set a command that fails ends    *)
(* it, after that it runs the trap.                                        *)

Goes(from, to) == script.pc = from /\ script' = [script EXCEPT !.pc = to]

CopyBinary ==
  /\ Goes("begin", "backup")
  /\ UNCHANGED <<works, installed, server, db, wal, mixed, backup, saved, reported, crashes, signals>>

\* Mutant: the file is copied without its log.
BackupByCopy ==
  /\ Goes("backup", "stop")
  /\ backup' \in {db, [db EXCEPT !.reports = {}]} /\ saved' = reported
  /\ UNCHANGED <<works, installed, server, db, wal, mixed, reported, crashes, signals>>

\* sqlite3 .backup, while the server runs.
BackupDatabase ==
  /\ Goes("backup", "stop")
  /\ backup' = db /\ saved' = reported
  /\ UNCHANGED <<works, installed, server, db, wal, mixed, reported, crashes, signals>>

Abort ==
  /\ script.pc \in {"begin", "backup"}
  /\ script' = [script EXCEPT !.pc = "aborted"]
  /\ UNCHANGED <<works, installed, server, db, wal, mixed, backup, saved, reported, crashes, signals>>

\* systemctl stop: a server that is killed after 20 seconds leaves its log.
Stopped ==
  /\ server' = Down
  /\ wal' \in IF server.pc = "ready" THEN {FALSE, wal} ELSE {wal}

StopServer ==
  /\ Goes("stop", "install") /\ Stopped
  /\ UNCHANGED <<works, installed, db, mixed, backup, saved, reported, crashes, signals>>

InstallNew ==
  /\ Goes("install", "start") /\ installed' = "new"
  /\ UNCHANGED <<works, server, db, wal, mixed, backup, saved, reported, crashes, signals>>

StartNew ==
  /\ Goes("start", "poll") /\ Started(installed)
  /\ UNCHANGED <<works, installed, db, mixed, backup, saved, reported, crashes, signals>>

\* curl of /readyz succeeds, and completed is set.
PollReady ==
  /\ Goes("poll", "done") /\ server.pc = "ready"
  /\ UNCHANGED <<works, installed, server, db, wal, mixed, backup, saved, reported, crashes, signals>>

\* A command fails, or thirty polls do.
Fail ==
  /\ script.pc \in {"stop"} \cup Updates
  /\ script.pc = "poll" => server.pc # "ready"
  /\ script' = [pc |-> "undo stop", trap |-> "exit"]
  /\ UNCHANGED <<works, installed, server, db, wal, mixed, backup, saved, reported, crashes, signals>>

\* HUP, INT or TERM.  The trap of a signal exits, so the trap of EXIT runs after it; a
\* signal while a trap runs starts over.
Signal ==
  /\ script.pc \notin Ended /\ signals < MaxSignals
  /\ signals' = signals + 1
  /\ script' = IF script.pc \in {"begin", "backup"} THEN [script EXCEPT !.pc = "aborted"]
               ELSE [pc |-> "undo stop", trap |-> IF script.trap = "exit" THEN "exit" ELSE "signal"]
  /\ UNCHANGED <<works, installed, server, db, wal, mixed, backup, saved, reported, crashes>>

-----------------------------------------------------------------------------
(* rollback_on_failure.                                                    *)

UndoStop ==
  /\ Goes("undo stop", "undo install") /\ Stopped
  /\ UNCHANGED <<works, installed, db, mixed, backup, saved, reported, crashes, signals>>

\* Mutant: only the binary is put back.
UndoInstallOnly ==
  /\ Goes("undo install", "undo start") /\ installed' = "old"
  /\ UNCHANGED <<works, server, db, wal, mixed, backup, saved, reported, crashes, signals>>

UndoInstall ==
  /\ Goes("undo install", "undo database") /\ installed' = "old"
  /\ UNCHANGED <<works, server, db, wal, mixed, backup, saved, reported, crashes, signals>>

UndoDatabase ==
  /\ Goes("undo database", "undo log") /\ db' = backup
  /\ UNCHANGED <<works, installed, server, wal, mixed, backup, saved, reported, crashes, signals>>

\* Mutant: the log stays.
UndoLogKept ==
  /\ Goes("undo log", "undo start")
  /\ UNCHANGED <<works, installed, server, db, wal, mixed, backup, saved, reported, crashes, signals>>

UndoLog ==
  /\ Goes("undo log", "undo start") /\ wal' = FALSE
  /\ UNCHANGED <<works, installed, server, db, mixed, backup, saved, reported, crashes, signals>>

\* Mutant: the server is left to the operator.
UndoStartNothing ==
  /\ Goes("undo start", "failed")
  /\ UNCHANGED <<works, installed, server, db, wal, mixed, backup, saved, reported, crashes, signals>>

UndoStart ==
  /\ script.pc = "undo start"
  /\ script' = IF script.trap = "signal" THEN [pc |-> "undo stop", trap |-> "exit"]
               ELSE [pc |-> "failed", trap |-> "none"]
  /\ Started(installed) /\ mixed' = (mixed \/ wal)
  /\ UNCHANGED <<works, installed, db, backup, saved, reported, crashes, signals>>

-----------------------------------------------------------------------------
ServerStep == Migrate \/ Listen \/ SystemdRestarts

ScriptStep ==
  \/ CopyBinary \/ BackupDatabase \/ StopServer \/ InstallNew \/ StartNew \/ PollReady \/ Fail
  \/ UndoStop \/ UndoInstall \/ UndoDatabase \/ UndoLog \/ UndoStart

Next == ServerStep \/ ScriptStep \/ AcceptReport \/ Crash \/ Abort \/ Signal

Fairness == WF_vars(ServerStep) /\ WF_vars(ScriptStep)

Spec == Init /\ [][Next]_vars /\ Fairness

-----------------------------------------------------------------------------
\* "Database migrations are forward-only; rollback restores the matching online backup"
\* (OPERATIONS.md:280): no server works on a schema of the other release, whichever step
\* fails, is interrupted or restarted by systemd (update.sh:68-94).
SchemaFitsBinary == server.pc = "ready" => db.schema = Target(server.binary)

\* A backup is never opened with the log of the database it replaces, although a server
\* that had to be killed leaves one (update.sh:85).
RestoredAlone == ~mixed

\* What was acknowledged before the backup stays, and nothing at all is lost unless the
\* update is undone: its backup is older than the last reports (update.sh:63, update.sh:83).
LosesOnlySinceBackup ==
  /\ 1 .. saved \subseteq db.reports
  /\ script.pc \notin Undoes \cup {"failed"} => db.reports = 1 .. reported

\* Whatever happens the script ends, and a server is ready again: the new one if the update
\* was completed, the old one if not (update.sh:98-123).
ServesAgain ==
  <>[](/\ script.pc \in Ended /\ server.pc = "ready"
       /\ server.binary = IF script.pc = "done" THEN "new" ELSE "old")
=============================================================================
