\* Two new migrations, and reports before the backup, after it and between two rollbacks.
\* The bounded reports come to an end, and so does the script.
CONSTANTS
  OldSchema = 1
  NewSchema = 3
  MaxReports = 4
  MaxCrashes = 2
  MaxSignals = 2
SPECIFICATION Spec
CHECK_DEADLOCK FALSE
INVARIANTS
  TypeOK
  
  RestoredAlone
  LosesOnlySinceBackup
PROPERTIES
  ServesAgain
