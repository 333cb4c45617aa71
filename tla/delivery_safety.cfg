\* Three numbers before the counter is exhausted, room for two reports, two stops.
CONSTANTS
  Modulus = 4
  QueueSize = 2
  MaxCrashes = 2
SPECIFICATION Spec
INVARIANTS
  TypeOK
  NoLostWakeup
  ReplayOnlyIfSettled
  OldestFirst
  DurableUntilSettled
PROPERTIES
  EvictsOnlyOldestWhenFull
  SequenceNeverReused
  ImplementsReportStream
\* The counter runs out and the process may be stopped for good.
CHECK_DEADLOCK FALSE
