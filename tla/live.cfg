\* A full channel, a second report during a refresh, and a failed request or restart.
CONSTANTS
  ChannelSize = 1
  WireSize = 1
  MaxReports = 2
  MaxChanges = 1
  MaxFailures = 1
SPECIFICATION Spec
INVARIANTS
  TypeOK
  QuietPageIsCurrent
PROPERTIES
  
  CatchesUp
  LeavesWithoutSession
