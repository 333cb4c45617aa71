\* Two numbers, room for one report, two stops: eviction, retries and restarts all
\* happen, and the behaviour graph stays small enough for the temporal check.
CONSTANTS
  Modulus = 3
  QueueSize = 1
  MaxCrashes = 2
SPECIFICATION FairSpec
PROPERTIES
  EventuallySettled
\* The counter runs out and the spool drains.
CHECK_DEADLOCK FALSE
