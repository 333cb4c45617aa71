\* Recovery mails are switched off; nothing fails.
CONSTANTS
  Rules <- DiskOnly
  MaxRows = 2
  MaxTime = 2
  Cooldown = 1
  PreferenceChoices <- RecoveryMuted
  FaultChoices = {{}}
  BatchLimit = 2
SPECIFICATION Spec
PROPERTIES
  CooldownHolds
\* The clock stops and alerts run out.
CHECK_DEADLOCK FALSE
