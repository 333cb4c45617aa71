\* Two alerts whose turns come one by one, with faults and changing preferences.
CONSTANTS
  Rules <- DiskOnly
  MaxRows = 2
  MaxTime = 0
  Cooldown = 1
  PreferenceChoices <- TwoPreferences
  FaultChoices = {{"mail", "store", "restart"}}
  BatchLimit = 1
SPECIFICATION FairSpec
PROPERTIES
  EventuallyNotified
\* The clock stops and alerts run out.
CHECK_DEADLOCK FALSE
