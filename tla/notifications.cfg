\* Two alerts of one rule, with nothing or everything that can go wrong with mail and store.
CONSTANTS
  Rules <- AllRules
  MaxRows = 2
  MaxTime = 2
  Cooldown = 1
  PreferenceChoices <- FullPreferences
  FaultChoices <- NothingOrAllFails
  BatchLimit = 2
SPECIFICATION Spec
INVARIANTS
  TypeOK
  SentWasMailed
PROPERTIES
  FiresOnlyAfterStreak
  CooldownHolds
  NoNewerTransitionConsumed
  ImplementsAlertCycle
\* The clock stops and alerts run out.
CHECK_DEADLOCK FALSE
