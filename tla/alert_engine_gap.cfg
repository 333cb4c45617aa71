\* One handler at a time and nothing fails; room for a report to wait while an alert is pending.
CONSTANTS
  Subjects = {"usage"}
  Handlers = {h1}
  HighUsageDuration = 2
  HTTPFailureCount = 2
  AgentOfflineAfter = 1
  QueueSize = 2
  MaxTime = 4
  MaxFailures = 0
SPECIFICATION Spec
PROPERTIES
  FiresOnlyUnbroken
