\* Two handlers that may overlap, and a clock that reaches both the silence that counts as
\* offline and a report too old to be evaluated.
CONSTANTS
  Subjects <- EverySubject
  Handlers = {h1, h2}
  HighUsageDuration = 1
  HTTPFailureCount = 2
  AgentOfflineAfter = 1
  QueueSize = 1
  MaxTime = 2
  MaxFailures = 1
SPECIFICATION FairSpec
INVARIANTS
  TypeOK
  ShowsLastReport
PROPERTIES
  EndsOnlyOnEvidence
  OfflineFollowsSilence
  AlertsCatchUp
