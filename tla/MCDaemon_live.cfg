\* What must happen in the end: restart, the end of a run, a drain, a message.
SPECIFICATION MCLive
CONSTANTS
  m1 = m1
  m2 = m2
  q1 = q1
  w1 = w1
  FirstId = 1
  LastId = 1
  Workspaces = {w1}
  RepositoryOf <- OneRepository
  Limit = 1
  Texts <- TheTexts
  MessageIds = {m1}
  RequestIds = {}
  Correlations = {"c1"}
  SourceSeqs = {1}
  ProposedOutcomes <- Outcomes
  Callers = {"main", "worker", "send"}
  Faults = {"bootstrap", "turn"}
  NativeQueue = FALSE
  MaxCrashes = 1
  Requests = {"drain", "abort"}
ACTION_CONSTRAINT AbortEarly
CHECK_DEADLOCK FALSE
PROPERTIES
  
  DrainCompletes
  MessageSettles
