\* Drains that cancel and activate, and a daemon that is killed or shut down.
SPECIFICATION DaemonSpec
CONSTANTS
  m1 = m1
  m2 = m2
  q1 = q1
  w1 = w1
  FirstId = 1
  LastId = 1
  Workspaces = {w1}
  RepositoryOf <- OneRepository
  Limit = 1
  Texts <- TheTexts
  MessageIds = {}
  RequestIds = {}
  Correlations = {"c1"}
  SourceSeqs = {1}
  ProposedOutcomes <- Outcomes
  Callers = {"main", "worker"}
  Faults = {"frame"}
  NativeQueue = FALSE
  MaxCrashes = 1
  Requests = {"drain", "cancel", "activate", "shutdown"}
CHECK_DEADLOCK FALSE

  
PROPERTIES
  ServesSettled
