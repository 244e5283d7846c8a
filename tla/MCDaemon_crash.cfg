\* A daemon that is killed twice or shut down, at any step.
SPECIFICATION DaemonSpec
CONSTANTS
  m1 = m1
  m2 = m2
  q1 = q1
  w1 = w1
  FirstId = 1
  LastId = 1
  Workspaces = {w1}
  RepositoryOf <- OneRepository
  Limit = 1
  Texts <- TheTexts
  MessageIds = {m1}
  RequestIds = {}
  Correlations = {"c1"}
  SourceSeqs = {1}
  ProposedOutcomes <- Outcomes
  Callers = {"main", "worker", "send", "submit"}
  Faults = {"unproven"}
  NativeQueue = FALSE
  MaxCrashes = 2
  Requests = {"shutdown"}
CHECK_DEADLOCK FALSE
INVARIANTS
  RecordedGroupReaped
  ServingAgrees
