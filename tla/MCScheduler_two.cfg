\* Two runs: the task is resumed, cancelled, and sent messages.
SPECIFICATION SchedulerSpec
CONSTANTS
  m1 = m1
  m2 = m2
  q1 = q1
  w1 = w1
  FirstId = 1
  LastId = 1
  Workspaces = {w1}
  RepositoryOf <- OneRepository
  Limit = 1
  Texts <- TheTexts
  MessageIds = {m1}
  RequestIds = {}
  Correlations = {"c1"}
  SourceSeqs = {1}
  ProposedOutcomes <- Outcomes
  Callers = {"control", "send"}
  Faults = {"prepare", "unproven", "deliver", "text", "exit", "orphan", "spawn", "frame"}
  NativeQueue = TRUE
ACTION_CONSTRAINT FaultsFirst
CHECK_DEADLOCK FALSE
INVARIANTS
  OneProcess
  CompletedTurn

  
