\* One run: it is cancelled, answered, and given up on by its spawner.
SPECIFICATION PersistentHost
CONSTANTS
  m1 = m1
  m2 = m2
  q1 = q1
  w1 = w1
  FirstId = 1
  LastId = 1
  Workspaces = {w1}
  RepositoryOf <- OneRepository
  Limit = 1
  Texts <- TheTexts
  MessageIds = {}
  RequestIds = {q1}
  Correlations = {"c1"}
  SourceSeqs = {1}
  ProposedOutcomes <- Outcomes
  Callers = {"control", "submit", "respond"}
  Faults = {"bootstrap", "unproven", "respond", "stuck"}
  NativeQueue = FALSE
CHECK_DEADLOCK FALSE
INVARIANTS
  ReceiptProven
  SomebodyWorks
  SlotsAgree

  
