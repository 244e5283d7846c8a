\* One task through every order of calls.
SPECIFICATION Spec
CONSTANTS
  m1 = m1
  m2 = m2
  q1 = q1
  q2 = q2
  w1 = w1
  w2 = w2
  FirstId = 1
  LastId = 1
  Workspaces = {w1}
  RepositoryOf <- OneRepository
  Limit = 1
  Texts = {"text"}
  MessageIds = {m1}
  RequestIds = {q1, q2}
  Correlations = {"c1", "c2"}
  SourceSeqs = {1}
  ProposedOutcomes = {"COMPLETED", "FAILED", "CANCELLED"}
SYMMETRY Interchangeable
CHECK_DEADLOCK FALSE
INVARIANTS
  TablesAgree
PROPERTIES
  IntentWins
  NothingForgotten
  NeverReplayed
  ImplementsLifecycle
