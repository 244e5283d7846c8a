\* Two tasks in two workspaces of one repository.
SPECIFICATION Spec
CONSTANTS
  m1 = m1
  m2 = m2
  q1 = q1
  q2 = q2
  w1 = w1
  w2 = w2
  FirstId = 1
  LastId = 2
  Workspaces = {w1, w2}
  RepositoryOf <- OneRepository
  Limit = 1
  Texts = {"text"}
  MessageIds = {m1}
  RequestIds = {}
  Correlations = {"c1"}
  SourceSeqs = {}
  ProposedOutcomes = {"FAILED"}
CHECK_DEADLOCK FALSE
INVARIANTS
  TasksApart
