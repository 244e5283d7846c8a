\* Hosts that wait for tasks which speak, end and are resumed.
SPECIFICATION MCSpec
CONSTANTS
  None = None
  a = a
  b = b
  Tasks = {a, b}
  Waiters = {"list", "one"}
  Targets <- TheTargets
  ListMode = {"list"}
  Adapters = {"agy", "zcode", "dsh", "codex", "other"}
  Alphabet <- MCAlphabet
  MaxEpoch = 2
  MaxEvents = 3
  MaxIdentities = 2
  MaxToolTypes = 1
  MaxRecentCalls = 1
  MaxReasoning = 2
  MaxActivity = 2
  MaxTail = 2
  MaxToolCount = 1
  FrameCap = 6
  ChunkCap = 3
  Escape = 2
  SummaryCap = 1
  FieldFloor = 1
  RecordCap = 4
CHECK_DEADLOCK FALSE
INVARIANTS
  TextDelivered
  ToolsHonest
  AnswersHonest
  FreshAnswers
