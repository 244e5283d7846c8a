\* A runtime that is started, spoken with and stopped by two threads.
SPECIFICATION MCSpec
CONSTANTS
  Stoppers = {"s1", "s2"}
  Requests = {"r1"}
  Kids = {"k1"}
  MaxAnswers = 1
  MaxEvents = 2
  MaxCalls = 2
CHECK_DEADLOCK FALSE
INVARIANTS
  StopSound
  CallersTold
PROPERTIES
  PidsItsOwn
  RuntimeEnds
