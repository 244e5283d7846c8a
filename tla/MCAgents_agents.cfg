SPECIFICATION MCSpec
CONSTANTS
  Absent = Absent
  Null = Null
  Bad = Bad
  Missing = Missing
  Unreadable = Unreadable
  Docs <- MCDocs
  Directories <- MCDirectories
  Requests <- MCRequests
  Inherited = {"exec", "relative"}
  MaxEdits = 1
INVARIANTS
  AdmittedRuns
  RequestHonoured
  ProbeSound
PROPERTIES
  
  ProbeEnds
CHECK_DEADLOCK FALSE
