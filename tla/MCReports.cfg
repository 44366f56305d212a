CONSTANTS
  r1 = r1
  r2 = r2
  r3 = r3
  p1 = p1
  p2 = p2
  Requests <- ThreeRequests
  Processes <- TwoProcesses
  ForeignKeys = TRUE
  MaxFaults = 1
SPECIFICATION Spec
CHECK_DEADLOCK FALSE
SYMMETRY Symmetric
INVARIANTS
  RowsCascade
  RecordedIsWritten
  MissingMeansGone
  ErrorsExplained
  DuplicatesOverlap
  ReportInv
