CONSTANTS
  j1 = j1
  j2 = j2
  Jobs = {j1, j2}
  MaxConcurrent = 1
  ProgressBuffer = 1
  Kinds <- WholeOrBare
  MaxEvents <- OneEach
  MaxCrashes = 1
  MaxWriteFailures = 1
  SharedDir = TRUE
SYMMETRY Symmetry
SPECIFICATION Spec
INVARIANTS
  PermitsConserved
  QueuedCancelNeverWorks
  ResultReadable
  FinalTotalsShown
PROPERTY TerminalStable
CHECK_DEADLOCK FALSE
