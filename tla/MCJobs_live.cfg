CONSTANTS
  j1 = j1
  j2 = j2
  Jobs = {j1, j2}
  MaxConcurrent = 1
  ProgressBuffer = 1
  Kinds <- Mixed
  MaxEvents <- OneOfFirst
  MaxCrashes = 2
  MaxWriteFailures = 0
  SharedDir = FALSE
SPECIFICATION RuntimeSpec
INVARIANTS
  TerminalSurvivesRestart
  InterruptedMeansRestart
PROPERTY ImplementsLifecycle
PROPERTY CancelStopsWork
PROPERTY EverySubmissionEnds
CHECK_DEADLOCK FALSE
