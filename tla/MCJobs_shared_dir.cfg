CONSTANTS
  j1 = j1
  j2 = j2
  Jobs = {j1}
  MaxConcurrent = 1
  ProgressBuffer = 1
  Kinds <- WholeOrBare
  MaxEvents <- None
  MaxCrashes = 1
  MaxWriteFailures = 0
  SharedDir = TRUE
SPECIFICATION Spec
INVARIANT InterruptedMeansRestart
CHECK_DEADLOCK FALSE
