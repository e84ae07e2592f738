SPECIFICATION FairSpec
CONSTANTS
  k1 = k1
  k2 = k2
  k3 = k3
  Instances = {i}
  Askers = {x, y}
  Keys = {k1, k2, k3}
  Units <- PairAndSingle
  MaxBatch = 2
  MaxCalls = 3
  MaxAsks = 3
  MaxOpens = 2
  MaxReadFailures = 0
  MaxWriteFailures = 0
INVARIANTS UnitServedWhole CloseLosesNothing FlushCommitsSent
PROPERTY FlushReturns
PROPERTY BacklogReachesFile
CHECK_DEADLOCK FALSE
