SPECIFICATION Spec
CONSTANTS
  k1 = k1
  k2 = k2
  k3 = k3
  Instances = {i}
  Askers = {x, y}
  Keys = {k1, k2}
  Units <- Pair
  MaxBatch = 2
  MaxCalls = 2
  MaxAsks = 2
  MaxOpens = 1
  MaxReadFailures = 0
  MaxWriteFailures = 0
SYMMETRY Symmetry
INVARIANTS FlushCommitsStored
CHECK_DEADLOCK FALSE
