SPECIFICATION Spec
CONSTANTS
  k1 = k1
  k2 = k2
  k3 = k3
  Instances = {i, j}
  Askers = {x, y}
  Keys = {k1, k2}
  Units <- Pair
  MaxBatch = 2
  MaxCalls = 2
  MaxAsks = 3
  MaxOpens = 3
  MaxReadFailures = 1
  MaxWriteFailures = 1
SYMMETRY Symmetry
INVARIANTS NeverAnswersTwoWays FileHoldsUnitsWhole
PROPERTY ImplementsContract
CHECK_DEADLOCK FALSE
