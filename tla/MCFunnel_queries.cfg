SPECIFICATION Spec
CONSTANTS
  near = near
  far = far
  blank = blank
  null = null
  Docs = {near, far, blank}
  Null = null
  Score <- Scores
  Embedders = {1}
  Dim <- OneEmbedder
  EmbedBatch = 2
  Foreign = 0
  b1 = b1
  b2 = b2
  Builders = {b1, b2}
  MaxBuilds = 3
  MaxEdits = 1
  Queries = {1}
  p1 = p1
  p2 = p2
  Partitions = {p1, p2}
  Floor = 5
  ChunksPerDoc = 1
  Limits = {2, 5}
  OverFetch = 1
  MinCandidates = 1
  UsizeMax = 3
INVARIANTS PrunedWasScored ReadAsScanned RegisteredIsWhole LosersAreWorse
SYMMETRY Interchangeable
CHECK_DEADLOCK FALSE
