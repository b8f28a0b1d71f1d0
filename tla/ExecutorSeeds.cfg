SPECIFICATION Spec
CONSTANTS
  n1 = n1
  n2 = n2
  n3 = n3
  n4 = n4
  n5 = n5
  d1 = d1
  d2 = d2
  d3 = d3
  Normal = {n1, n2, n3, n4, n5}
  Sim = {}
  Seed = {d1, d2, d3}
  InitialState = n1
  Nil = Nil
  SimulationSearch = "dfs"
  SimulationOpt = FALSE
  MemoryCap = TRUE
  MaxDepth = TRUE
  OnlyReplaySeeds = FALSE
  Careless = FALSE
  MayHalt = TRUE
SYMMETRY Symmetry
INVARIANT TypeOK
INVARIANT NoStateLost
INVARIANT SeedsPartition
INVARIANT NothingDangling
INVARIANT AssertsHold
INVARIANT VectorsInStep
PROPERTY PathsCountedOnce
CHECK_DEADLOCK FALSE
