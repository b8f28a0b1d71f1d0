SPECIFICATION Spec
CONSTANTS
  n1 = n1
  n2 = n2
  n3 = n3
  n4 = n4
  x1 = x1
  x2 = x2
  x3 = x3
  Normal = {n1, n2, n3, n4}
  Sim = {x1, x2, x3}
  Seed = {}
  InitialState = n1
  Nil = Nil
  SimulationSearch = "dfs"
  SimulationOpt = FALSE
  MemoryCap = FALSE
  MaxDepth = TRUE
  OnlyReplaySeeds = FALSE
  Careless = FALSE
  MayHalt = TRUE
SYMMETRY Symmetry
INVARIANT NoStateLost
INVARIANT SimulationProtocol
INVARIANT AssertsHold
INVARIANT VectorsInStep
PROPERTY PathsCountedOnce
CHECK_DEADLOCK FALSE
