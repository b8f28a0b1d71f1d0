SPECIFICATION Spec
CONSTANTS
  n1 = n1
  n2 = n2
  n3 = n3
  Normal = {n1, n2, n3}
  Sim = {}
  Seed = {}
  InitialState = n1
  Nil = Nil
  SimulationSearch = "dfs"
  SimulationOpt = FALSE
  MemoryCap = FALSE
  MaxDepth = FALSE
  OnlyReplaySeeds = FALSE
  Careless = TRUE
  MayHalt = FALSE
SYMMETRY Symmetry
INVARIANT AssertsHold
CHECK_DEADLOCK FALSE
