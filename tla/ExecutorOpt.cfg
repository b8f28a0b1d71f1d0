SPECIFICATION Spec
CONSTANTS
  n1 = n1
  n2 = n2
  n3 = n3
  x1 = x1
  Normal = {n1, n2, n3}
  Sim = {x1}
  Seed = {}
  InitialState = n1
  Nil = Nil
  SimulationSearch = "dfs"
  SimulationOpt = TRUE
  MemoryCap = FALSE
  MaxDepth = FALSE
  OnlyReplaySeeds = FALSE
  Careless = FALSE
  MayHalt = FALSE
SYMMETRY Symmetry
INVARIANT AssertsHold
CHECK_DEADLOCK FALSE
