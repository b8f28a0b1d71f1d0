SPECIFICATION FairSpec
CONSTANTS
  n1 = n1
  n2 = n2
  n3 = n3
  x1 = x1
  Normal = {n1, n2, n3}
  Sim = {x1}
  Seed = {}
  InitialState = n1
  Nil = Nil
  SimulationSearch = "dfs"
  SimulationOpt = FALSE
  MemoryCap = FALSE
  MaxDepth = FALSE
  OnlyReplaySeeds = FALSE
  Careless = FALSE
  MayHalt = FALSE
PROPERTY SimulationEnds
CHECK_DEADLOCK FALSE
