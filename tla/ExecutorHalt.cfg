SPECIFICATION FairSpec
CONSTANTS
  n1 = n1
  n2 = n2
  n3 = n3
  x1 = x1
  d1 = d1
  d2 = d2
  Normal = {n1, n2, n3}
  Sim = {x1}
  Seed = {d1, d2}
  InitialState = n1
  Nil = Nil
  SimulationSearch = "dfs"
  SimulationOpt = TRUE
  MemoryCap = TRUE
  MaxDepth = FALSE
  OnlyReplaySeeds = TRUE
  Careless = TRUE
  MayHalt = TRUE
INVARIANT SeedsPartition
PROPERTY HaltEnds
CHECK_DEADLOCK FALSE
