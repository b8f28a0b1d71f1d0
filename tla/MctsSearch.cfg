SPECIFICATION FairSpec
CONSTANTS
  Options <- MixedOptions
  StateBound = 3
INVARIANTS TypeOK SelectionFindsState SimulatedBeforeRun SimulatedOnce UctDefined VisitsAddUp
PROPERTY SelectionEnds
CHECK_DEADLOCK FALSE
