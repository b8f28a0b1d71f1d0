SPECIFICATION Spec
CONSTANTS
  Options <- SwitchOptions
  StateBound = 3
INVARIANT CurrentStateExists
CHECK_DEADLOCK FALSE
