SPECIFICATION Spec
CONSTANTS
  s1 = s1  s2 = s2  s3 = s3 s4 = s4
  h1 = h1  h2 = h2 h3 = h3
  c1 = c1 c2 = c2
  State = {s1, s2, s3, s4}
  InitialState = s1
  Nil = Nil
  Handler = {h1, h2, h3}
  ClosePoint = {c1, c2}
  Incomplete = {TRUE, FALSE}
  MemoryCap = {TRUE, FALSE}
  SymbolicCall = {TRUE, FALSE}
  NestBound = 2
SYMMETRY Symmetry
INVARIANTS TypeOK AssertsHold PausedOrListed WaitingIsReferenced OpenStatesExact
PROPERTY ReleasedTogether
CHECK_DEADLOCK FALSE
