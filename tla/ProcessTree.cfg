SPECIFICATION Spec
CONSTANTS
  n1 = n1  n2 = n2  n3 = n3  n4 = n4  n5 = n5
  s1 = s1  s2 = s2  s3 = s3
  rp1 = rp1  rp2 = rp2
  Node <- Nodes5
  State <- States3
  Searcher <- Searchers2
  InitialState = s1
  Nil = Nil
  CompressProcessTree = TRUE
SYMMETRY Symmetry
INVARIANTS TypeOK ShapeOK TagsLeadToOwned AssertsHold SelectReturnsOwned IInv
PROPERTY LoopsMove
CHECK_DEADLOCK FALSE
