SPECIFICATION Spec
CONSTANTS
  Programs <- Unbroken
  MaxDepth = 4
  RetestIsFree = FALSE
  WalkBound = 60
INVARIANTS TypeOK DepthAgrees AlwaysAnswers
PROPERTY ImplementsVM
