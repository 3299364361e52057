SPECIFICATION Spec
CONSTANTS
  Programs <- NoAnswer
  MaxDepth = 1
  RetestIsFree = TRUE
  WalkBound = 60
INVARIANT AlwaysAnswers
