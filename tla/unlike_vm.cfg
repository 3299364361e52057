SPECIFICATION Spec
CONSTANTS
  Programs <- UnlikeVM
  MaxDepth = 1
  RetestIsFree = FALSE
  WalkBound = 60
PROPERTY ImplementsVM
