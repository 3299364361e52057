SPECIFICATION Spec
CONSTANTS
  Programs <- Loops
  MaxDepth = 2
  RetestIsFree = TRUE
  WalkBound = 25
INVARIANTS BreakIsLast FlagClearOnEntry
PROPERTY ImplementsVM
