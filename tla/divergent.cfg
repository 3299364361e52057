SPECIFICATION Spec
CONSTANTS
  N = 4
  Graphs <- FourBlockGraphs
INVARIANTS TypeOK RemainingCounts PushedOnce OnlyDivergent AllDivergent
PROPERTY Terminates
