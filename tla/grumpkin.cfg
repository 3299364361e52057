SPECIFICATION Spec
CONSTANTS
  P = 13
  LowBits = 3
  HighBits = 2
  ScalarModulus = 19
  CurveB <- MCCurveB
  Calls <- AllCalls
  BitChoices <- AllBits
INVARIANTS TypeOK CompareExact PrefixMultiple AcceptsRelation
