SPECIFICATION Spec
CONSTANTS
  P = 1091
  Half = 8
  Address = 32
  Byte = 4
  StateWidth = 2
  Sha256BlockWords = 3
  Sha256StateWords = 2
  DigestBytes = 2
  BlakeBlock = 2
  AesBlock = 2
  EcdsaBytes = 1
  LowBits = 2
  HighBits = 2
  ScalarOrder = 11
  Programs <- Unlike
  Answers <- SomeAnswers
  Digest <- Weighted
INVARIANT ReturnsAgree
