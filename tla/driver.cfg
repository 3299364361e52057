SPECIFICATION Spec
CONSTANTS
  BlakeBlock = 64
  AesBlock = 16
  ScalarBits = 254
  Programs <- AllPrograms
INVARIANTS TypeOK ModuleValid HelpersInOrder CallsRegistered OnlyCalledRefused
