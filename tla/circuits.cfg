SPECIFICATION Spec
CONSTANTS
  P = 5
  ByteBits = 1
  WordBits = 2
  LongBits = 2
  BlockBytes = 2
  AesBlock = 2
  KeyBytes = 1
  StateWidth = 2
  BlackBox <- MCBlackBox
  Bits <- MCBits
  Brillig <- MCBrillig
  Trap = Trap
  Modes = {"honest", "any"}
  Programs <- AllPrograms
INVARIANTS TypeOK FollowsAcvm SameMemory HonestAccepted AcceptsExactlySolutions
