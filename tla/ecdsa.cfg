SPECIFICATION Spec
CONSTANTS
  LIMBS = 2
  LimbBase = 16
  FieldP = 32749
  ByteBase = 4
  BytesPerLimb = 2
  Calls <- AllCalls
INVARIANTS TypeOK MulExact InverseExact JointPrefix VerifyAgrees
