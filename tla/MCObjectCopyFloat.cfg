CONSTANTS
  BytesPerWord = 4
  TargetBytesPerWord = 8
  HostLittleEndian = TRUE
  TargetLittleEndian = TRUE
  Seeds = {0, 1, 2}
  Inputs <- MCPoolInputs
SPECIFICATION Spec
INVARIANTS
  PoolMaskMarksFloats
CHECK_DEADLOCK FALSE
