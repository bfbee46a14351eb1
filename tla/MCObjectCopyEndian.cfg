CONSTANTS
  BytesPerWord = 4
  TargetBytesPerWord = 8
  HostLittleEndian = TRUE
  TargetLittleEndian = FALSE
  Seeds = {0, 1, 2}
  Inputs <- MCInputs
SPECIFICATION Spec
INVARIANTS
  MasksMarkReferences
CHECK_DEADLOCK FALSE
