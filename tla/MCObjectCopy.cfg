CONSTANTS
  BytesPerWord = 4
  TargetBytesPerWord = 8
  HostLittleEndian = TRUE
  TargetLittleEndian = TRUE
  Seeds = {0, 1, 2}
  Inputs <- MCInputs
SPECIFICATION Spec
INVARIANTS
  LayoutSound
  MasksMarkReferences
CHECK_DEADLOCK FALSE
