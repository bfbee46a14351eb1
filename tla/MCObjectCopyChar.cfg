CONSTANTS
  BytesPerWord = 4
  TargetBytesPerWord = 8
  HostLittleEndian = TRUE
  TargetLittleEndian = TRUE
  Seeds = {0, 1, 2}
  Inputs <- MCCharInputs
SPECIFICATION Spec
INVARIANTS
  FieldsRoundTrip
CHECK_DEADLOCK FALSE
