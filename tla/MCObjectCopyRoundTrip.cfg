CONSTANTS
  BytesPerWord = 4
  TargetBytesPerWord = 8
  HostLittleEndian = TRUE
  TargetLittleEndian = FALSE
  Seeds = {0, 1, 2, 3, 4, 5, 6, 7}
  Inputs <- MCWideInputs
SPECIFICATION Spec
INVARIANTS
  FieldsRoundTrip
CHECK_DEADLOCK FALSE
