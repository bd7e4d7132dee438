SPECIFICATION Spec
CONSTANTS
  Limit = 2
  Versions = {v1, v2}
  SizesTell = FALSE
  None = none
SYMMETRY Symmetric
INVARIANT RejectedBytesLeave
CHECK_DEADLOCK FALSE
