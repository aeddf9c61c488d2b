SPECIFICATION Spec
CONSTANTS
  a = a
  b = b
  c = c
  Config <- MCConfig
  None = None
  MaxNum = 3
  MaxCalls = 3
INVARIANT ConfirmedMeansOk
CHECK_DEADLOCK FALSE
