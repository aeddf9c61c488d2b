SPECIFICATION FairSpec
CONSTANTS
  a = a
  b = b
  c = c
  Config <- MCConfig
  None = None
  MaxNum = 3
  MaxCalls = 3
INVARIANT TypeOK
INVARIANT ExactWithoutFaults
INVARIANT NoStalePermit
PROPERTY CallEnds
CHECK_DEADLOCK FALSE
