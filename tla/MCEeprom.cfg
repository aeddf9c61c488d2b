SPECIFICATION FairSpec
CONSTANTS
  NVars = 3
  NSlots = 7
  Val = {a, b}
  None = None
  Torn = Torn
  MaxCrash = 2
INVARIANT TypeOK
INVARIANT KnownGoodState
INVARIANT ReadsStored
PROPERTY AtomicDurable
PROPERTY BootCompletes
PROPERTY WriteEnds
