SPECIFICATION FairSpec
CONSTANTS
  NFields = 3
  Word = {x, y}
  Zero = Zero
  Magic = Magic
  None = None
  Null = Null
  Default = x
  MaxCrash = 2
INVARIANT TypeOK
INVARIANT PrefixOfSave
INVARIANT SavedIsStored
PROPERTY BootEnds
PROPERTY SaveEnds
CHECK_DEADLOCK FALSE
