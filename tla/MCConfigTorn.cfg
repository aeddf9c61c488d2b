SPECIFICATION Spec
CONSTANTS
  NFields = 3
  Word = {x, y}
  Zero = Zero
  Magic = Magic
  None = None
  Null = Null
  Default = x
  MaxCrash = 1
PROPERTY NoPartialBlock
CHECK_DEADLOCK FALSE
