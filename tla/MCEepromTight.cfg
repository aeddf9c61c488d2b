SPECIFICATION Spec
CONSTANTS
  NVars = 2
  NSlots = 4
  Val = {a, b}
  None = None
  Torn = Torn
  MaxCrash = 2
PROPERTY AtomicDurable
