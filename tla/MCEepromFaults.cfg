SPECIFICATION SpecAnywhere
CONSTANTS
  NVars = 2
  NSlots = 4
  Val = {a, b}
  None = None
  Torn = Torn
  MaxCrash = 1
PROPERTY AtomicDurable
