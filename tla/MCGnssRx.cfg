SPECIFICATION FairSpec
CONSTANTS
  Size = 8
  Pool = 2
  MaxSent = 3
INVARIANT TypeOK
INVARIANT ParsedOnce
INVARIANT QuietBurstParsed
INVARIANT StaysInBuffer
PROPERTY Drains
CHECK_DEADLOCK FALSE
