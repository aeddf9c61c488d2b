SPECIFICATION FairSpec
CONSTANTS
  Frames <- MCFrames
  RxBufs = 3
  TxBufs = 2
  Pbufs = 3
  InPkts = 2
  MboxSize = 2
  MaxIn = 3
  MaxOut = 3
INVARIANT TypeOK
INVARIANT NoMissedWakeup
INVARIANT NoLeak
INVARIANT NoBacklog
INVARIANT SentAsGiven
PROPERTY CatchesUp
CHECK_DEADLOCK FALSE
