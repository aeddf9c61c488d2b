SPECIFICATION Spec
CONSTANTS
  AddrLen = 1
  DataLen = 6
  Offsets <- MCOffsets
  Slaves = {1, 2}
  TbLen = 1
  Saved <- MCSaved
  PowerOn <- MCPowerOn
  MaxCalls <- MCMaxCalls
INVARIANT TypeOK
INVARIANT DelayAgrees
INVARIANT SlavesAgree
PROPERTY NoStrayWrite
CHECK_DEADLOCK FALSE
