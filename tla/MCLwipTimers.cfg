SPECIFICATION Spec
CONSTANTS
  tcp = tcp
  reass = reass
  arp = arp
  Periodic <- MCPeriodic
  OnDemand <- MCOnDemand
  Interval <- MCInterval
  MaxMsgs = 3
INVARIANT ExpiresInTime
