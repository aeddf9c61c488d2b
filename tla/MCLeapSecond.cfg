SPECIFICATION FairSpec
CONSTANTS
  Default = 18
  Starts = {18, 19}
  Days <- MCDays
  MaxLeaps = 2
  MaxRestarts = 1
INVARIANT TypeOK
INVARIANT ForecastOnce
INVARIANT ForecastTrue
INVARIANT DateRight
PROPERTY TakesOverInTime
PROPERTY ForecastEnds
