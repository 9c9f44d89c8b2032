SPECIFICATION Spec
CONSTANTS
  Workers = {w1, w2}
  NDays = 4
  Weekend = {2}
  Holidays = {}
  Amounts = {2}
  Percent = 1
  CentUnits = 5
  RateDivisor = 3
  AskedRanges <- FirstDay
  Slack = 1
  Lookback = 1
  Opening = 2
  MaxMoves = 1
SYMMETRY CatchUpSymmetry
INVARIANTS TypeOK InterestIsExact
CHECK_DEADLOCK FALSE

