SPECIFICATION FairSpec
CONSTANTS
  Banks = {b1}
  Workers = {w1}
  NMonths = 3
  MonthEnd <- ThreeShortMonths
  DebitDays = {1, 2, 3}
  Goals = {2, 3, 5}
  Targets = {5, 7}
  Quotas = {1}
  Amounts = {}
  LegacyBanks = {}
  Weekend = {}
  MaxCatchUp = 3
  MaxGain = 0
  MaxRequests = 1
  MidnightRace = TRUE
INVARIANTS OtherPlannedGoalsAreMet
PROPERTIES DueDebitsSettle
CHECK_DEADLOCK FALSE
