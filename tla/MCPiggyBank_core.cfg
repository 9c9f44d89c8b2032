SPECIFICATION Spec
CONSTANTS
  Banks = {b1}
  Workers = {w1, w2}
  NMonths = 2
  MonthEnd <- ThreeThenTwo
  DebitDays = {2}
  Goals = {2}
  Targets = {0}
  Quotas = {1}
  Amounts = {1, 2}
  LegacyBanks = {}
  Weekend = {3}
  MaxCatchUp = 2
  MaxGain = 1
  MaxRequests = 3
  MidnightRace = FALSE
SYMMETRY WorkerSymmetry
INVARIANTS OneDebitPerMonth NeverOverdrawn ClosedBanksAreFrozen FlagTracksGoal
PROPERTIES DebitsFollowSettings CompleteDaysNotCharged InterestWaitsForDebits
CHECK_DEADLOCK FALSE
