SPECIFICATION Spec
CONSTANTS
  A = A
  B = B
  Cash = Cash
  Cards = {A, B}
  Expenses = {e1}
  NMonths = 4
  MonthEnd <- ShortMonths
  LastToday = 6
  Week = 2
  FullMonth = 3
  MinCycle = 2
  ClosingDays = {1, 3}
  DueDays = {1, 3}
  Starts = {1, 4}
  Ends = {0, 4}
  Allocations <- OneCent
  MaxTerms = 2
CONSTRAINT OneOrTwoCards
INVARIANTS BilledIsOwed NoChargeTwice CyclesKeepTheirLength CashIsRecorded
CHECK_DEADLOCK FALSE
