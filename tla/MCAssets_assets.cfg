SPECIFICATION Spec
SYMMETRY WorkerSymmetry
CONSTANTS
  NTransactions = 2
  Workers = {w1, w2}
  LastDay = 2
  MaxQuantity = 1
  MaxCash = 2
  MaxFields = 1
  MaxPatches = 2
  MaxReports = 1
  Null = Null
CONSTRAINT OneRace
INVARIANTS ReportsAddUp
PROPERTIES PatchesKeepOtherFields
CHECK_DEADLOCK FALSE
