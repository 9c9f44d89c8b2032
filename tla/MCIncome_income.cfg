SPECIFICATION Spec
CONSTANTS
  Entries = {e1}
  Amounts = {1, 2}
  Levels = {0, 1, 2}
  LastDay = 5
  DaysPerMonth = 2
  MaxMs = 2
  MaxRequests = 3
  LegacySalary = TRUE
  Null = Null
CONSTRAINT SalaryOrEntries
INVARIANTS EachIncomeIsReceivedOnce
PROPERTIES ConfirmationsActOnWhatWasSeen PastSalaryIsKept
CHECK_DEADLOCK FALSE
