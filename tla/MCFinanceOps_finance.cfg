SPECIFICATION Spec
CONSTANTS
  Keys = {k1, k2}
  Nonces = {n1, n2}
  Workers = {w1, w2}
  Amounts = {1}
  Goals = {0, 2}
  Days = {1, 2}
  None = None
  MaxClock = 3
  MaxGrants = 2
SYMMETRY FinanceSymmetry
INVARIANTS AnswersHold NeverOverdrawn
PROPERTIES NoWriteAfterRevocation UndoneBankIsOpen KeepsTheLog
CHECK_DEADLOCK FALSE
