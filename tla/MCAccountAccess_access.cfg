SPECIFICATION Spec
CONSTANTS
  Requests = {r1, r2}
  Devices = {d1}
  Challenges = {x1, x2}
  Account = account
  None = None
  FailureLimit = 2
  MaxDevices = 1
  MaxOpen = 1
  MaxVersion = 2
  MaxRecoveries = 2
  MaxCodes = 2
  MaxGrants = 2
SYMMETRY AccessSymmetry
CONSTRAINT DevicesOrGrants
INVARIANTS AccessNeedsThePassword ProofsWorkOnce GuessesAreLimited TokensFollowTheConsent
CHECK_DEADLOCK FALSE
