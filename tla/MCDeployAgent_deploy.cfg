SPECIFICATION FairSpec
CONSTANTS
  c1 = c1
  c2 = c2
  m1 = m1
  m2 = m2
  Agents = {a1, a2}
  Commits = {c1, c2}
  Services = {backend, frontend}
  Backend = backend
  Rows = {m1, m2}
  Migrations <- SecondMigrates
  None = None
  MaxReplaced = 1
  MaxTouched = 1
INVARIANTS RecordedReleaseRuns
PROPERTIES SwitchesReleases RecordFollowsJournal OldReleaseOnItsSchema
PROPERTIES DeploysOnRecordedRelease DeploysSettle
CHECK_DEADLOCK FALSE
