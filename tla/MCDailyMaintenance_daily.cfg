SPECIFICATION FairSpec
CONSTANTS
  Kinds = {"piggyBanks"}
  PartialKinds = {"piggyBanks"}
  Sessions = {1, 2}
  NDays = 2
  MaxAttempts = 3
INVARIANTS CallsAreBounded OneAtATime
PROPERTIES OnlyTheLiveJobActs EachDayIsServed
CHECK_DEADLOCK FALSE
