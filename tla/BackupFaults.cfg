CONSTANTS
  FullTimes = {1, 2}
  IncTimes = {2}
  RetryInitial = 1
  RetryMax = 2
  UnclaimedRetry = 1
  UnclaimedFailAfter = 2
  MaxMissed = 6
  Targets = 2
  Specs <- OnOffOrInvalid
  Sites <- EverySite
  MaxTime = 2
  MaxEdits = 2
  Faults = {"abort", "restart", "backup", "prune"}
  MaxFaults = 2
  FaultsUntil = 2
SPECIFICATION Spec
INVARIANT TypeOK
INVARIANT AnchorIsCovered
INVARIANT FailuresAreReported
INVARIANT UnclaimedIsBounded
INVARIANT OneRunCoversMissed
