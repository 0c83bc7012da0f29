CONSTANTS
  FullTimes = {2}
  IncTimes = {1, 3}
  RetryInitial = 1
  RetryMax = 2
  UnclaimedRetry = 1
  UnclaimedFailAfter = 2
  MaxMissed = 6
  Targets = 1
  Specs <- AlwaysOn
  Sites <- AlwaysSteady
  MaxTime = 4
  MaxEdits = 0
  Faults = {"restart", "backup", "prune"}
  MaxFaults = 3
  FaultsUntil = 3
SPECIFICATION FairSpec
 
INVARIANT ServedOnce
INVARIANT FailuresAreSpaced
PROPERTY CatchesUp
