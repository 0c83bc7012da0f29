CONSTANTS
  MaxNodes = 5
  Sizes = {3, 4, 5}
  MaxEdits = 1
  Images = {1, 2}
  MaxUpgrades = 1
  StaleReads = {TRUE, FALSE}
  SlowRestarts = FALSE
  HasPlacement = TRUE
  Faults = {"abort", "read", "refuse", "pod"}
  MaxFaults = 2
SPECIFICATION MCSpec
INVARIANT FoundingTypeOK
 
PROPERTY BackupsAwaitSteps
 
PROPERTY RolloutFinishes
