CONSTANTS
  MaxNodes = 5
  Sizes = {3, 4, 5}
  MaxEdits = 2
  Images = {1}
  MaxUpgrades = 0
  StaleReads = {TRUE}
  SlowRestarts = TRUE
  HasPlacement = TRUE
  Faults = {}
  MaxFaults = 0
SPECIFICATION FoundedSpec
PROPERTY OneAtATime
