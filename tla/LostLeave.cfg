CONSTANTS
  MaxNodes = 4
  Sizes = {3, 4}
  MaxEdits = 1
  Images = {1}
  MaxUpgrades = 0
  StaleReads = {FALSE}
  SlowRestarts = TRUE
  HasPlacement = TRUE
  Faults = {"abort"}
  MaxFaults = 1
SPECIFICATION FoundedFairSpec
PROPERTY Converges
