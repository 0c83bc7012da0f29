CONSTANTS
  MaxNodes = 3
  Sizes = {3}
  MaxEdits = 0
  Images = {1, 2}
  MaxUpgrades = 2
  StaleReads = {FALSE}
  SlowRestarts = FALSE
  HasPlacement = TRUE
  Faults = {}
  MaxFaults = 0
SPECIFICATION ReportSpec
PROPERTY NotRunningHalfway
