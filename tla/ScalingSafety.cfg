CONSTANTS
  MaxNodes = 5
  Sizes = {3, 4, 5}
  MaxEdits = 1
  Images = {1, 2}
  MaxUpgrades = 1
  StaleReads = {FALSE}
  SlowRestarts = TRUE
  HasPlacement = TRUE
  Faults = {"abort", "pod", "read", "refuse", "lost"}
  MaxFaults = 1
SPECIFICATION FoundedSpec
INVARIANT PassInvariant
PROPERTY OneAtATime
PROPERTY DecommissionBeforeDelete
PROPERTY StepsSerialised
PROPERTY RollsWhenWhole
 
PROPERTY KeepsPromise
