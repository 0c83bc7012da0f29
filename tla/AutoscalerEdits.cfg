SPECIFICATION FairSpec
CONSTANTS
  MaxNodes = 5
  UpWindow = 1
  DownWindow = 2
  SettleTimeout = 2
  MaxAge = 2
  TargetWrites = 10
  TargetQueue = 10
  TolerancePercent = 10
  Specs <- EveryEdit
  Loads <- LowAndHigh
  PlacementKind = "read"
  Evens = {TRUE}
  MaxEdits = 1
  MaxShifts = 1
  Faults = {"abort"}
  MaxFaults = 1
PROPERTY Settles
