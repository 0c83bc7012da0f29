SPECIFICATION Spec
CONSTANTS
  MaxNodes = 5
  UpWindow = 1
  DownWindow = 2
  SettleTimeout = 2
  MaxAge = 2
  TargetWrites = 10
  TargetQueue = 10
  TolerancePercent = 10
  Specs <- ThreeToFive
  Loads <- High
  PlacementKind = "unsupported"
  Evens = {TRUE}
  MaxEdits = 0
  MaxShifts = 0
  Faults = {}
  MaxFaults = 0
INVARIANT PassesEnd
