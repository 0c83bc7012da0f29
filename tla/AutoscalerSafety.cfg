SPECIFICATION FairSpec
CONSTANTS
  MaxNodes = 5
  UpWindow = 1
  DownWindow = 2
  SettleTimeout = 2
  MaxAge = 2
  TargetWrites = 10
  TargetQueue = 10
  TolerancePercent = 10
  Specs <- ThreeToFive
  Loads <- SomeLoads
  PlacementKind = "read"
  Evens = {TRUE, FALSE}
  MaxEdits = 0
  MaxShifts = 2
  Faults = {"pods", "roster", "placement", "metrics", "leave", "restart", "container"}
  MaxFaults = 2
INVARIANT TypeOK
INVARIANT OneStepAhead
PROPERTY StepsEarned
 
PROPERTY NoShrinkUnderLoad
PROPERTY CapHeld
PROPERTY Settles
