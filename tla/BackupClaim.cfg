SPECIFICATION FairSpec
CONSTANTS
  Specs <- NamedClasses
  Classes = {"nfs", "disk"}
  Works <- NfsAndDisk
  DefaultClass = "nfs"
  Singles = {TRUE, FALSE}
  MaxEdits = 2
  MaxLosses = 1
  MaxAborts = 1
  MaxWrites = 13
INVARIANT ReplacedPerEdit
PROPERTY BackupsKept
 
PROPERTY ClaimBinds
PROPERTY VolumeReported
