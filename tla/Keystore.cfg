SPECIFICATION FairSpec
CONSTANTS
  Modes <- EveryMode
  Given = {TRUE}
  MaxChanges = 2
  MaxAborts = 1
  MaxWrites = 12
INVARIANT WritesPerChange
PROPERTY NoNeedlessDelete
PROPERTY PasswordKept
PROPERTY Cured
PROPERTY Reported
