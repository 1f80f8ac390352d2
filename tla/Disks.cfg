\* Block backups of a source in use, and whole disks.
SPECIFICATION AllSpec
CONSTANTS
  j1 = j1  j2 = j2
  Disks <- AllDisks
  Targets = {8, 9, 11, 12, 14}
  Chunk = 2
  MaxLeading = 4
  OnBad = {"abort", "record"}
INVARIANTS ImageIsOneMoment DiskComesBack
PROPERTY SourceIsReleased
CHECK_DEADLOCK FALSE
