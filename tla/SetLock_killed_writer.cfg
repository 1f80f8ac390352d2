\* A writer killed while its record is being written.
SPECIFICATION AllSpec
CONSTANTS
  On = {"local"}
  a = a  b = b  h1 = h1  h2 = h2
  Proc <- TwoProcs
  HostOf <- OneHost
  Breakers <- TwoProcs
  Attended = FALSE
  Inode = {1, 2}
  TTL = 1
  MaxCrashes = 1
INVARIANT KilledHolderBreakable
