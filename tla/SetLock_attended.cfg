\* Two hosts that do not see each other's flock; processes die, and locks are
\* broken the way the operator guide says.  The lock of an SFTP destination
\* likewise, and broken at any time.
SPECIFICATION AllFairSpec
CONSTANTS
  On = {"local", "guided", "anytime"}
  a = a  b = b  h1 = h1  h2 = h2
  Proc <- TwoProcs
  HostOf <- TwoHosts
  Breakers <- TwoProcs
  Attended = TRUE
  Inode = {1, 2}
  TTL = 1
  MaxCrashes = 2
INVARIANT MutualExclusion
PROPERTIES MutateWhileOwning ImplementsMutex AbandonedIsBroken RemoteLockHolds
