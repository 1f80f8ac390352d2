\* The lock and the files of a local destination, guarded mounts, SFTP sessions
\* and publication.  Processes of one host break locks at any time.
SPECIFICATION AllSpec
CONSTANTS
  a = a  b = b  h = h
  Proc <- TwoProcs
  HostOf <- OneHost
  Breakers <- TwoProcs
  Attended = FALSE
  Inode = {1, 2}
  TTL = 1
  MaxCrashes = 1
  Job <- TwoProcs
  Attempts = 3
  Worker <- TwoProcs
  Dir = {d1, d2}
  MaxLosses = 1
  MaxSwaps = 1
  Entry <- Entries
  Uri <- Uris
  Op <- Ops
  KnownHosts <- Files
  Login <- Logins
  Key <- Keys
  RetryAttempts = 3
  MaxMounts = 3
INVARIANTS DestinationIsTheOneMeant FilesAreSafe
PROPERTIES FencedForGood NobodyElseRefreshes PublishedStays
           OkMeansMine PublicationEnds
CHECK_DEADLOCK FALSE
