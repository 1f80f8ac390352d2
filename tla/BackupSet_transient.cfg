\* Superblocks that cannot be read for a moment.
SPECIFICATION AllSpec
CONSTANTS
  On = {"together"}
  a = a
  b = b
  Job <- OneJob
  KeepChains = 1
  MaxIncrementals = 2
  ChainId <- Shuffled
  Transient = TRUE
  MaxImages = 3
  MaxClock = 0
  MaxDamage = 0
  Configs <- ThreeConfigs
  Named <- NamedDestinations
  Names = {"a"}
  Callers <- TwoJobs
  MaxEdits = 1
  MaxElapses = 1
PROPERTY PublishAddsARecoveryPoint
