\* Two jobs of any kind on one set: backups, retention, verification,
\* rebuild; and the schedules that start them.
SPECIFICATION AllSpec
CONSTANTS
  On = {"together", "serial", "schedule"}
  a = a
  b = b
  Job <- TwoJobs
  KeepChains = 1
  MaxIncrementals = 1
  ChainId <- Shuffled
  Transient = FALSE
  MaxImages = 3
  MaxClock = 1
  MaxDamage = 1
  Configs <- ThreeConfigs
  Named <- NamedDestinations
  Names = {"a"}
  Callers <- TwoJobs
  MaxEdits = 1
  MaxElapses = 1
CHECK_DEADLOCK FALSE
SYMMETRY Symmetric
INVARIANTS ChainsAreBounded MarksWereEarned SchedulesHold
PROPERTIES PublishAddsARecoveryPoint DeletionIsAuthorised RetentionKeeps
