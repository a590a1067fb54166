SPECIFICATION FairSpec
CONSTANTS
  Drafts <- RecoveryDrafts
  SettingsSet <- RecoverySettings
  Replies = {"answer", "calls", "error", "deferred", "overflow", "compact", "nomodel", "partial"}
  Controls = {}
  Troubles = {"crash", "close", "abort", "abortTask", "abortWork", "fault"}
  MaxCalls = 2
  MaxSubs = 1
  MaxRounds = 1
  MaxCompactions = 1
  MaxTrouble = 2
  MaxEvents = 4
CHECK_DEADLOCK FALSE
INVARIANTS
  WholeInv
  RunOwned
  RoundsAnswered
  UnsafeRunsOnce
  RequestsCounted
  JobTracked
PROPERTIES
  InputsSettle
