SPECIFICATION Spec
CONSTANTS
  Drafts <- InboxDrafts
  SettingsSet <- InboxSettings
  Replies = {"answer", "calls", "error", "continuation", "compact"}
  Controls = {{"terminate"}, {"terminate", "handoff"}, {"handoff"}}
  Troubles = {"abort", "withdraw", "crash", "close"}
  MaxCalls = 1
  MaxSubs = 3
  MaxRounds = 1
  MaxCompactions = 2
  MaxTrouble = 1
  MaxEvents = 4
CHECK_DEADLOCK FALSE
INVARIANTS
  InputsInv
  InputsAccounted
  ContextCurrent
  ResetNeverCutsRun
PROPERTIES
  HeadsMoveForward
  KeepsInputs
