SPECIFICATION SessionSpec
CONSTANTS
  None = None
  N = 2
  GateModes = {"off", "on"}
  Usages <- AllUsages
  FinishReasons = {"stop"}
  Followers = {"consumer"}
  Scripts <- AllScripts
  FakeErrors = {"provider_timeout"}
INVARIANTS
  SessionTypeOK
  ScriptInOrder
  NothingOutlivesFakeRun
  SuccessAccountsForEveryCall
  FollowerSeesWholeRun
  PromptProvenance
  WokenOnce
PROPERTIES
  TurnsAdvance
  SessionEnds
