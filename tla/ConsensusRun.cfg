SPECIFICATION Spec
CONSTANTS
  None = None
  N = 2
  GateModes = {"off", "on"}
  Usages <- TwoUsages
  FinishReasons = {"stop"}
INVARIANTS
  TypeOK
  EventsBracketCalls
  UsageFollowsCompletions
  SuccessAccountsForEveryCall
  StageBarrier
  ResultMatchesStream
PROPERTIES
  ImplementsStream
