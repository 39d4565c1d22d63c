SPECIFICATION Spec
CONSTANTS
  None = None
  N = 2
  GateModes = {"on"}
  Usages <- OneUsage
  FinishReasons = {"stop"}
INVARIANT FailureIsReported
