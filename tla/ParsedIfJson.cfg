SPECIFICATION RunSpec
CONSTANTS
  None = None
  N = 2
  GateModes = {"on"}
  Usages <- SomeUsages
  FinishReasons = {"stop", "length"}
  Answers <- SomeAnswers
INVARIANT ParsedIfJson
