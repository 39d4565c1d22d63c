SPECIFICATION FairSpec
CONSTANTS
  None = None
  N = 3
  GateModes = {"auto"}
  Usages <- OneUsage
  FinishReasons = {"stop"}
INVARIANTS
  ParticipantOrder
  OrphansOnlyAfterSiblingFailure
  SurfacedError
PROPERTIES
  StepsAdvance
  RunEnds
  Quiescence
