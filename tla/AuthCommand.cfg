SPECIFICATION Spec
CONSTANTS
  p1 = p1
  p2 = p2
  p3 = p3
  short = short
  long = long
  Junk = Junk
  Old = Old
  Absent = Absent
  Procs <- ThreeProcs
  Keys <- TwoKeys
  Size <- TwoSizes
  Overrides <- OneOverride
SYMMETRY Interchangeable
INVARIANTS
  TypeOK
  SuccessIsTrue
  FailsOnlyOnFault
  RemovalAccounting
  StatusAgreesWithRun
  ResolvedTextHasAnOrigin
PROPERTIES
  ImplementsStream
