SPECIFICATION Spec
CONSTANTS
  p1 = p1
  p2 = p2
  p3 = p3
  short = short
  long = long
  Junk = Junk
  Old = Old
  Absent = Absent
  Procs <- TwoProcs
  Keys <- TwoKeys
  Size <- TwoSizes
  Overrides <- OneOverride
INVARIANT ReadKeyIsSavedKey
