SPECIFICATION Spec
CONSTANTS
  None = None
  s1 = s1
  s2 = s2
  Streams <- TwoStreams
  Texts <- TwoTexts
  Chunks <- FourChunks
  MaxChunks = 2
  Scripts <- SomeScripts
  FakeUsages <- SomeUsages
  FakeErrors = {"provider_timeout"}
SYMMETRY Interchangeable
INVARIANTS
  TypeOK
  TextIsWhole
  OneConnection
  UsageIsLastReported
  FailuresAreTold
PROPERTIES
  ImplementsProviderStream
