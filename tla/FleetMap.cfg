SPECIFICATION Spec
CONSTANTS
  N = 3
  Concurrency = 2
  DefaultConcurrency = 6
  NoResult = NoResult
INVARIANTS
  BoundedFanOut
  CompleteOnReturn
  Isolation
PROPERTIES
  SweepSpec
  Terminates
