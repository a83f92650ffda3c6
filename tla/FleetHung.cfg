SPECIFICATION PatientSpec
CONSTANTS
  N = 3
  Concurrency = 1
  DefaultConcurrency = 6
  NoResult = NoResult
INVARIANTS
  OneHungBoxHidesNothing
