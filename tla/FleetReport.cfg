SPECIFICATION SpecReport
CONSTANTS
  N = 2
  Concurrency = 1
  DefaultConcurrency = 6
  NoResult = NoResult
  NoReport = NoReport
INVARIANTS
  NoHiddenError
  CheckedMeansVerified
