SPECIFICATION Spec
CONSTANTS
  Proc = {p1}
  Timed = {p1}
  MaxVersion = 2
  MaxFaults = 2
  None = None
INVARIANTS
  AdvisedFileIsThere
