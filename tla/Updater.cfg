SPECIFICATION Spec
CONSTANTS
  Proc = {p1, p2}
  Timed = {p1}
  MaxVersion = 2
  MaxFaults = 2
  None = None
INVARIANTS
  Recoverable
  NoDownloadLeft
PROPERTIES
  OneFaultIsHealed
  InstalledIsTheRelease
  PromiseSpec
  Terminates
