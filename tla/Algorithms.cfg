SPECIFICATION Spec
CONSTANTS
  v1 = v1
  v2 = v2
  v3 = v3
  k1 = k1
  k2 = k2
  k3 = k3
  Veid = {v1, v2, v3}
  Key = {k1, k2, k3}
  Name <- MCName
  Exports <- MCExports
  Lookups <- MCLookups
  Usages <- MCUsages
  Feeds <- MCFeeds
  Infos <- MCInfos
  Tags <- MCTags
  Letter <- MCLetter
  Address = {"ip"}
  Place = {"osaka", "tokyo"}
  Digit = {0, 1, 2, 3, 5}
  Note = {}
  NoNote = NoNote
  NoName = NoName
  Env = Env
  Absent = Absent
  Number = {0, 1, 2}
  Other = Other
INVARIANTS
  ExportIsRead
  ReferenceIsSafe
  UsageIsOneSpan
  IncidentsAreShown
  AlertsAreSound
  Upwards
