SPECIFICATION MCSpec
CONSTANTS
  a = a
  b = b
  v1 = v1
  v2 = v2
  v3 = v3
  k1 = k1
  Name = {a, b}
  Veid = {v1, v2, v3}
  Key = {k1}
  Note = {}
  NoNote = NoNote
  NoName = NoName
  Env = Env
  Absent = Absent
  EnvVeid = v3
  Fleet <- Fleets
  Lines <- ClientLines
  MaxLines = 2
  MaxEdits = 1
INVARIANTS
  OfferedIsNotRefused
  ReadOnlyChangesNothing
  DoneOnce
  OneNameOneBox
  ProtocolErrorTouchesNothing
PROPERTIES
  RpcSpec
