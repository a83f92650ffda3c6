SPECIFICATION StoreSpec
CONSTANTS
  Proc = {p1, p2}
  a = a
  b = b
  v1 = v1
  v2 = v2
  k1 = k1
  k2 = k2
  n1 = n1
  Name = {a, b}
  Veid = {v1, v2}
  Key = {k1, k2}
  Note = {n1}
  NoNote = NoNote
  NoName = NoName
  Env = Env
  Absent = Absent
  NoFile = NoFile
  Torn = Torn
  Job <- Jobs
PROPERTIES
  OnlyPassedFlagsChange
