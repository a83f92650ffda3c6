SPECIFICATION Spec
CONSTANTS
  Server = {s1, s2}
  NoServer = NoServer
  Object = {o1}
  AsTyped = AsTyped
  NoObject = NoObject
  Commands <- ShapeCommands
  GuestStatus = {1, 3}
INVARIANTS
  RejectedExitsAuth
