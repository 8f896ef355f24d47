SPECIFICATION StateSpec
CONSTANTS
  c1 = c1
  c2 = c2
  c3 = c3
  Conn = {c1, c2, c3}
  SessionId = {s1, s2}
  ActorId = {empty, a1}
  EmptyId = empty
  Data = {d1}
  Scene = {1}
  NoScene = NoScene
  None = None
  SwitchWithoutLeaving = TRUE
SYMMETRY Symmetric
CHECK_DEADLOCK FALSE
INVARIANTS
  OwnersAreConnected
