SPECIFICATION FairSyncSpec
CONSTANTS
  c1 = c1
  c2 = c2
  s1 = s1
  s2 = s2
  empty = empty
  a1 = a1
  d1 = d1
  Conn = {c1, c2}
  SessionId = {s1}
  ActorId = {a1}
  EmptyId = empty
  Data = {d1}
  Scene = {1}
  NoScene = NoScene
  None = None
  SwitchWithoutLeaving = FALSE
  Cap = 1
  MaxRequests = 2
  Kinds = {"join", "text"}
  MayHangUp = {}
CHECK_DEADLOCK FALSE
PROPERTIES
  PostedIsDelivered
