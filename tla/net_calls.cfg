SPECIFICATION NetSpec
CONSTANTS
  c1 = c1
  c2 = c2
  s1 = s1
  s2 = s2
  empty = empty
  a1 = a1
  d1 = d1
  Conn = {c1, c2}
  SessionId = {s1, s2}
  ActorId = {a1}
  EmptyId = empty
  Data = {d1}
  Scene = {1}
  NoScene = NoScene
  None = None
  SwitchWithoutLeaving = TRUE
  Cap = 2
  MaxRequests = 3
  Kinds = {"join", "leave", "register", "update", "text"}
  MayHangUp = {}
  Calls = {"join", "leave", "register", "update", "text", "get"}
CONSTRAINT FewRequests
SYMMETRY Symmetric
VIEW Live
CHECK_DEADLOCK FALSE
INVARIANTS
  NetTypeOK
  OwnedIsLocal
  SessionFollowsRequests
PROPERTIES
  SnapshotsAddNothing
  UpdatesTakeEffect
