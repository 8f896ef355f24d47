SPECIFICATION FairSyncSpec
CONSTANTS
  c1 = c1
  c2 = c2
  s1 = s1
  s2 = s2
  empty = empty
  a1 = a1
  d1 = d1
  Conn = {c1, c2}
  SessionId = {s1}
  ActorId = {a1}
  EmptyId = empty
  Data = {d1}
  Scene = {1}
  NoScene = NoScene
  None = None
  SwitchWithoutLeaving = FALSE
  Cap = 10
  MaxRequests = 2
  Kinds = {"join", "text", "register"}
  MayHangUp = {c1}
CHECK_DEADLOCK FALSE
INVARIANTS
  MembershipAgrees
  OwnersAreConnected
PROPERTIES
  UsesServerState
  LostIsForgotten
  PostedIsDelivered
