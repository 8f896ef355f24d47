SPECIFICATION FairGameSpec
CONSTANTS
  c1 = c1
  c2 = c2
  c3 = c3
  s1 = s1
  a1 = a1
  a2 = a2
  a3 = a3
  empty = empty
  still = still
  moved = moved
  third = third
  players = players
  p1 = p1
  p2 = p2
  p3 = p3
  p4 = p4
  Conn = {c1, c2}
  SessionId = {s1}
  ActorId = {a1, a2}
  EmptyId = empty
  Data = {still, moved}
  None = None
  Scene = {1}
  NoScene = NoScene
  Pointer = {p1, p2, p3}
  uuid <- TwoIds
  ACTORCAT_PLAYER = players
  MAX_SYNCED_ACTORS = 2
  MAX_REMOTE_ACTORS = 2
  StartPose <- AllStill
  Poses <- FirstMoves
  TestModFirst = {c1}
  Saves = {c1}
  MaxScenes <- TwoOne
  MaxFailures <- ZeroOne
  MaxUp <- One
  MaxSnapshots <- OneTwo
  MayQuit = {}
CHECK_DEADLOCK FALSE
INVARIANTS
  OnePuppetPerActor
PROPERTIES
  PlayersMeet
