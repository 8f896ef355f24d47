SPECIFICATION GameSpec
CONSTANTS
  c1 = c1
  c2 = c2
  c3 = c3
  s1 = s1
  a1 = a1
  a2 = a2
  a3 = a3
  empty = empty
  still = still
  moved = moved
  third = third
  players = players
  p1 = p1
  p2 = p2
  p3 = p3
  p4 = p4
  Conn = {c1, c2, c3}
  SessionId = {s1}
  ActorId = {a1, a2, a3}
  EmptyId = empty
  Data = {still, moved, third}
  None = None
  Scene = {1}
  NoScene = NoScene
  Pointer = {p1, p2, p3, p4}
  uuid <- ThreeIds
  ACTORCAT_PLAYER = players
  MAX_SYNCED_ACTORS = 2
  MAX_REMOTE_ACTORS = 1
  StartPose <- ThreePoses
  Poses <- NoneMoves
  TestModFirst = {c1, c2}
  Saves = {c1, c2}
  MaxScenes <- AllOne
  MaxFailures <- AllZero
  MaxUp <- AllOne
  MaxSnapshots <- AllOne
  MayQuit = {}
SYMMETRY Alike
CHECK_DEADLOCK FALSE
INVARIANTS
  OnePuppetPerActor
  PosesAreTheirs
