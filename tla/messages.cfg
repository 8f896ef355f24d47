SPECIFICATION FairMessageSpec
CONSTANTS
  g1 = g1
  g2 = g2
  s1 = s1
  ping = ping
  pong = pong
  hello = hello
  show = show
  hide = hide
  Conn = {g1, g2}
  SessionId = {s1}
  ActorId = {}
  Data = {}
  None = None
  MessageId = {ping, pong, hello}
  Callback = {show, hide}
  MAX_MESSAGE_CALLBACKS = 2
  Registrations <- Calls
  MaxSent = 3
CHECK_DEADLOCK FALSE
INVARIANTS
  MessageTypeOK
  LatestHandlerIsCalled
  AnnouncedSizeHolds
  HandledInOrder
PROPERTIES
  QueueIsEmptied
