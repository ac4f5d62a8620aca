CONSTANTS
  WireRequests <- MCRequests
  RepliesTo <- MCReplies
  Agent <- AgentText
  UrlCap = 144
  MethodCap = 8
  HostCap = 8
  PathCap = 130
  BaseRoom = 76
  FirstCap = 4
  Chunk = {1, 2, 5, 40}
  Unset = Unset
SPECIFICATION WireSpec
INVARIANTS
  WireTypeOK
  RequestDelivered
  EncoderKeepsRoom
  ReplyExact
CHECK_DEADLOCK FALSE
