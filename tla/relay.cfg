SPECIFICATION RelaySpec
CHECK_DEADLOCK FALSE
CONSTANTS
  Sessions = {s1, s2}
  Sockets = 2
  PieceLen = 5
  Byte <- FrameByte
  Messages <- FrameMessages
  Quiet = {s2}
  MaxSent = 9
  HeadLen = 3
  BufLen = 8
  Lookalike = {4}
  Sizes = {4, 5, 9}
  MaxFrames = 2
INVARIANTS
  SocketsAccounted
  ReportsExact
PROPERTIES
  Forwards
  SessionsEnd
