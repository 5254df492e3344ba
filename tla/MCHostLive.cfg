\* Liveness: two forwarded connections, the smallest pool.
SPECIFICATION FairSessionSpec
CONSTANTS
  f1 = f1
  f2 = f2
  Frames = {f1}
  FrameMax = 1
  Transport = "tcp"
  MaxOpens = 2
  MaxWrites = 1
  Peers <- MCPeers
  Kinds = {"tcp"}
  Misfortunes = {}
  Authentication = FALSE
  AuthPubkey = FALSE
PROPERTIES
  WritesAnswered
  ClosesArrive
\* When all streams are used and closed there is nothing left to do.
CHECK_DEADLOCK FALSE
