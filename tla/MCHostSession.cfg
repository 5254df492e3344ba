\* Two streams of any kind, whose connection may be refused and which may fail.
SPECIFICATION SessionSpec
CONSTANTS
  f1 = f1
  f2 = f2
  Frames = {f1, f2}
  FrameMax = 2
  Transport = "tcp"
  MaxOpens = 2
  MaxWrites = 1
  Peers <- MCPeers
  Kinds <- AllKinds
  Misfortunes = {"connect", "write"}
  Authentication = FALSE
  AuthPubkey = FALSE
SYMMETRY FrameSymmetry
INVARIANTS
  WritesAnsweredOnce
  DataAckedOnce
  EndsAgree
\* When all streams are used and closed there is nothing left to do.
CHECK_DEADLOCK FALSE
