\* The host hangs up while frames are being written to it.
SPECIFICATION Spec
CONSTANTS
  f1 = f1
  f2 = f2
  f3 = f3
  Frames = {f1, f2, f3}
  FrameMax = 2
  Transport = "tcp"
  MaxOpens = 2
  Peers <- MCPeers
  Kinds <- StreamKinds
  Misfortunes = {"hangup"}
  Authentication = FALSE
  AuthPubkey = FALSE
SYMMETRY FrameSymmetry
INVARIANTS
  ClosesOnce
CHECK_DEADLOCK FALSE
