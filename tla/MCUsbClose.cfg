\* A client on the USB transport is closed.
SPECIFICATION Spec
CONSTANTS
  f1 = f1
  f2 = f2
  f3 = f3
  Frames = {f1, f2, f3}
  FrameMax = 2
  Transport = "usb"
  MaxOpens = 2
  Peers <- MCPeers
  Kinds <- StreamKinds
  Misfortunes = {"hangup"}
  Authentication = FALSE
  AuthPubkey = FALSE
SYMMETRY FrameSymmetry
INVARIANTS
  PipesOutlived
CHECK_DEADLOCK FALSE
