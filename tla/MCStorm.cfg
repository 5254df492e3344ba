\* Everything may go wrong.
SPECIFICATION Spec
CONSTANTS
  f1 = f1
  f2 = f2
  f3 = f3
  Frames = {f1, f2, f3}
  FrameMax = 2
  Transport = "tcp"
  MaxOpens = 2
  Peers <- MCPeers
  Kinds <- AllKinds
  Misfortunes <- AllMisfortunes
  Authentication = TRUE
  AuthPubkey = TRUE
SYMMETRY FrameSymmetry
PROPERTIES
  ImplementsPool
  FramesKept
INVARIANTS
  TypeOK
  FrameAccounting
  SingleOwner
  NoLostWakeup
  ReadersGated
  NoChallengeAfterBanner
  QuietBeforeConnect
CHECK_DEADLOCK FALSE
