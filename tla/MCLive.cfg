\* The host may go away, and a forwarded connection may be refused.  For
\* liveness, no symmetry and the frames the pool may hand out only.
SPECIFICATION FairSpec
CONSTANTS
  f1 = f1
  f2 = f2
  f3 = f3
  Frames = {f1, f2}
  FrameMax = 2
  Transport = "usb"
  MaxOpens = 2
  Peers <- MCPeers
  Kinds <- AllKinds
  Misfortunes = {"hangup", "connect"}
  Authentication = FALSE
  AuthPubkey = FALSE
PROPERTIES
  HostResumes
  StreamsResume
  OpensSettle
CHECK_DEADLOCK FALSE
