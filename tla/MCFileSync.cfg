\* A host that sends one request at a time, and one that sends anything at any
\* time; the system calls may fail.
SPECIFICATION FairSpec
CONSTANTS
  Payload = 8
  PathMax = 9
  Lengths <- MCLengths
  MaxRest = 7
  MaxUnacked = 2
  Hosts = {TRUE, FALSE}
  Symlinks = TRUE
  Failures = TRUE
INVARIANTS
  TypeOK
  ResourcesFollowState
  PartialFits
  ReplyFits
  DoneMeansComplete
PROPERTIES
  FrameProcessed
  TransferEnds
\* A session ends with QUIT or an error.
CHECK_DEADLOCK FALSE
