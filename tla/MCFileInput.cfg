\* A host that sends several requests in a frame; no system call fails.
SPECIFICATION Spec
CONSTANTS
  Payload = 8
  PathMax = 9
  Lengths = {1}
  MaxRest = 1
  MaxUnacked = 2
  Hosts = {FALSE}
  Symlinks = FALSE
  Failures = FALSE
INVARIANTS
  InputIntact
\* A session ends with QUIT or an error.
CHECK_DEADLOCK FALSE
