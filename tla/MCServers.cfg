\* Any call may fail; of each kind of object there may be another one.
SPECIFICATION ServersSpec
CONSTANTS
  Kinds = {"accept", "shell", "forward"}
  Fallible = {"malloc", "posix_openpt", "grantpt", "open", "atoi",
              "uv_pipe_init", "uv_pipe_open", "uv_spawn", "uv_tcp_init",
              "uv_tcp_connect", "uv_accept", "uv_read_start"}
  MaxObjects = 2
  Fds = {3, 4, 5}
  NoFd = 0
  Failures = {"open", "cookie", "poll_start", "host", "client"}
  MaxClients = 2
INVARIANTS
  OnlySocketLeft
  ReleasedOnce
  DanglingKnown
  OneOwner
PROPERTIES
  ClosedGoes
  ServesAgain
CHECK_DEADLOCK FALSE
