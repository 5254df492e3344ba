------------------------------- MODULE Setup --------------------------------
(***************************************************************************)
(* What microADB builds out of several calls that may fail: a connection    *)
(* of the TCP server (tcp_on_connection()), a shell (shell_service()) and a *)
(* forwarded connection (tcp_forward_service()); what the code undoes when  *)
(* a call fails; and how each is taken down again, over the close callbacks *)
(* of its libuv handles.                                                    *)
(*                                                                          *)
(* The loop keeps its handles in a queue: a handle is put there by          *)
(* uv_..._init() or uv_spawn() and leaves when its close callback runs.     *)
(* Memory that is freed without uv_close() leaves its handle there.         *)
(***************************************************************************)
EXTENDS Integers, Sequences, FiniteSets

CONSTANTS
  Kinds,       \* what is built: subset of {"accept", "shell", "forward"}
  Fallible,    \* the calls that may fail
  MaxObjects   \* bound: how many are built

ASSUME SetupAssumption ==
  Kinds \subseteq {"accept", "shell", "forward"} /\ MaxObjects \in Nat

VARIABLES
  objs,     \* [kind, at: calls that succeeded, state, closed: handles that left]
  held,     \* memory and descriptors in use: <<object, name>>
  loop,     \* handles in the queue of the loop: <<object, name>>
  twice     \* something was released that was not held

svars == <<objs, held, loop, twice>>

Call(name, gets, registers, undo) ==
  [name |-> name, gets |-> gets, registers |-> registers, undo |-> undo]

\* The labels of shell_service(): each falls through to the next.
ExitFreeService == {"service"}
ExitFreeArgv    == {"argv"} \cup ExitFreeService
ExitCloseFd0    == {"fd0"} \cup ExitFreeArgv

\* Mutation: the descriptor of the child is forgotten.
ExitCloseFd1Forgets == ExitCloseFd0

ExitCloseFd1 == {"fd1"} \cup ExitCloseFd0

ShellCalls ==
  << Call("malloc",         {"service"}, {},             {}),
     Call("malloc",         {"argv"},    {},             ExitFreeService),
     Call("posix_openpt",   {"fd0"},     {},             ExitFreeArgv),
     Call("grantpt",        {},          {},             ExitCloseFd0),
     Call("open",           {"fd1"},     {},             ExitCloseFd0),
     Call("uv_pipe_init",   {},          {"shell_pipe"}, ExitCloseFd1),
     Call("uv_pipe_open",   {},          {},             ExitCloseFd1),
     Call("uv_spawn",       {},          {"process"},    ExitCloseFd1) >>

\* adb_hal_socket_connect(), and what its caller undoes
ConnectCalls(undo) ==
  << Call("uv_tcp_init",    {},          {"socket"},     undo),
     Call("uv_tcp_connect", {"conn"},    {},             undo) >>

\* The call returns when the connection is under way.
ForwardCalls ==
  << Call("atoi",           {},          {},             {}),
     Call("malloc",         {"service"}, {},             {}) >>
  \o ConnectCalls({"service"})

AcceptCalls ==
  << Call("malloc",         {"client"},  {},             {}),
     Call("uv_tcp_init",    {},          {"socket"},     {"client"}),
     Call("uv_accept",      {"conn"},    {},             {"client"}),
     Call("uv_read_start",  {},          {},             {}) >>

Calls(kind) ==
  CASE kind = "shell"   -> ShellCalls
    [] kind = "forward" -> ForwardCalls
    [] kind = "accept"  -> AcceptCalls

\* Mutation: the process of a shell is not closed.
HandlesPipeOnly(kind) == IF kind = "shell" THEN <<"shell_pipe">>
                                           ELSE <<"socket">>

\* Mutation: both ends of the pty are closed once the shell runs.
SpareBothEnds(kind) ==
  IF kind = "shell" THEN {"fd0", "fd1", "argv"} ELSE {}

\* The memory its handles are in, what is let go of when it is complete, its
\* handles in the order they are closed, and the descriptor a handle closes.
Memory(kind)  == IF kind = "accept" THEN "client" ELSE "service"
Spare(kind)   == IF kind = "shell" THEN {"fd1", "argv"} ELSE {}
Handles(kind) == IF kind = "shell" THEN <<"shell_pipe", "process">>
                                   ELSE <<"socket">>
Descriptor(handle) ==
  CASE handle = "shell_pipe" -> {"fd0"}
    [] handle = "socket"     -> {"conn"}
    [] OTHER                 -> {}

\* What an object is once its last call succeeded: a forward has to wait for
\* its connection (F_NOT_CONNECTED).
Complete(kind) == IF kind = "forward" THEN "connecting" ELSE "open"

\* uv_tcp_connect() opens the socket, which stays open when connect() fails.
Leftovers(c) == IF c.name = "uv_tcp_connect" THEN SUBSET c.gets ELSE {{}}

Of(i, names) == {<<i, r>> : r \in names}
HeldBy(i) == {r[2] : r \in {h \in held : h[1] = i}}

\* Building is done within one callback: nothing else runs meanwhile.
Idle == \A i \in DOMAIN objs : objs[i].state # "setup"

Init ==
  /\ objs = << >>
  /\ held = {}
  /\ loop = {}
  /\ twice = FALSE

Begin(kind) ==
  /\ Idle /\ Len(objs) < MaxObjects
  /\ objs' = Append(objs, [kind |-> kind, at |-> 0, state |-> "setup",
                           closed |-> 0])
  /\ UNCHANGED <<held, loop, twice>>

\* Give back names of object i while it gets others.
Exchange(i, names, gets) ==
  /\ held' = (held \cup Of(i, gets)) \ Of(i, names)
  /\ twice' = (twice \/ ~(Of(i, names) \subseteq held \cup Of(i, gets)))

Register(i, handles) == loop' = loop \cup Of(i, handles)

CallSucceeds(i) ==
  /\ objs[i].state = "setup"
  /\ LET o == objs[i]
         c == Calls(o.kind)[o.at + 1]
         complete == o.at + 1 = Len(Calls(o.kind))
     IN /\ objs' = [objs EXCEPT ![i].at = @ + 1,
                                ![i].state = IF complete THEN Complete(o.kind)
                                                         ELSE @]
        /\ Exchange(i, IF complete THEN Spare(o.kind) ELSE {}, c.gets)
        /\ Register(i, c.registers)

\* Only tcp_on_connection() closes what it built when reading does not start.
CallFails(i) ==
  /\ objs[i].state = "setup"
  /\ LET o == objs[i]
         c == Calls(o.kind)[o.at + 1]
     IN /\ c.name \in Fallible
        /\ \E left \in Leftovers(c) :
             /\ objs' = [objs EXCEPT ![i].state =
                            IF c.name = "uv_read_start" THEN "closing"
                            ELSE IF left = {} THEN "failed" ELSE "abandoned"]
             /\ Exchange(i, c.undo, left)
  /\ UNCHANGED loop

\* tcp_stream_on_connect_cb()
Connect(i, result) ==
  /\ Idle /\ objs[i].state = "connecting"
  /\ objs' = [objs EXCEPT ![i].state = result]
  /\ UNCHANGED <<held, loop, twice>>

\* shell_close(), adb_hal_socket_close(), tcp_uv_close(): the first handle.
Close(i) ==
  /\ Idle /\ objs[i].state = "open"
  /\ objs' = [objs EXCEPT ![i].state = "closing"]
  /\ UNCHANGED <<held, loop, twice>>

\* atcp_stream_on_close() of a forward that is not connected, or was refused:
\* it is freed without uv_close().  Its handle stays in the loop, its socket
\* open.
Abandon(i) ==
  /\ Idle /\ objs[i].state \in {"connecting", "refused"}
  /\ objs' = [objs EXCEPT ![i].state = "abandoned"]
  /\ Exchange(i, {"service"}, {})
  /\ UNCHANGED loop

\* Mutation: the memory is freed by the first close callback.
HandleClosedFrees(i) ==
  /\ Idle /\ objs[i].state = "closing"
  /\ LET o == objs[i]
         h == Handles(o.kind)[o.closed + 1]
         last == o.closed + 1 = Len(Handles(o.kind))
     IN /\ objs' = [objs EXCEPT ![i].closed = @ + 1,
                                ![i].state = IF last THEN "gone" ELSE @]
        /\ Exchange(i, Descriptor(h) \cup
                       IF o.closed = 0 THEN {Memory(o.kind)} ELSE {}, {})
        /\ loop' = loop \ {<<i, h>>}

\* A close callback: the next handle is closed, or the memory is freed.
HandleClosed(i) ==
  /\ Idle /\ objs[i].state = "closing"
  /\ LET o == objs[i]
         h == Handles(o.kind)[o.closed + 1]
         last == o.closed + 1 = Len(Handles(o.kind))
     IN /\ objs' = [objs EXCEPT ![i].closed = @ + 1,
                                ![i].state = IF last THEN "gone" ELSE @]
        /\ Exchange(i, Descriptor(h) \cup
                       IF last THEN {Memory(o.kind)} ELSE {}, {})
        /\ loop' = loop \ {<<i, h>>}

Next ==
  \/ \E kind \in Kinds : Begin(kind)
  \/ \E i \in DOMAIN objs :
       \/ CallSucceeds(i) \/ CallFails(i)
       \/ \E result \in {"open", "refused"} : Connect(i, result)
       \/ Close(i) \/ Abandon(i) \/ HandleClosed(i)

Spec == Init /\ [][Next]_svars

\* A call returns, and the loop runs the callbacks of what is closing.
SetupFairness ==
  \A i \in 1..MaxObjects :
    /\ WF_svars(i \in DOMAIN objs /\ CallSucceeds(i))
    /\ WF_svars(i \in DOMAIN objs /\ HandleClosed(i))

-----------------------------------------------------------------------------
(* Properties *)

\* Whatever call fails and whenever it is closed, an object holds what its
\* state needs: its memory and one descriptor while it runs (the ends of the
\* child and the arguments are let go of), nothing once it is gone.  The one
\* thing the code loses is the socket of a forward that never connected.
OnlySocketLeft ==
  Idle => \A i \in DOMAIN objs :
    CASE objs[i].state \in {"gone", "failed"} -> HeldBy(i) = {}
      [] objs[i].state = "abandoned" ->
           objs[i].kind = "forward" /\ HeldBy(i) = {"conn"}
      [] objs[i].state = "closing" -> Memory(objs[i].kind) \in HeldBy(i)
      [] OTHER -> HeldBy(i) = {Memory(objs[i].kind)} \cup
                              Descriptor(Handles(objs[i].kind)[1])

\* No memory is freed, and no descriptor closed, a second time: not by an error
\* path that starts in the middle of the ladder, nor by a later callback.
ReleasedOnce == ~twice

\* libuv writes to the neighbours of a handle that enters or leaves its queue.
\* The handles there that have lost their memory are those of objects freed
\* without uv_close(), a set-up that failed or a forward that never connected,
\* and no others: what is closed keeps its memory until the last of its handles
\* has left.
Dangling == {e \in loop : <<e[1], Memory(objs[e[1]].kind)>> \notin held}

DanglingKnown ==
  Dangling = {e \in loop : objs[e[1]].state \in {"failed", "abandoned"}}

\* What uv_close() was called for is gone in the end, from memory and from the
\* loop.
StateOf(i) == IF i \in DOMAIN objs THEN objs[i].state ELSE "none"

ClosedGoes ==
  \A i \in 1..MaxObjects :
    (StateOf(i) = "closing")
      ~> (StateOf(i) = "gone" /\ \A e \in loop : e[1] # i)
=============================================================================
