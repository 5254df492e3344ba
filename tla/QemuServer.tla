----------------------------- MODULE QemuServer -----------------------------
(***************************************************************************)
(* The server of the QEMU transport (hal_uv_client_qemu.c): it opens the    *)
(* pipe of the emulator and polls it.  A host that connects takes over this *)
(* very descriptor, so the server closes its poll handle, and opens the     *)
(* pipe anew from the close callback.                                       *)
(***************************************************************************)
EXTENDS FiniteSets, Integers

CONSTANTS
  Fds,          \* descriptors of the process
  NoFd,
  Failures,     \* subset of {"open", "cookie", "poll_start", "host", "client"}
  MaxClients    \* bound: connections at a time

ASSUME QemuAssumption ==
  NoFd \notin Fds /\ MaxClients \in Nat /\ MaxClients < Cardinality(Fds)

VARIABLES
  server,    \* adbd->qemu_server: "initial", "polling", "closing" or "none"
  polled,    \* the descriptor the poll handle is for
  open,      \* descriptors open in the process
  clients,   \* descriptors of the pipes of clients
  badclose   \* a descriptor was closed that was not open

qvars == <<server, polled, open, clients, badclose>>

QemuInit ==
  /\ server = "initial" /\ polled = NoFd
  /\ open = {} /\ clients = {} /\ badclose = FALSE

CloseFd(fd) ==
  /\ open' = open \ {fd}
  /\ badclose' = (badclose \/ fd \notin open)

\* adb_uv_qemu_setup(): the pipe is open and polled
SetupWorks ==
  \E fd \in Fds \ open :
    /\ server' = "polling" /\ polled' = fd
    /\ open' = open \cup {fd}
    /\ UNCHANGED badclose

\* open() fails, or the cookie is not written and the descriptor closed again
SetupFails ==
  /\ Failures \cap {"open", "cookie"} # {}
  /\ server' = "none" /\ polled' = NoFd
  /\ UNCHANGED <<open, badclose>>

\* uv_poll_start() fails: qemu_uv_on_readable() is called with the error, it
\* closes the handle and the descriptor
PollFails ==
  /\ "poll_start" \in Failures
  /\ server' = "closing" /\ polled' = NoFd
  /\ UNCHANGED <<open, badclose>>

QemuSetup == (SetupWorks \/ SetupFails \/ PollFails) /\ UNCHANGED clients

\* adb_hal_create_context(): without its server the program ends.
Start == server = "initial" /\ QemuSetup

\* Mutation: the server waits until the clients are gone.
ServerClosedAlone == server = "closing" /\ clients = {} /\ QemuSetup

\* qemu_uv_on_setup(): the result is not looked at.
ServerClosed == server = "closing" /\ QemuSetup

\* Mutation: the descriptor of a connection that failed stays open.
RefusedKeepsFd ==
  /\ server = "polling" /\ Failures \cap {"host", "client"} # {}
  /\ server' = "closing" /\ polled' = NoFd
  /\ UNCHANGED <<open, badclose, clients>>

\* qemu_uv_on_readable(), the error path: the emulator hung up, the host says
\* anything but "ok", "start" is not written, or there is no memory.
Refused ==
  /\ server = "polling" /\ Failures \cap {"host", "client"} # {}
  /\ server' = "closing" /\ polled' = NoFd
  /\ CloseFd(polled)
  /\ UNCHANGED clients

\* The pipe of the new client has the descriptor.
Accepted ==
  /\ server = "polling" /\ Cardinality(clients) < MaxClients
  /\ server' = "closing" /\ polled' = NoFd
  /\ clients' = clients \cup {polled}
  /\ UNCHANGED <<open, badclose>>

\* The pipe of a client closes: qemu_uv_close(), and the descriptor with it.
ClientClosed ==
  \E fd \in clients :
    /\ clients' = clients \ {fd}
    /\ CloseFd(fd)
    /\ UNCHANGED <<server, polled>>

QemuNext == Start \/ ServerClosed \/ Refused \/ Accepted \/ ClientClosed

QemuSpec == QemuInit /\ [][QemuNext]_qvars

\* The loop runs the close callback, and polling does not fail for ever.
QemuFairness ==
  /\ WF_qvars(ServerClosed)
  /\ SF_qvars(ServerClosed /\ server' # "closing")

-----------------------------------------------------------------------------
(* Properties *)

\* Each open descriptor belongs to the server or to one client, so that no
\* attempt that failed keeps one, and none is closed under its owner.
OneOwner ==
  /\ ~badclose
  /\ polled \notin clients
  /\ open = clients \cup (IF server = "polling" THEN {polled} ELSE {})

\* The device takes connections again after each one it accepted or refused,
\* whatever the others do, unless the pipe of the emulator does not open.
ServesAgain == (server = "closing") ~> (server \in {"polling", "none"})
=============================================================================
