---------------------------- MODULE ServiceTable ----------------------------
(***************************************************************************)
(* The services of one ADB connection: the list client->services with what *)
(* each service keeps, and the pure part of the operations on it (lookup,  *)
(* on_kick, on_close).                                                     *)
(*                                                                         *)
(* Services are numbered by the identifier they get at registration.  A    *)
(* service is pushed in front of the list with a fresh, larger id, so the  *)
(* order of the list is the descending order of the ids and the table is   *)
(* a function on ids.                                                      *)
(***************************************************************************)
EXTENDS Integers

CONSTANTS
  Frames,       \* identities of the apacket blocks malloc can return
  MaxOpens,     \* BOUND: services ever registered on the connection
  Peers,        \* local ids the host may use for its end of a stream
  Kinds,        \* services compiled in, among "sync", "shell", "tcp"
  Misfortunes   \* what may go wrong around the daemon, see below

ASSUME ServiceTableAssumption ==
  /\ MaxOpens \in Nat \ {0}
  /\ Peers \subseteq Nat \ {0}
  /\ Kinds \subseteq {"sync", "shell", "tcp"}
  /\ Misfortunes \subseteq
       {"hangup",   \* the host goes away or its socket fails
        "garbage",  \* the host sends malformed frames, unknown commands, or
                    \* frames for a stream it was not told about
        "connect",  \* a forwarded TCP connection is refused
        "write",    \* a shell or a local socket that is open fails
        "random",   \* the system has no random bytes
        "malloc"}   \* no memory for a frame

Ids == 1..MaxOpens

(***************************************************************************)
(* st:  "open"        registered and running; for tcp this is F_CONNECTED, *)
(*                    or F_WAIT_ACK when ack holds                         *)
(*      "connecting"  F_NOT_CONNECTED: registered, connection pending      *)
(*      "notify"      F_NOTIFY_CLIENT: connected, the host not told yet    *)
(*      "error"       F_ERROR_CLOSE: failed, the host not told yet         *)
(*      "closing"     unregistered, uv_close() called on its stream        *)
(*      "freed"       memory released;  "unused": id not allocated yet     *)
(* q:   frames libuv is writing to the stream of the service               *)
(* rd:  reading of the stream is started                                   *)
(* ack: a data frame was sent and the host has not acknowledged it         *)
(* req: a connect request of the service is pending in the event loop      *)
(***************************************************************************)
Service ==
  [kind : {"sync", "shell", "tcp"},
   st   : {"unused", "open", "connecting", "notify", "error",
           "closing", "freed"},
   peer : Peers \cup {0},
   q    : SUBSET Frames,
   rd   : BOOLEAN, ack : BOOLEAN, req : BOOLEAN]

Unused == [kind |-> "sync", st |-> "unused", peer |-> 0, q |-> {},
           rd |-> FALSE, ack |-> FALSE, req |-> FALSE]

\* file_sync_service(): ready at once, driven by the host's frames only.
\* shell_service(): ready at once and reading its pty.
\* tcp_forward_service(): only a connect request so far.
Opened(kind, peer) ==
  [Unused EXCEPT !.kind = kind, !.peer = peer,
                 !.st   = IF kind = "tcp" THEN "connecting" ELSE "open",
                 !.rd   = (kind = "shell"),
                 !.req  = (kind = "tcp")]

-----------------------------------------------------------------------------
Registered(t) ==
  {i \in Ids : t[i].st \in {"open", "connecting", "notify", "error"}}

\* svc->service.id, which a failed connect resets to zero.
IdOf(t, i) == IF t[i].st = "error" THEN 0 ELSE i

Newest(S) == {i \in S : \A j \in S : j <= i}

\* Mutation: a peer of zero is not taken for any peer.
FindStrict(t, id, peer) ==
  Newest({i \in Registered(t) : IdOf(t, i) = id /\ peer = t[i].peer})

\* adb_client_find_service(): the first match in the list, as a set of at
\* most one service.
Find(t, id, peer) ==
  Newest({i \in Registered(t) : /\ IdOf(t, i) = id
                                /\ peer \in {0, t[i].peer}})

-----------------------------------------------------------------------------
Freed(r) == [Unused EXCEPT !.st = "freed", !.req = r.req]

\* ops->on_close().  The file service and a tcp service that never connected
\* are freed on the spot (a pending connect request stays in the loop); a
\* shell or a connected socket is closed first and freed in the callback.
OnClose(r) ==
  IF r.kind = "sync" \/ r.st \in {"connecting", "error"}
  THEN Freed(r)
  ELSE [r EXCEPT !.st = "closing", !.rd = FALSE]

CloseService(t, i) == [t EXCEPT ![i] = OnClose(@)]

-----------------------------------------------------------------------------
\* A stream that may read: nothing of it waits for an acknowledgement.
MayRead(r) == r.kind # "sync" /\ r.st = "open" /\ ~r.ack

\* Mutation: only shells are kicked.
ResumeShells(t) ==
  [i \in Ids |-> IF MayRead(t[i]) /\ t[i].kind = "shell"
                 THEN [t[i] EXCEPT !.rd = TRUE] ELSE t[i]]

\* Mutation: a kick does not look at the pending acknowledgement.
ResumeUnacked(t) ==
  [i \in Ids |-> IF t[i].kind # "sync" /\ t[i].st = "open"
                 THEN [t[i] EXCEPT !.rd = TRUE] ELSE t[i]]

\* on_kick() of the services that need no frame: restart reading.
Resume(t) ==
  [i \in Ids |-> IF MayRead(t[i]) THEN [t[i] EXCEPT !.rd = TRUE] ELSE t[i]]

\* Mutation: a kick forgets the connections that are to be announced.
NeedFrameForErrors(t) == {i \in Ids : t[i].st = "error"}

\* Services whose on_kick() asks for a frame to tell the host something.
NeedFrame(t) == {i \in Ids : t[i].st \in {"notify", "error"}}

\* try_connect() or try_close() with the frame obtained: what becomes of the
\* service, and the header of the frame it sends.
Granted(r) ==
  IF r.st = "notify" THEN [r EXCEPT !.st = "open", !.rd = TRUE] ELSE Freed(r)

Header(f, cmd, local, remote, more) ==
  [f |-> f, cmd |-> cmd, local |-> local, remote |-> remote, more |-> more]

GrantHeader(t, i, f) ==
  IF t[i].st = "notify" THEN Header(f, "OKAY", i, t[i].peer, FALSE)
                        ELSE Header(f, "CLSE", 0, t[i].peer, FALSE)
=============================================================================
