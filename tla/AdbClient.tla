----------------------------- MODULE AdbClient ------------------------------
(***************************************************************************)
(* One ADB connection: the reading side of its transport                   *)
(* (hal/hal_uv_packet.c), the protocol handlers (adb_client.c) and its end *)
(* (hal/hal_uv.c), over the pool and the services of the modules it        *)
(* extends.  The host may send any frame at any time.                      *)
(***************************************************************************)
EXTENDS StreamServices, FiniteSets

CONSTANTS
  Authentication,   \* CONFIG_ADBD_AUTHENTICATION
  AuthPubkey        \* CONFIG_ADBD_AUTH_PUBKEY

ASSUME BuildAssumption == {Authentication, AuthPubkey} \subseteq BOOLEAN

Init ==
  /\ conn = "up"
  /\ is_connected = FALSE
  /\ reading = TRUE
  /\ cur = {}
  /\ frame_count = 0
  /\ live = {}
  /\ wq = <<>>
  /\ next_service_id = 1
  /\ svc = [i \in Ids |-> Unused]
  /\ fault = "none"

-----------------------------------------------------------------------------
(* adb_uv_allocate_frame() and adb_uv_on_data_available(): reading a frame *)

Listening == fault = "none" /\ conn = "up" /\ reading

\* The first bytes of a frame arrive.
HostReadBegin ==
  /\ Listening /\ cur = {}
  /\ \E f \in Frames : Allocate(f) /\ cur' = {f}
  /\ UNCHANGED <<conn, is_connected, reading, wq, next_service_id, svc, fault>>

\* No frame to receive them in: stop reading until the pool kicks.
HostReadPark ==
  /\ Listening /\ cur = {}
  /\ Refuse
  /\ reading' = FALSE
  /\ UNCHANGED <<conn, is_connected, cur, wq, next_service_id, svc, fault>>

HostOutOfMemory ==
  /\ Listening /\ cur = {}
  /\ "malloc" \in Misfortunes
  /\ frame_count < FrameMax
  /\ CloseClient
  /\ reading' = FALSE
  /\ UNCHANGED <<is_connected, cur, frame_count, live, wq, next_service_id,
                 svc>>

\* End of file or a read error.  libuv asks for a buffer before it reads, so
\* a frame is in place by then.
HostHangup ==
  /\ Listening
  /\ "hangup" \in Misfortunes
  /\ \/ cur # {} /\ UNCHANGED <<cur, frame_count, live>>
     \/ cur = {} /\ \E f \in Frames : Allocate(f) /\ cur' = {f}
  /\ CloseClient
  /\ UNCHANGED <<is_connected, reading, wq, next_service_id, svc>>

\* Bad magic, length or checksum.
HostBadFrame ==
  /\ Listening /\ cur # {}
  /\ "garbage" \in Misfortunes
  /\ CloseClient
  /\ UNCHANGED <<is_connected, reading, cur, frame_count, live, wq,
                 next_service_id, svc>>

-----------------------------------------------------------------------------
(* adb_process_packet(): f is the frame received *)

Received(f) ==
  /\ Listening /\ cur = {f}
  /\ cur' = {}

\* The frame goes back to the host with another header.
Answer(h) ==
  /\ SendFrame(h, wq)
  /\ UNCHANGED <<reading, frame_count, live>>

\* The frame is released, t being the services by then.
Drop(f, t) == Release(f, t, wq) /\ UNCHANGED conn

\* send_auth_request()
AuthRequest(f) ==
  \/ Answer(Header(f, "AUTH", 0, 0, FALSE)) /\ UNCHANGED svc
  \/ "random" \in Misfortunes /\ Release(f, svc, wq) /\ conn' = "closing"

RecvCnxn ==
  \E f \in cur :
    /\ Received(f)
    /\ \/ /\ is_connected \/ ~Authentication
          /\ Answer(Header(f, "CNXN", 0, 0, FALSE))
          /\ is_connected' = TRUE
          /\ UNCHANGED svc
       \/ /\ ~is_connected /\ Authentication
          /\ AuthRequest(f)
          /\ UNCHANGED is_connected
    /\ UNCHANGED next_service_id

\* Mutation: authentication frames are welcome at any time.
RecvAuthAnytime(type) ==
  /\ Authentication
  /\ \E f \in cur :
       /\ Received(f)
       /\ IF type = "rsapublickey"
          THEN /\ Answer(Header(f, "CNXN", 0, 0, FALSE))
               /\ is_connected' = TRUE
               /\ UNCHANGED svc
          ELSE AuthRequest(f) /\ UNCHANGED is_connected
  /\ UNCHANGED next_service_id

\* handle_auth_frame()
RecvAuth(type) ==
  /\ Authentication /\ ~is_connected
  /\ \E f \in cur :
       /\ Received(f)
       /\ \/ /\ type = "signature"
             /\ AuthRequest(f)
             /\ UNCHANGED is_connected
          \/ /\ type = "rsapublickey" /\ AuthPubkey
             /\ Answer(Header(f, "CNXN", 0, 0, FALSE))
             /\ is_connected' = TRUE
             /\ UNCHANGED svc
          \/ /\ type = "token" \/ (type = "rsapublickey" /\ ~AuthPubkey)
             /\ Drop(f, svc)
             /\ UNCHANGED is_connected
  /\ UNCHANGED next_service_id

-----------------------------------------------------------------------------
(* handle_open_frame() *)

\* Mutation: the asynchronous service is announced like the others.
RecvOpenEager(peer, kind) ==
  /\ next_service_id <= MaxOpens
  /\ \E f \in cur :
       /\ Received(f)
       /\ next_service_id' = next_service_id + 1
       /\ Answer(Header(f, "OKAY", next_service_id, peer, FALSE))
       /\ svc' = [svc EXCEPT ![next_service_id] = Opened(kind, peer)]
  /\ UNCHANGED is_connected

\* A new service; only the asynchronous one does not answer at once.
RecvOpen(peer, kind) ==
  /\ next_service_id <= MaxOpens
  /\ \E f \in cur :
       LET i == next_service_id
           t == [svc EXCEPT ![i] = Opened(kind, peer)]
       IN /\ Received(f)
          /\ next_service_id' = i + 1
          /\ \/ kind = "tcp" /\ Drop(f, t)
             \/ /\ kind # "tcp"
                /\ Answer(Header(f, "OKAY", i, peer, FALSE))
                /\ svc' = t
  /\ UNCHANGED is_connected

\* An unknown service, one that cannot be set up, or reboot: no service.
RecvOpenRefused(peer) ==
  \E f \in cur :
    /\ Received(f)
    /\ Answer(Header(f, "CLSE", 0, peer, FALSE))
    /\ UNCHANGED <<is_connected, next_service_id, svc>>

\* Local id zero, or a remote id that is not zero.
RecvOpenMalformed ==
  /\ "garbage" \in Misfortunes
  /\ \E f \in cur : Received(f) /\ Drop(f, svc)
  /\ UNCHANGED <<is_connected, next_service_id>>

-----------------------------------------------------------------------------
(* Frames that name a stream: the host's id of it and ours *)

\* The host learns the id of a stream from its first OKAY.
Addressable(id) ==
  \/ "garbage" \in Misfortunes
  \/ id \in Ids /\ svc[id].st \in {"open", "closing", "freed"}

\* Mutation: the frame is released only when nothing was to close.
RecvClseKeepsFrame(peer, id) ==
  /\ Addressable(id)
  /\ \E f \in cur :
       /\ Received(f)
       /\ \/ \E i \in Find(svc, id, peer) :
               /\ svc' = CloseService(svc, i)
               /\ UNCHANGED <<conn, reading, frame_count, live, wq, fault>>
          \/ Find(svc, id, peer) = {} /\ Drop(f, svc)
  /\ UNCHANGED <<is_connected, next_service_id>>

\* handle_close_frame()
RecvClse(peer, id) ==
  /\ Addressable(id)
  /\ \E f \in cur :
       /\ Received(f)
       /\ \/ \E i \in Find(svc, id, peer) : Drop(f, CloseService(svc, i))
          \/ Find(svc, id, peer) = {} /\ Drop(f, svc)
  /\ UNCHANGED <<is_connected, next_service_id>>

\* There is no such stream (any more): the host is told so.
Unanswerable(f, id, peer) ==
  /\ Answer(Header(f, "CLSE", id, peer, FALSE))
  /\ UNCHANGED svc

Fails(i, f) ==
  /\ CloseAndTell(i, f, svc, wq)
  /\ UNCHANGED <<reading, frame_count, live>>

\* Mutation: the stream does not say that it keeps the frame.
WriteToServiceSync(i, f) ==
  IF svc[i].st = "open"
  THEN /\ Answer(Header(f, "OKAY", i, svc[i].peer, FALSE))
       /\ svc' = [svc EXCEPT ![i].q = @ \cup {f}]
  ELSE Fails(i, f)

\* handle_write_frame() and the on_write_frame() of service i
WriteToService(i, f) ==
  \/ \* the file service answers at once, maybe with data, or gives up
     /\ svc[i].kind = "sync"
     /\ \/ Fails(i, f)
        \/ \E more \in BOOLEAN :
             /\ Answer(Header(f, "OKAY", i, svc[i].peer, more))
             /\ UNCHANGED svc
  \/ \* a connection that is not established yet
     /\ svc[i].kind = "tcp" /\ svc[i].st # "open"
     /\ Fails(i, f)
  \/ \* a stream keeps the frame until it is written
     /\ svc[i].kind # "sync" /\ svc[i].st = "open"
     /\ \/ "write" \in Misfortunes /\ Fails(i, f)
        \/ /\ svc' = [svc EXCEPT ![i].q = @ \cup {f}]
           /\ UNCHANGED <<conn, reading, frame_count, live, wq, fault>>

RecvWrte(peer, id) ==
  /\ Addressable(id)
  /\ \E f \in cur :
       /\ Received(f)
       /\ \/ \E i \in Find(svc, id, peer) : WriteToService(i, f)
          \/ Find(svc, id, peer) = {} /\ Unanswerable(f, id, peer)
  /\ UNCHANGED <<is_connected, next_service_id>>

\* shell_ack() restarts reading; atcp_stream_on_ack() only in F_WAIT_ACK.
Acked(r) ==
  IF r.kind = "tcp" /\ ~(r.st = "open" /\ r.ack)
  THEN r
  ELSE [r EXCEPT !.ack = FALSE, !.rd = TRUE]

\* handle_okay_frame() and the on_ack_frame() of service i
AckToService(i, f) ==
  \/ /\ svc[i].kind = "sync"
     /\ \/ Fails(i, f)
        \/ /\ Answer(Header(f, "WRTE", i, svc[i].peer, FALSE))
           /\ UNCHANGED svc
        \/ Drop(f, svc)
  \/ /\ svc[i].kind # "sync"
     /\ Drop(f, [svc EXCEPT ![i] = Acked(@)])

RecvOkay(peer, id) ==
  /\ Addressable(id)
  /\ \E f \in cur :
       /\ Received(f)
       /\ \/ \E i \in Find(svc, id, 0) : AckToService(i, f)
          \/ Find(svc, id, 0) = {} /\ Unanswerable(f, id, peer)
  /\ UNCHANGED <<is_connected, next_service_id>>

\* Any other command, AUTH included when it is not expected.
RecvUnknown ==
  /\ "garbage" \in Misfortunes
  /\ \E f \in cur : Received(f) /\ Release(f, svc, wq)
  /\ conn' = "closing"
  /\ UNCHANGED <<is_connected, next_service_id>>

-----------------------------------------------------------------------------
(* tcp_uv_on_close() and its twins: adb_uv_close_client(),                   *)
(* adb_destroy_client()                                                      *)

CloseAll(t) ==
  [i \in Ids |-> IF i \in Registered(t) THEN OnClose(t[i]) ELSE t[i]]

\* Releasing the frame that was being received may kick a service that has
\* something to tell a host it cannot write to any more.
GrantsOnClose ==
  cur # {} /\ frame_count > FrameMax /\ NeedFrame(svc) # {} /\ ~KickAborts

HostClosed ==
  /\ fault = "none" /\ conn = "closing" /\ wq = <<>>
  /\ \/ /\ GrantsOnClose
        /\ fault' = "double_close"
        /\ UNCHANGED <<conn, reading, cur, frame_count, live, wq, svc>>
     \/ /\ ~GrantsOnClose
        /\ conn' = "gone"
        /\ cur' = {}
        /\ \/ \E f \in cur : Release(f, CloseAll(svc), <<>>)
           \/ /\ cur = {}
              /\ svc' = CloseAll(svc)
              /\ UNCHANGED <<reading, frame_count, live, wq, fault>>
  /\ UNCHANGED <<is_connected, next_service_id>>

\* usb_uv_close() closes two pipes, and libuv promises no order: the callback
\* of the one may free the client, both pipes with it, before libuv has
\* cancelled the writes to the other.
UsbClosed ==
  /\ Transport = "usb"
  /\ fault = "none" /\ conn = "closing"
  /\ fault' = "freed_pipe"
  /\ UNCHANGED <<conn, is_connected, reading, cur, frame_count, live, wq,
                 next_service_id, svc>>

-----------------------------------------------------------------------------
FromTransport ==
  \/ HostReadBegin \/ HostReadPark \/ HostOutOfMemory
  \/ HostHangup \/ HostBadFrame
  \/ HostWriteDone \/ HostWriteFailed \/ HostClosed \/ UsbClosed

Protocol ==
  \/ RecvCnxn
  \/ \E type \in {"token", "signature", "rsapublickey"} : RecvAuth(type)
  \/ \E peer \in Peers, kind \in Kinds : RecvOpen(peer, kind)
  \/ \E peer \in Peers : RecvOpenRefused(peer)
  \/ RecvOpenMalformed
  \/ \E peer \in Peers \cup {0}, id \in Ids \cup {0} :
       RecvClse(peer, id) \/ RecvWrte(peer, id) \/ RecvOkay(peer, id)
  \/ RecvUnknown

Streams ==
  \E i \in Ids :
    \/ SvcReadFrame(i) \/ SvcReadPark(i) \/ SvcReadEnd(i)
    \/ SvcOutOfMemory(i) \/ ConnectDone(i) \/ SvcClosed(i)
    \/ \E f \in Frames :
         SvcWriteDone(i, f) \/ SvcWriteFailed(i, f) \/ SvcWriteOrphaned(i, f)

Next == FromTransport \/ Protocol \/ Streams

Spec == Init /\ [][Next]_vars

\* The event loop reports every write, done or not, every connection and every
\* close sooner or later; nothing forces the host or a stream to send anything.
Fairness ==
  /\ WF_vars(HostWriteDone \/ HostWriteFailed) /\ WF_vars(HostClosed)
  /\ \A i \in Ids :
       /\ WF_vars(ConnectDone(i)) /\ WF_vars(SvcClosed(i))
       /\ \A f \in Frames :
            WF_vars(SvcWriteDone(i, f) \/ SvcWriteFailed(i, f))

FairSpec == Spec /\ Fairness

-----------------------------------------------------------------------------
(* Properties *)

TypeOK ==
  /\ conn \in {"up", "closing", "gone"}
  /\ is_connected \in BOOLEAN
  /\ reading \in BOOLEAN
  /\ cur \subseteq Frames
  /\ frame_count \in 0..(FrameMax + 1)
  /\ live \subseteq Frames
  /\ wq \in Seq(WireFrame)
  /\ next_service_id \in 1..(MaxOpens + 1)
  /\ svc \in [Ids -> Service]
  /\ fault \in Faults

\* The two meanings of frame_count: it counts the frames in use, or says that
\* all are in use and somebody waits.  The pool never hands out more than
\* CONFIG_ADBD_FRAME_MAX frames, never forgets one, and the assertion of
\* adb_hal_apacket_release() (frame_count > 0) holds at every release.
FrameAccounting ==
  Cardinality(live) = IF frame_count <= FrameMax THEN frame_count ELSE FrameMax

\* Who has which frame: c is the frame being received, q the write queue to the
\* host, t the services with what libuv writes to their streams.
FramesOf(q) == {q[k].f : k \in DOMAIN q}
Uses(c, q, t) == c \cup FramesOf(q) \cup UNION {t[i].q : i \in Ids}
Apart(c, q, t) ==
  /\ c \cap FramesOf(q) = {}
  /\ \A j, k \in DOMAIN q : q[j].f = q[k].f => j = k
  /\ \A i \in Ids : t[i].q \cap (c \cup FramesOf(q)) = {}
  /\ \A i, j \in Ids : i # j => t[i].q \cap t[j].q = {}

\* A frame in use has one owner: the reader of the host's socket, one position
\* of the write queue, or one write of one service.  Otherwise two writes would
\* share their request and payload, or a frame would be freed under a writer.
SingleOwner == Uses(cur, wq, svc) \subseteq live /\ Apart(cur, wq, svc)

\* Frames in use that nobody will release.
Lost == live \ Uses(cur, wq, svc)

\* Frames that libuv is writing to services that are closed.
Doomed == UNION {svc[i].q : i \in {j \in Ids : svc[j].st = "closing"}}

\* A frame in use has an owner who will release it, with one exception: the
\* write to a service that is closed already is cancelled, and
\* adb_service_close() drops the frame of a service it does not find.  No other
\* callback of the daemon loses a frame, however the host and the streams fail.
FramesKept == [][fault' = "none" => Lost' \subseteq Lost \cup Doomed]_vars

\* Who stopped for want of a frame and waits for a kick, while the connection
\* lasts.
HostParked == conn = "up" /\ ~reading
StreamParked(i) == conn = "up" /\ MayRead(svc[i]) /\ ~svc[i].rd
NewsParked(i) == conn = "up" /\ i \in NeedFrame(svc)

\* The pool as its users see it: the reader of the host (0) and the services.
Waiting ==
  (IF HostParked THEN {0} ELSE {}) \cup
  {i \in Ids : StreamParked(i) \/ NewsParked(i)}

\* Whoever stopped for want of a frame is remembered by the pool, so that the
\* next release kicks: no reader sleeps while a frame is free.
NoLostWakeup == Waiting # {} => frame_count = FrameMax + 1

Pool == INSTANCE FramePool WITH Blocks <- Frames, Users <- Ids \cup {0},
                                Max <- FrameMax,
                                inuse <- live, waiting <- Waiting

\* frame_count and the kicks implement a bounded pool that wakes everybody up
\* whenever a frame comes back.
ImplementsPool == Pool!PoolSpec

\* A stream is only read when no data of it waits for an acknowledgement: the
\* assertion of alloc_buffer() (wait_ack == 0) and the check of the state in
\* tcp_stream_on_data_cb().
ReadersGated ==
  \A i \in Ids : svc[i].rd => svc[i].st = "open" /\ ~svc[i].ack

\* The host hears nothing of a forwarded connection before it is established
\* and announced by its OKAY, nor after it was refused.
QuietBeforeConnect ==
  \A k \in DOMAIN wq : wq[k].cmd \in {"OKAY", "WRTE"} =>
    svc[wq[k].local].st \in {"open", "closing", "freed"}

\* The token challenge belongs to the handshake: once the banner is on its way
\* to the host, no challenge follows it.
NoChallengeAfterBanner ==
  \A j, k \in DOMAIN wq : wq[j].cmd = "CNXN" /\ j < k => wq[k].cmd # "AUTH"

\* A service that is closed is in the list: adb_service_close() finds it, and
\* only warns when it does not.
ClosesFindServices == fault # "null_services"

\* tcp_uv_close() "cancel[s] all pending write requests": what libuv reports of
\* them afterwards is harmless.
ClosesOnce == fault # "double_close"

\* usb_uv_close() closes its pipes and "cancel[s] all pending write requests":
\* the pipes last until they are closed.
PipesOutlived == fault # "freed_pipe"

\* What the daemon does not recover from: a fault, or a frame that was lost.
Broken == fault # "none" \/ Lost # {}

\* A host whose socket is not read for want of a frame is read again, unless
\* the connection ends.
HostResumes == HostParked ~> reading \/ conn # "up" \/ Broken

\* A stream that is not read for want of a frame is read again, unless it is
\* closed; it is closed with the connection.
StreamsResume ==
  \A i \in Ids :
    StreamParked(i) ~> svc[i].rd \/ svc[i].st # "open" \/ Broken

\* Every OPEN of a forwarded connection is answered: the connection is
\* announced or refused, or given up with the host's own, and no service waits
\* for that forever.
OpensSettle ==
  \A i \in Ids :
    svc[i].st \in {"connecting", "notify", "error"} ~>
      svc[i].st \in {"open", "closing", "freed"} \/ Broken
=============================================================================
