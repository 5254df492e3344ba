----------------------------- MODULE PacketPool -----------------------------
(***************************************************************************)
(* The state of one connection, its pool of frames (hal/hal_uv_packet.c)   *)
(* and the writing side of its transport (hal/hal_uv_client_tcp.c, _qemu.c *)
(* and _usb.c).                                                            *)
(*                                                                         *)
(* frame_count does two jobs in the code.  Up to FrameMax it counts the    *)
(* frames in use; FrameMax + 1 means that all are in use AND that somebody *)
(* was refused one since, so that the next release has to kick everybody.  *)
(*                                                                         *)
(* libuv (external) runs one callback at a time: each is one step.         *)
(***************************************************************************)
EXTENDS ServiceTable, Sequences

CONSTANTS
  FrameMax,         \* CONFIG_ADBD_FRAME_MAX
  Transport         \* which of the transports: "tcp", "qemu" or "usb"

ASSUME PoolAssumption == FrameMax \in Nat \ {0}

VARIABLES
  conn,             \* "up", "closing" (uv_close called) or "gone" (freed)
  is_connected,     \* the CNXN handshake is done
  reading,          \* reading of the host's socket is started
  cur,              \* client->cur_packet: {} or the frame being received
  frame_count,
  live,             \* frames allocated and not freed (what malloc knows)
  wq,               \* libuv's queue of frames written to the host
  next_service_id,
  svc,              \* the services, see ServiceTable
  fault             \* "none", or why the process is beyond repair

vars == <<conn, is_connected, reading, cur, frame_count, live, wq,
          next_service_id, svc, fault>>

Faults ==
  {"none",
   "double_close",   \* uv_close() on a handle that is closing: libuv aborts
   "null_services",  \* adb_service_close() walks an empty list
   "freed_service",  \* a callback or a list walk uses a freed service
   "freed_client",   \* a callback uses the freed client
   "freed_pipe",     \* the client is freed while one of its pipes is closing
   "read_restart"}   \* assert(): the kick cannot restart reading

Commands == {"CNXN", "AUTH", "OKAY", "WRTE", "CLSE"}

WireFrame ==
  [f : Frames, cmd : Commands, local : Nat, remote : Nat, more : BOOLEAN]

-----------------------------------------------------------------------------
(* adb_uv_packet_allocate() *)

Allocate(f) ==
  /\ frame_count < FrameMax
  /\ f \notin live
  /\ frame_count' = frame_count + 1
  /\ live' = live \cup {f}

\* (Mutations, here and below: what a plausible slip would make of the next
\* definition.)  The refusals are counted; they are not recorded.
RefuseCounts ==
  /\ frame_count >= FrameMax
  /\ frame_count' = frame_count + 1
  /\ UNCHANGED live

RefuseForgets ==
  /\ frame_count >= FrameMax
  /\ UNCHANGED <<frame_count, live>>

Refuse ==
  /\ frame_count >= FrameMax
  /\ frame_count' = FrameMax + 1
  /\ UNCHANGED live

-----------------------------------------------------------------------------
(* Writing to the host *)

\* client->ops->close(): only legal once.
CloseClient ==
  \/ /\ conn = "up"
     /\ conn' = "closing"
     /\ UNCHANGED fault
  \/ /\ conn = "closing"
     /\ fault' = "double_close"
     /\ UNCHANGED conn

\* send_frame(): uv_write() accepts every frame until the socket is closed;
\* then it fails and the error path closes the client a second time.  q is
\* the write queue at this point of the handler.
SendFrame(h, q) ==
  \/ /\ conn = "up"
     /\ wq' = Append(q, h)
     /\ UNCHANGED <<conn, fault>>
  \/ /\ conn = "closing"
     /\ wq' = q
     /\ CloseClient

-----------------------------------------------------------------------------
(* adb_hal_apacket_release() *)

\* The frame f is freed while the services are t and the write queue is q.
\* Nobody was refused: only the count changes.
ReleaseQuietly(f, t, q) ==
  /\ frame_count <= FrameMax
  /\ frame_count' = frame_count - 1
  /\ live' = live \ {f}
  /\ svc' = t
  /\ wq' = q
  /\ UNCHANGED <<reading, fault>>

\* Mutation: the frame just freed is not deducted.
ReleaseAndResumeMiscounts(f, t, q) ==
  /\ frame_count > FrameMax
  /\ NeedFrame(t) = {}
  /\ frame_count' = FrameMax
  /\ live' = live \ {f}
  /\ svc' = Resume(t)
  /\ wq' = q
  /\ reading' = (reading \/ conn = "up")
  /\ UNCHANGED fault

\* Somebody was refused and is kicked.  Reading cannot be restarted on a
\* closing socket, which tcp tolerates and the other transports assert against.
KickAborts == frame_count > FrameMax /\ conn # "up" /\ Transport # "tcp"

ReleaseAborts(f, t, q) ==
  /\ KickAborts
  /\ frame_count' = FrameMax - 1
  /\ live' = live \ {f}
  /\ svc' = t
  /\ wq' = q
  /\ fault' = "read_restart"
  /\ UNCHANGED reading

\* Every reader that may read goes on.
ReleaseAndResume(f, t, q) ==
  /\ frame_count > FrameMax /\ ~KickAborts
  /\ NeedFrame(t) = {}
  /\ frame_count' = FrameMax - 1
  /\ live' = live \ {f}
  /\ svc' = Resume(t)
  /\ wq' = q
  /\ reading' = (reading \/ conn = "up")
  /\ UNCHANGED fault

\* The kick reaches a service that has something to tell the host.  The
\* newest such service allocates the block just freed; the allocation of any
\* other one fails again.  A failed service is freed by its own on_kick()
\* and the walk goes on through freed memory.
ReleaseAndGrant(f, t, q) ==
  /\ frame_count > FrameMax /\ ~KickAborts
  /\ \E i \in Newest(NeedFrame(t)) :
       /\ frame_count' = IF NeedFrame(t) = {i} THEN FrameMax ELSE FrameMax + 1
       /\ svc' = [Resume(t) EXCEPT ![i] = Granted(@)]
       /\ \/ /\ conn = "up"
             /\ wq' = Append(q, GrantHeader(t, i, f))
             /\ fault' \in IF t[i].st = "error" THEN {"none", "freed_service"}
                                                ELSE {"none"}
          \/ /\ conn = "closing"
             /\ wq' = q
             /\ fault' = "double_close"
  /\ reading' = (reading \/ conn = "up")
  /\ UNCHANGED live

Release(f, t, q) ==
  \/ ReleaseQuietly(f, t, q)
  \/ ReleaseAborts(f, t, q)
  \/ ReleaseAndResume(f, t, q)
  \/ ReleaseAndGrant(f, t, q)

-----------------------------------------------------------------------------
(* adb_uv_after_write(): the oldest frame of the queue was written *)

HostWriteDone ==
  /\ fault = "none" /\ wq # <<>>
  /\ LET h == Head(wq) IN
     \/ \* an OKAY that carries an answer is followed by a data frame
        /\ h.more
        /\ SendFrame([h EXCEPT !.cmd = "WRTE", !.more = FALSE], Tail(wq))
        /\ UNCHANGED <<reading, frame_count, live, svc>>
     \/ /\ ~h.more
        /\ Release(h.f, svc, Tail(wq))
        /\ UNCHANGED conn
  /\ UNCHANGED <<is_connected, cur, next_service_id>>

\* The write failed, or was cancelled because the socket is closing.
HostWriteFailed ==
  /\ fault = "none" /\ wq # <<>>
  /\ \/ /\ conn = "up" /\ "hangup" \in Misfortunes
        /\ Release(Head(wq).f, svc, Tail(wq))
        /\ conn' = "closing"
     \/ /\ conn = "closing" /\ ~KickAborts
        /\ CloseClient
        /\ UNCHANGED <<reading, frame_count, live, wq, svc>>
     \/ /\ conn = "closing"
        /\ ReleaseAborts(Head(wq).f, svc, Tail(wq))
        /\ UNCHANGED conn
  /\ UNCHANGED <<is_connected, cur, next_service_id>>
=============================================================================
