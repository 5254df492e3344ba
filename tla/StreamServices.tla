--------------------------- MODULE StreamServices ---------------------------
(***************************************************************************)
(* What the event loop calls on the services that own a stream: the shell  *)
(* (hal/shell_service_uv.c) and forwarded TCP connections (tcp_service.c,  *)
(* hal/hal_uv_socket.c).                                                   *)
(***************************************************************************)
EXTENDS PacketPool

Untouched == UNCHANGED <<is_connected, cur, next_service_id>>

\* adb_service_close() with a frame: the host is told, then on_close() runs.
\* t and q are the services and the write queue at this point.
CloseAndTell(i, f, t, q) ==
  /\ svc' = CloseService(t, i)
  /\ SendFrame(Header(f, "CLSE", IdOf(t, i), t[i].peer, FALSE), q)

Readable(i) ==
  /\ fault = "none"
  /\ svc[i].rd

-----------------------------------------------------------------------------
(* alloc_buffer() and pipe_on_data_available(), and their tcp twins *)

\* Data: reading stops until the host acknowledges the frame.
SvcReadFrame(i) ==
  /\ Readable(i)
  /\ \E f \in Frames :
       /\ Allocate(f)
       /\ SendFrame(Header(f, "WRTE", i, svc[i].peer, FALSE), wq)
  /\ svc' = [svc EXCEPT ![i].rd = FALSE, ![i].ack = TRUE]
  /\ UNCHANGED reading /\ Untouched

\* No frame: reading stops until the pool kicks the service (UV_ENOBUFS).
SvcReadPark(i) ==
  /\ Readable(i)
  /\ Refuse
  /\ svc' = [svc EXCEPT ![i].rd = FALSE]
  /\ UNCHANGED <<conn, reading, wq, fault>> /\ Untouched

\* End of the stream, or a read error.
SvcReadEnd(i) ==
  /\ Readable(i)
  /\ \E f \in Frames : Allocate(f) /\ CloseAndTell(i, f, svc, wq)
  /\ UNCHANGED reading /\ Untouched

\* malloc() fails: the connection is given up, and the empty buffer parks
\* the stream.
SvcOutOfMemory(i) ==
  /\ Readable(i)
  /\ "malloc" \in Misfortunes
  /\ frame_count < FrameMax
  /\ CloseClient
  /\ svc' = [svc EXCEPT ![i].rd = FALSE]
  /\ UNCHANGED <<reading, frame_count, live, wq>> /\ Untouched

-----------------------------------------------------------------------------
(* tcp_stream_on_connect_cb() *)

\* What the service becomes before it asks for a frame: F_NOTIFY_CLIENT or
\* F_ERROR_CLOSE.
ConnectResult == IF "connect" \in Misfortunes THEN {"notify", "error"}
                                              ELSE {"notify"}

\* The frame is there: OKAY for the host, or CLSE and the end of the service,
\* in which case libuv goes on with the freed handle when the callback ends.
ConnectTold(i, t, f) ==
  /\ Allocate(f)
  /\ svc' = [t EXCEPT ![i] = Granted(@)]
  /\ \/ /\ conn = "up"
        /\ wq' = Append(wq, GrantHeader(t, i, f))
        /\ fault' \in IF t[i].st = "error" THEN {"none", "freed_service"}
                                           ELSE {"none"}
        /\ UNCHANGED conn
     \/ /\ conn = "closing"
        /\ CloseClient
        /\ UNCHANGED wq

\* No frame is left: the host is told when the pool kicks the service.
ConnectParked(t) ==
  /\ Refuse
  /\ svc' = t
  /\ UNCHANGED <<conn, wq, fault>>

ConnectOutOfMemory(t) ==
  /\ "malloc" \in Misfortunes
  /\ frame_count < FrameMax
  /\ CloseClient
  /\ svc' = t
  /\ UNCHANGED <<frame_count, live, wq>>

ConnectDone(i) ==
  /\ fault = "none" /\ svc[i].req
  /\ \/ /\ svc[i].st = "connecting"
        /\ \E result \in ConnectResult :
             LET t == [svc EXCEPT ![i].st = result, ![i].req = FALSE] IN
             \/ \E f \in Frames : ConnectTold(i, t, f)
             \/ ConnectParked(t)
             \/ ConnectOutOfMemory(t)
     \/ \* the service was closed, and freed, while it was connecting
        /\ svc[i].st = "freed"
        /\ fault' = "freed_service"
        /\ UNCHANGED <<conn, frame_count, live, wq, svc>>
  /\ UNCHANGED reading /\ Untouched

-----------------------------------------------------------------------------
(* shell_after_write() and fwd_tcp_after_write(): libuv is done with frame f *)

Written(i, f) == [svc EXCEPT ![i].q = @ \ {f}]

\* The data was written: the frame becomes the OKAY, also when the service
\* has been closed in the meantime.
SvcWriteDone(i, f) ==
  /\ fault = "none" /\ f \in svc[i].q /\ conn # "gone"
  /\ svc' = Written(i, f)
  /\ SendFrame(Header(f, "OKAY", i, svc[i].peer, FALSE), wq)
  /\ UNCHANGED <<reading, frame_count, live>> /\ Untouched

\* The write failed: the service is closed with the frame.  After uv_close(),
\* whoever closed the service, libuv cancels the writes that are not finished
\* one by one, and they end here too, with a service that is no longer in the
\* list: adb_service_close() drops the frame, or walks through NULL when the
\* list is empty.
SvcWriteFailed(i, f) ==
  /\ fault = "none" /\ f \in svc[i].q /\ conn # "gone"
  /\ \/ /\ svc[i].st = "open"
        /\ "write" \in Misfortunes
        /\ CloseAndTell(i, f, Written(i, f), wq)
     \/ /\ svc[i].st = "closing"
        /\ svc' = Written(i, f)
        /\ fault' = IF Registered(svc) = {} THEN "null_services" ELSE fault
        /\ UNCHANGED <<conn, wq>>
  /\ UNCHANGED <<reading, frame_count, live>> /\ Untouched

\* Either way the callback goes through the client, which may be freed.
SvcWriteOrphaned(i, f) ==
  /\ fault = "none" /\ f \in svc[i].q /\ conn = "gone"
  /\ fault' = "freed_client"
  /\ UNCHANGED <<conn, is_connected, reading, cur, frame_count, live, wq,
                 next_service_id, svc>>

\* The uv_close() callbacks: every write has been reported by then.
SvcClosed(i) ==
  /\ fault = "none"
  /\ svc[i].st = "closing" /\ svc[i].q = {}
  /\ svc' = [svc EXCEPT ![i] = Freed(@)]
  /\ UNCHANGED <<conn, reading, frame_count, live, wq, fault>> /\ Untouched
=============================================================================
