---------------------------- MODULE StreamProofs ----------------------------
(***************************************************************************)
(* Proofs about what becomes of frames and streams: what is under way to   *)
(* the host agrees with the services it names, and no frame is lost but    *)
(* one whose write to a closed service is cancelled.                       *)
(*                                                                         *)
(* Both need the history of a service: it is announced at most once, is    *)
(* never unannounced, and only one that is open or closing has frames of   *)
(* its own.  Last, that a connection implements the pool of FramePool.     *)
(***************************************************************************)
EXTENDS AdbClientProofs

\* The host was, or is being, told that the service exists.
Told(r) == r.st \in {"open", "closing", "freed"}

\* Only a stream that was opened has frames that libuv writes to it.
Sound(r) == r.q # {} => r.st \in {"open", "closing"} /\ r.kind # "sync"

\* Ids from n on were not given to a service yet.
TableOK(t, n) ==
  \A i \in Ids : Sound(t[i]) /\ (i >= n => t[i].st = "unused" /\ t[i].q = {})

\* An answer or data frame names a service the host may know, and the banner
\* means that the handshake is done.
Honest(h, t, c) ==
  /\ h.cmd \in {"OKAY", "WRTE"} \/ h.more => h.local \in Ids /\ Told(t[h.local])
  /\ h.cmd = "CNXN" => c

Ordered(q) ==
  \A j, k \in DOMAIN q : q[j].cmd = "CNXN" /\ j < k => q[k].cmd # "AUTH"

QueueOK(q, t, c) == (\A k \in DOMAIN q : Honest(q[k], t, c)) /\ Ordered(q)

Covered(c, q, t, L) == L \subseteq Uses(c, q, t)

\* The frames that may be lost after a step: those that were lost before it,
\* and those whose write may be cancelled, see SvcWriteFailed.
Spare == Lost \cup Doomed

AtMostOne(c) == \A f, g \in c : f = g

\* The inductive invariant.
SInv ==
  /\ RInv
  /\ AtMostOne(cur)
  /\ TableOK(svc, next_service_id)
  /\ QueueOK(wq, svc, is_connected)

-----------------------------------------------------------------------------
(* The operations on one service *)

\* What a service may become: it keeps its frames and is not unannounced.
Grows(r, s) ==
  /\ Told(r) => Told(s)
  /\ s.q = r.q
  /\ Sound(s)
  /\ r.st = "unused" => s.st = "unused"

Grow(t, u) == \A i \in Ids : Grows(t[i], u[i])

LEMMA GrowsSame ==
  ASSUME NEW r, NEW s, Sound(r), s.st = r.st, s.q = r.q, s.kind = r.kind
  PROVE  Grows(r, s)
BY DEF Grows, Told, Sound

LEMMA FreedGrows ==
  ASSUME NEW r \in Service, Sound(r), r.st # "unused", r.q = {}
  PROVE  Grows(r, Freed(r))
BY DEF Grows, Told, Sound, Freed, Unused

LEMMA OnCloseGrows ==
  ASSUME NEW r \in Service, Gated(r), Sound(r),
         r.st \in {"open", "connecting", "notify", "error"}
  PROVE  Grows(r, OnClose(r))
<1>1. CASE r.kind = "sync" \/ r.st \in {"connecting", "error"}
  <2>1. r.q = {}
    BY <1>1 DEF Sound
  <2> QED BY <1>1, <2>1, FreedGrows DEF OnClose
<1>2. CASE ~(r.kind = "sync" \/ r.st \in {"connecting", "error"})
  <2> DEFINE u == [r EXCEPT !.st = "closing", !.rd = FALSE]
  <2>1. u.st = "closing" /\ u.q = r.q /\ u.kind = r.kind
    BY DEF Service
  <2>2. OnClose(r) = u
    BY <1>2 DEF OnClose
  <2> HIDE DEF u
  <2> QED BY <1>2, <2>1, <2>2 DEF Grows, Told, Sound
<1> QED BY <1>1, <1>2

LEMMA ReadingGrows ==
  ASSUME NEW r \in Service, Sound(r), NEW a \in BOOLEAN, NEW b \in BOOLEAN
  PROVE  Grows(r, [r EXCEPT !.rd = a]) /\ Grows(r, [r EXCEPT !.rd = a, !.ack = b])
<1>1. /\ [r EXCEPT !.rd = a].st = r.st /\ [r EXCEPT !.rd = a].q = r.q
      /\ [r EXCEPT !.rd = a].kind = r.kind
      /\ [r EXCEPT !.rd = a, !.ack = b].st = r.st
      /\ [r EXCEPT !.rd = a, !.ack = b].q = r.q
      /\ [r EXCEPT !.rd = a, !.ack = b].kind = r.kind
  BY DEF Service
<1> QED BY <1>1, GrowsSame

LEMMA GrantedGrows ==
  ASSUME NEW r \in Service, Gated(r), Sound(r), r.st \in {"notify", "error"}
  PROVE  /\ Grows(r, Granted(r)) /\ Told(Granted(r))
<1>1. r.q = {} /\ r.kind = "tcp"
  BY DEF Sound, Gated
<1>2. CASE r.st = "notify"
  <2> DEFINE u == [r EXCEPT !.st = "open", !.rd = TRUE]
  <2>1. u.st = "open" /\ u.q = r.q /\ u.kind = r.kind
    BY DEF Service
  <2>2. Granted(r) = u
    BY <1>2 DEF Granted
  <2> HIDE DEF u
  <2> QED BY <1>1, <1>2, <2>1, <2>2 DEF Grows, Told, Sound
<1>3. CASE r.st # "notify"
  <2>1. Told(Freed(r))
    BY DEF Told, Freed, Unused
  <2> QED BY <1>1, <1>3, <2>1, FreedGrows DEF Granted
<1> QED BY <1>2, <1>3

LEMMA AckedGrows ==
  ASSUME NEW r \in Service, Sound(r)
  PROVE  Grows(r, Acked(r))
<1> DEFINE u == [r EXCEPT !.ack = FALSE, !.rd = TRUE]
<1>1. u.st = r.st /\ u.q = r.q /\ u.kind = r.kind
  BY DEF Service
<1>2. Acked(r) = r \/ Acked(r) = u
  BY DEF Acked
<1> HIDE DEF u
<1> QED BY <1>1, <1>2, GrowsSame

-----------------------------------------------------------------------------
(* The operations on the table *)

AllSound(t) == \A i \in Ids : Sound(t[i])

LEMMA GrowOne ==
  ASSUME NEW t \in [Ids -> Service], AllSound(t), NEW i \in Ids, NEW r,
         Grows(t[i], r)
  PROVE  Grow(t, [t EXCEPT ![i] = r])
<1>1. ASSUME NEW j \in Ids PROVE Grows(t[j], [t EXCEPT ![i] = r][j])
  <2>1. CASE j = i
    BY <2>1
  <2>2. CASE j # i
    BY <2>2, GrowsSame DEF AllSound
  <2> QED BY <2>1, <2>2
<1> QED BY <1>1 DEF Grow

LEMMA GrowNothing ==
  ASSUME NEW t, AllSound(t)
  PROVE  Grow(t, t)
BY GrowsSame DEF Grow, AllSound

LEMMA GrowTwice ==
  ASSUME NEW t, NEW u, NEW v, Grow(t, u), Grow(u, v)
  PROVE  Grow(t, v) /\ AllSound(v)
BY DEF Grow, Grows, AllSound

LEMMA CloseServiceGrows ==
  ASSUME NEW t, AllGated(t), AllSound(t), NEW i \in Registered(t)
  PROVE  Grow(t, CloseService(t, i))
<1>1. /\ i \in Ids /\ t[i] \in Service /\ Gated(t[i]) /\ Sound(t[i])
      /\ t[i].st \in {"open", "connecting", "notify", "error"}
  BY DEF AllGated, AllSound, Registered
<1>2. Grows(t[i], OnClose(t[i]))
  BY <1>1, OnCloseGrows
<1> QED BY <1>1, <1>2, GrowOne DEF CloseService, AllGated

LEMMA CloseAllGrows ==
  ASSUME NEW t, AllGated(t), AllSound(t)
  PROVE  Grow(t, CloseAll(t))
<1>1. ASSUME NEW i \in Ids PROVE Grows(t[i], CloseAll(t)[i])
  <2>1. t[i] \in Service /\ Gated(t[i]) /\ Sound(t[i])
    BY DEF AllGated, AllSound
  <2>2. CASE i \in Registered(t)
    BY <2>1, <2>2, OnCloseGrows DEF CloseAll, Registered
  <2>3. CASE i \notin Registered(t)
    BY <2>1, <2>3, GrowsSame DEF CloseAll
  <2> QED BY <2>2, <2>3
<1> QED BY <1>1 DEF Grow

LEMMA ResumeGrows ==
  ASSUME NEW t, AllGated(t), AllSound(t)
  PROVE  Grow(t, Resume(t))
<1>1. ASSUME NEW i \in Ids PROVE Grows(t[i], Resume(t)[i])
  <2>1. t[i] \in Service /\ Sound(t[i])
    BY DEF AllGated, AllSound
  <2>2. Resume(t)[i] = t[i] \/ Resume(t)[i] = [t[i] EXCEPT !.rd = TRUE]
    BY DEF Resume
  <2> QED BY <2>1, <2>2, ReadingGrows, GrowsSame
<1> QED BY <1>1 DEF Grow

LEMMA GrantGrows ==
  ASSUME NEW t, AllGated(t), AllSound(t), NEW i \in NeedFrame(t)
  PROVE  /\ Grow(t, [Resume(t) EXCEPT ![i] = Granted(@)])
         /\ Told([Resume(t) EXCEPT ![i] = Granted(@)][i])
<1> DEFINE v == Resume(t)
<1>1. AllGated(v) /\ v[i] = t[i] /\ i \in Ids
  BY ResumeKeeps DEF NeedFrame
<1>2. Grow(t, v) /\ AllSound(v)
  BY ResumeGrows, GrowNothing, GrowTwice
<1> HIDE DEF v
<1>3. /\ v[i] \in Service /\ Gated(v[i]) /\ Sound(v[i])
      /\ v[i].st \in {"notify", "error"}
  BY <1>1, <1>2 DEF AllGated, AllSound, NeedFrame
<1>4. Grows(v[i], Granted(v[i])) /\ Told(Granted(v[i]))
  BY <1>3, GrantedGrows
<1>5. Grow(v, [v EXCEPT ![i] = Granted(@)])
  BY <1>1, <1>2, <1>4, GrowOne DEF AllGated
<1>6. Grow(t, [v EXCEPT ![i] = Granted(@)])
  BY <1>2, <1>5, GrowTwice
<1>7. [v EXCEPT ![i] = Granted(@)][i] = Granted(v[i])
  BY <1>1 DEF AllGated
<1> QED BY <1>4, <1>6, <1>7 DEF v
LEMMA TableGrows ==
  ASSUME NEW t, NEW u, NEW n, TableOK(t, n), Grow(t, u)
  PROVE  TableOK(u, n)
BY DEF TableOK, Grow, Grows, Sound

LEMMA UsesGrow ==
  ASSUME NEW t, NEW u, NEW c, NEW q, Grow(t, u)
  PROVE  Uses(c, q, u) = Uses(c, q, t)
BY DEF Uses, Grow, Grows

-----------------------------------------------------------------------------
(* The write queue *)

LEMMA QueueGrows ==
  ASSUME NEW t, NEW u, NEW q, NEW c, NEW d, QueueOK(q, t, c), c => d,
         \A i \in Ids : Told(t[i]) => Told(u[i])
  PROVE  QueueOK(q, u, d)
BY DEF QueueOK, Honest

LEMMA QueueAppend ==
  ASSUME NEW t, NEW c, NEW q \in Seq(WireFrame), NEW h, QueueOK(q, t, c),
         Honest(h, t, c), h.cmd = "AUTH" => ~c
  PROVE  /\ QueueOK(Append(q, h), t, c)
         /\ FramesOf(Append(q, h)) = FramesOf(q) \cup {h.f}
<1> DEFINE r == Append(q, h)
<1>1. /\ DOMAIN q = 1..Len(q) /\ Len(q) \in Nat
      /\ DOMAIN r = 1..(Len(q) + 1)
      /\ \A k \in 1..Len(q) : r[k] = q[k]
      /\ r[Len(q) + 1] = h
  BY LenProperties
<1> HIDE DEF r
<1>2. \A k \in DOMAIN r : Honest(r[k], t, c)
  BY <1>1 DEF QueueOK
<1>3. Ordered(r)
  <2> SUFFICES ASSUME NEW j \in DOMAIN r, NEW k \in DOMAIN r,
                      r[j].cmd = "CNXN", j < k, r[k].cmd = "AUTH"
               PROVE  FALSE
    BY DEF Ordered
  <2>1. c
    BY <1>2 DEF Honest
  <2>2. k # Len(q) + 1
    BY <1>1, <2>1
  <2>3. j \in DOMAIN q /\ k \in DOMAIN q
    BY <1>1, <2>2
  <2> QED BY <1>1, <2>3 DEF QueueOK, Ordered
<1>4. FramesOf(r) = FramesOf(q) \cup {h.f}
  BY <1>1 DEF FramesOf
<1> QED BY <1>2, <1>3, <1>4 DEF QueueOK, r

LEMMA QueueTail ==
  ASSUME NEW t, NEW c, NEW q \in Seq(WireFrame), q # <<>>, QueueOK(q, t, c)
  PROVE  /\ QueueOK(Tail(q), t, c) /\ Honest(Head(q), t, c)
         /\ FramesOf(q) = FramesOf(Tail(q)) \cup {Head(q).f}
<1> DEFINE r == Tail(q)
<1>1. /\ DOMAIN q = 1..Len(q) /\ Len(q) \in Nat \ {0}
      /\ Head(q) = q[1]
      /\ DOMAIN r = 1..(Len(q) - 1)
      /\ \A k \in 1..(Len(q) - 1) : r[k] = q[k + 1]
  BY HeadTailProperties, LenProperties, EmptySeq
<1> HIDE DEF r
<1>2. \A k \in DOMAIN r : k + 1 \in DOMAIN q /\ r[k] = q[k + 1]
  BY <1>1
<1>3. \A k \in DOMAIN q : k = 1 \/ (k - 1 \in DOMAIN r /\ q[k] = r[k - 1])
  BY <1>1
<1>4. \A k \in DOMAIN r : Honest(r[k], t, c)
  BY <1>2 DEF QueueOK
<1>5. Ordered(r)
  <2> SUFFICES ASSUME NEW j \in DOMAIN r, NEW k \in DOMAIN r,
                      r[j].cmd = "CNXN", j < k
               PROVE  r[k].cmd # "AUTH"
    BY DEF Ordered
  <2>1. j + 1 \in DOMAIN q /\ k + 1 \in DOMAIN q /\ j + 1 < k + 1
    BY <1>1
  <2> QED BY <1>2, <2>1 DEF QueueOK, Ordered
<1>6. FramesOf(q) = FramesOf(r) \cup {q[1].f}
  <2>1. FramesOf(r) \cup {q[1].f} \subseteq FramesOf(q)
    BY <1>1, <1>2 DEF FramesOf
  <2>2. FramesOf(q) \subseteq FramesOf(r) \cup {q[1].f}
    BY <1>3 DEF FramesOf
  <2> QED BY <2>1, <2>2
<1>7. Honest(q[1], t, c)
  BY <1>1 DEF QueueOK
<1> QED BY <1>1, <1>4, <1>5, <1>6, <1>7 DEF QueueOK, r

-----------------------------------------------------------------------------
(* Sending and releasing, and what they make of the invariant *)

\* The new part of the invariant after the step, and what it does not lose.
Tells ==
  /\ TableOK(svc', next_service_id')
  /\ QueueOK(wq', svc', is_connected')
  /\ fault' = "none" => live' \subseteq Uses(cur', wq', svc') \cup Spare

LEMMA Before ==
  ASSUME SInv
  PROVE  /\ AllGated(svc) /\ AllSound(svc) /\ wq \in Seq(WireFrame)
         /\ TableOK(svc, next_service_id) /\ QueueOK(wq, svc, is_connected)
         /\ live \subseteq Uses(cur, wq, svc) \cup Spare
BY DEF SInv, RInv, IInv, TypeOK, TableOK, AllSound, Spare, Lost

\* A frame is sent, q being the queue before it.
LEMMA SendTells ==
  ASSUME NEW q \in Seq(WireFrame), NEW h, SendFrame(h, q),
         TableOK(svc', next_service_id'), QueueOK(q, svc', is_connected'),
         Honest(h, svc', is_connected'), h.cmd = "AUTH" => ~is_connected',
         live' \subseteq Uses(cur', q, svc') \cup {h.f} \cup Spare
  PROVE  Tells
<1>1. CASE conn = "up" /\ wq' = Append(q, h)
  <2>1. /\ QueueOK(wq', svc', is_connected')
        /\ FramesOf(wq') = FramesOf(q) \cup {h.f}
    BY <1>1, QueueAppend
  <2> QED BY <2>1 DEF Tells, Uses
<1>2. CASE conn = "closing" /\ wq' = q /\ CloseClient
  BY <1>2 DEF Tells, CloseClient
<1> QED BY <1>1, <1>2 DEF SendFrame

\* The frame f is released while the services are t and the queue is q.
LEMMA ReleaseTells ==
  ASSUME NEW t, AllGated(t), TableOK(t, next_service_id'),
         NEW q \in Seq(WireFrame), QueueOK(q, t, is_connected'),
         NEW f, Release(f, t, q),
         live \ {f} \subseteq Uses(cur', q, t) \cup Spare
  PROVE  Tells
<1>1. AllSound(t)
  BY DEF TableOK, AllSound
<1>2. ASSUME Grow(t, svc'), wq' = q, live' = live \ {f}
      PROVE  Tells
  <2>1. TableOK(svc', next_service_id')
    BY <1>2, TableGrows
  <2>2. QueueOK(wq', svc', is_connected')
    BY <1>2, QueueGrows DEF Grow, Grows
  <2>3. Uses(cur', wq', svc') = Uses(cur', q, t)
    BY <1>2, UsesGrow
  <2> QED BY <1>2, <2>1, <2>2, <2>3 DEF Tells
<1>3. CASE ReleaseQuietly(f, t, q)
  BY <1>1, <1>2, <1>3, GrowNothing DEF ReleaseQuietly
<1>4. CASE ReleaseAborts(f, t, q)
  BY <1>1, <1>2, <1>4, GrowNothing DEF ReleaseAborts
<1>5. CASE ReleaseAndResume(f, t, q)
  BY <1>1, <1>2, <1>5, ResumeGrows DEF ReleaseAndResume
<1>6. CASE ReleaseAndGrant(f, t, q)
  <2>1. PICK i \in Newest(NeedFrame(t)) :
          /\ svc' = [Resume(t) EXCEPT ![i] = Granted(@)]
          /\ \/ wq' = Append(q, GrantHeader(t, i, f))
             \/ wq' = q /\ fault' = "double_close"
    BY <1>6 DEF ReleaseAndGrant
  <2>2. i \in NeedFrame(t) /\ i \in Ids
    BY DEF Newest, NeedFrame
  <2>3. Grow(t, svc') /\ Told(svc'[i])
    BY <1>1, <2>1, <2>2, GrantGrows
  <2>4. TableOK(svc', next_service_id') /\ QueueOK(q, svc', is_connected')
    BY <2>3, TableGrows, QueueGrows DEF Grow, Grows
  <2>5. CASE wq' = q /\ fault' = "double_close"
    BY <2>4, <2>5 DEF Tells
  <2>6. CASE wq' = Append(q, GrantHeader(t, i, f))
    <3> DEFINE h == GrantHeader(t, i, f)
    <3>1. /\ h.f = f /\ h.cmd \in {"OKAY", "CLSE"} /\ h.more = FALSE
          /\ h.cmd = "OKAY" => h.local = i
      BY DEF GrantHeader, Header
    <3> HIDE DEF h
    <3>2. Honest(h, svc', is_connected')
      BY <2>2, <2>3, <3>1 DEF Honest
    <3>3. /\ QueueOK(wq', svc', is_connected')
          /\ FramesOf(wq') = FramesOf(q) \cup {f}
      BY <2>4, <2>6, <3>1, <3>2, QueueAppend DEF h
    <3>4. Uses(cur', q, svc') = Uses(cur', q, t) /\ live' = live
      BY <1>6, <2>3, UsesGrow DEF ReleaseAndGrant
    <3>5. live' \subseteq Uses(cur', wq', svc') \cup Spare
      BY <3>3, <3>4 DEF Uses
    <3> QED BY <2>4, <3>3, <3>5 DEF Tells
  <2> QED BY <2>1, <2>5, <2>6
<1> QED BY <1>3, <1>4, <1>5, <1>6 DEF Release

\* No frame is sent.
LEMMA SilenceTells ==
  ASSUME SInv, fault = "none", Grow(svc, svc'), UNCHANGED <<wq, is_connected>>,
         next_service_id' = next_service_id, live' \ live \subseteq cur',
         cur \subseteq cur'
  PROVE  Tells
<1>1. TableOK(svc', next_service_id') /\ QueueOK(wq', svc', is_connected')
  BY Before, TableGrows, QueueGrows DEF Grow, Grows
<1>2. Uses(cur', wq', svc') = Uses(cur', wq, svc)
  BY UsesGrow
<1>3. live' \subseteq Uses(cur', wq', svc') \cup Spare
  BY <1>2, Before DEF Uses
<1> QED BY <1>1, <1>3 DEF Tells
-----------------------------------------------------------------------------
(* The reader of the host's socket *)

LEMMA ReaderStep ==
  ASSUME SInv, [Next]_vars
  PROVE  AtMostOne(cur')
<1>1. cur' = cur \/ cur' = {} \/ \E f : cur' = {f}
  <2>1. CASE FromTransport
    BY <2>1 DEF FromTransport, HostReadBegin, HostReadPark, HostOutOfMemory,
                HostHangup, HostBadFrame, HostWriteDone, HostWriteFailed,
                HostClosed, UsbClosed
  <2>2. CASE Protocol
    BY <2>2 DEF Protocol, RecvCnxn, RecvAuth, RecvOpen, RecvOpenRefused,
                RecvOpenMalformed, RecvClse, RecvWrte, RecvOkay, RecvUnknown,
                Received
  <2>3. CASE Streams
    BY <2>3 DEF Streams, SvcReadFrame, SvcReadPark, SvcReadEnd, SvcOutOfMemory,
                ConnectDone, SvcClosed, SvcWriteDone, SvcWriteFailed,
                SvcWriteOrphaned, Untouched
  <2>4. CASE UNCHANGED vars
    BY <2>4 DEF vars
  <2> QED BY <2>1, <2>2, <2>3, <2>4 DEF Next
<1> QED BY <1>1 DEF AtMostOne, SInv

-----------------------------------------------------------------------------
(* The transport *)

LEMMA HostWritesTell ==
  ASSUME SInv, HostWriteDone \/ HostWriteFailed
  PROVE  Tells
<1> DEFINE q == Tail(wq)
           h == Head(wq)
<1>1. /\ fault = "none" /\ wq # <<>> /\ cur' = cur
      /\ is_connected' = is_connected /\ next_service_id' = next_service_id
  BY DEF HostWriteDone, HostWriteFailed
<1>2. /\ q \in Seq(WireFrame) /\ h \in WireFrame
      /\ QueueOK(q, svc, is_connected) /\ Honest(h, svc, is_connected)
      /\ FramesOf(wq) = FramesOf(q) \cup {h.f}
  BY <1>1, Before, QueueTail, HeadTailProperties
<1>3. live \subseteq Uses(cur', q, svc) \cup {h.f} \cup Spare
  BY <1>1, <1>2, Before DEF Uses
<1> HIDE DEF q, h
<1>4. CASE Release(h.f, svc, q)
  BY <1>1, <1>2, <1>3, <1>4, Before, ReleaseTells
<1>5. CASE /\ h.more
           /\ SendFrame([h EXCEPT !.cmd = "WRTE", !.more = FALSE], q)
           /\ UNCHANGED <<reading, frame_count, live, svc>>
  <2> DEFINE g == [h EXCEPT !.cmd = "WRTE", !.more = FALSE]
  <2>1. g.f = h.f /\ g.cmd = "WRTE" /\ g.more = FALSE /\ g.local = h.local
    BY <1>2 DEF WireFrame
  <2> HIDE DEF g
  <2>2. Honest(g, svc, is_connected)
    BY <1>2, <1>5, <2>1 DEF Honest
  <2>3. SendFrame(g, q) /\ svc' = svc /\ live' = live
    BY <1>5 DEF g
  <2> QED BY <1>1, <1>2, <1>3, <2>1, <2>2, <2>3, Before, SendTells
<1>6. CASE CloseClient /\ UNCHANGED <<reading, frame_count, live, wq, svc>>
  BY <1>1, <1>6, Before, GrowNothing, SilenceTells
<1> QED BY <1>4, <1>5, <1>6 DEF HostWriteDone, HostWriteFailed, Release, q, h

LEMMA HostClosedTells ==
  ASSUME SInv, HostClosed
  PROVE  Tells
<1>1. /\ fault = "none" /\ wq = <<>>
      /\ is_connected' = is_connected /\ next_service_id' = next_service_id
  BY DEF HostClosed
<1>2. Grow(svc, CloseAll(svc)) /\ AllGated(CloseAll(svc))
  BY Before, CloseAllGrows, CloseAllKeeps
<1>3. CASE UNCHANGED <<conn, reading, cur, frame_count, live, wq, svc>>
  BY <1>1, <1>3, Before, GrowNothing, SilenceTells
<1>4. CASE cur' = {} /\ \E f \in cur : Release(f, CloseAll(svc), <<>>)
  <2>1. PICK f \in cur : Release(f, CloseAll(svc), <<>>)
    BY <1>4
  <2>2. cur = {f}
    BY DEF SInv, AtMostOne
  <2>3. /\ TableOK(CloseAll(svc), next_service_id')
        /\ QueueOK(<<>>, CloseAll(svc), is_connected')
        /\ <<>> \in Seq(WireFrame)
    BY <1>1, <1>2, Before, TableGrows, QueueGrows DEF Grow, Grows
  <2>4. live \ {f} \subseteq Uses(cur', <<>>, CloseAll(svc)) \cup Spare
    <3>1. Uses(cur, <<>>, CloseAll(svc)) = Uses(cur, wq, svc)
      BY <1>1, <1>2, UsesGrow
    <3> QED BY <1>1, <1>4, <2>2, <3>1, Before DEF Uses
  <2> QED BY <1>2, <2>1, <2>3, <2>4, ReleaseTells
<1>5. CASE /\ cur = {} /\ cur' = {} /\ svc' = CloseAll(svc)
           /\ UNCHANGED <<reading, frame_count, live, wq, fault>>
  BY <1>1, <1>2, <1>5, SilenceTells
<1> QED BY <1>3, <1>4, <1>5 DEF HostClosed

LEMMA TransportTells ==
  ASSUME SInv, FromTransport
  PROVE  Tells
<1>1. CASE HostReadBegin \/ HostReadPark \/ HostOutOfMemory
           \/ HostHangup \/ HostBadFrame \/ UsbClosed
  <2>1. /\ fault = "none" /\ UNCHANGED <<wq, svc, is_connected>>
        /\ next_service_id' = next_service_id
        /\ live' \ live \subseteq cur' /\ cur \subseteq cur'
    BY <1>1 DEF HostReadBegin, HostReadPark, HostOutOfMemory, HostHangup,
                HostBadFrame, UsbClosed, Listening, Allocate, Refuse
  <2> QED BY <2>1, Before, GrowNothing, SilenceTells
<1> QED BY <1>1, HostWritesTell, HostClosedTells DEF FromTransport

-----------------------------------------------------------------------------
(* The protocol handlers *)

\* Once the frame is received nobody else has it.
LEMMA ReceivedTells ==
  ASSUME SInv, NEW f, Received(f)
  PROVE  /\ fault = "none" /\ cur' = {}
         /\ live \subseteq Uses(cur', wq, svc) \cup {f} \cup Spare
BY Before DEF Received, Listening, Uses

\* What an answer may say in the state after it.
MaySay(cmd, local) ==
  /\ cmd = "AUTH" => ~is_connected'
  /\ cmd = "CNXN" => is_connected'
  /\ cmd \in {"OKAY", "WRTE"} => local \in Ids /\ Told(svc'[local])

LEMMA AnswerTells ==
  ASSUME SInv, NEW f, Received(f), NEW cmd, NEW local, NEW remote,
         Answer(Header(f, cmd, local, remote, FALSE)),
         Grow(svc, svc'), next_service_id' = next_service_id,
         is_connected => is_connected', MaySay(cmd, local)
  PROVE  Tells
<1> DEFINE h == Header(f, cmd, local, remote, FALSE)
<1>1. TableOK(svc', next_service_id') /\ QueueOK(wq, svc', is_connected')
  BY Before, TableGrows, QueueGrows DEF Grow, Grows
<1>2. h.f = f /\ h.cmd = cmd /\ h.local = local /\ h.more = FALSE
  BY DEF Header
<1>3. SendFrame(h, wq) /\ live' = live
  BY DEF Answer
<1> HIDE DEF h
<1>4. Honest(h, svc', is_connected')
  BY <1>2 DEF Honest, MaySay
<1>5. live' \subseteq Uses(cur', wq, svc') \cup {h.f} \cup Spare
  BY <1>2, <1>3, ReceivedTells, UsesGrow
<1> QED BY <1>1, <1>2, <1>3, <1>4, <1>5, Before, SendTells DEF MaySay

LEMMA DropTells ==
  ASSUME SInv, NEW f, Received(f), NEW t, Release(f, t, wq), AllGated(t),
         Grow(svc, t), UNCHANGED <<is_connected, next_service_id>>
  PROVE  Tells
<1>1. TableOK(t, next_service_id') /\ QueueOK(wq, t, is_connected')
  BY Before, TableGrows, QueueGrows DEF Grow, Grows
<1>2. live \ {f} \subseteq Uses(cur', wq, t) \cup Spare
  BY ReceivedTells, UsesGrow
<1> QED BY <1>1, <1>2, Before, ReleaseTells
LEMMA AuthRequestTells ==
  ASSUME SInv, NEW f, Received(f), AuthRequest(f), ~is_connected,
         UNCHANGED <<is_connected, next_service_id>>
  PROVE  Tells
<1>1. CASE Answer(Header(f, "AUTH", 0, 0, FALSE)) /\ UNCHANGED svc
  <2>1. Grow(svc, svc')
    BY <1>1, Before, GrowNothing
  <2>2. MaySay("AUTH", 0)
    BY DEF MaySay
  <2> QED BY <1>1, <2>1, <2>2, AnswerTells
<1>2. CASE Release(f, svc, wq)
  BY <1>2, Before, GrowNothing, DropTells
<1> QED BY <1>1, <1>2 DEF AuthRequest

LEMMA HandshakeTells ==
  ASSUME SInv, RecvCnxn \/ \E type : RecvAuth(type)
  PROVE  Tells
<1>1. PICK f :
        /\ Received(f) /\ next_service_id' = next_service_id
        /\ \/ AuthRequest(f) /\ ~is_connected /\ UNCHANGED is_connected
           \/ /\ Answer(Header(f, "CNXN", 0, 0, FALSE)) /\ UNCHANGED svc
              /\ is_connected' = TRUE
           \/ Drop(f, svc) /\ UNCHANGED is_connected
  BY DEF RecvCnxn, RecvAuth
<1>2. CASE AuthRequest(f) /\ ~is_connected /\ UNCHANGED is_connected
  BY <1>1, <1>2, AuthRequestTells
<1>3. CASE /\ Answer(Header(f, "CNXN", 0, 0, FALSE)) /\ UNCHANGED svc
           /\ is_connected' = TRUE
  <2>1. Grow(svc, svc')
    BY <1>3, Before, GrowNothing
  <2>2. MaySay("CNXN", 0)
    BY <1>3 DEF MaySay
  <2> QED BY <1>1, <1>3, <2>1, <2>2, AnswerTells
<1>4. CASE Drop(f, svc) /\ UNCHANGED is_connected
  BY <1>1, <1>4, Before, GrowNothing, DropTells DEF Drop
<1> QED BY <1>1, <1>2, <1>3, <1>4

\* A new service has no frames and is not known yet, unless it is ready.
LEMMA OpenedTells ==
  ASSUME NEW t \in [Ids -> Service], NEW i \in Ids, TableOK(t, i),
         NEW kind \in Kinds, NEW peer \in Peers,
         NEW u, \A j \in Ids : u[j] = IF j = i THEN Opened(kind, peer) ELSE t[j]
  PROVE  /\ TableOK(u, i + 1)
         /\ \A j \in Ids : (Told(t[j]) => Told(u[j])) /\ u[j].q = t[j].q
         /\ kind # "tcp" => Told(u[i])
<1> DEFINE o == Opened(kind, peer)
<1>1. /\ o.q = {}
      /\ o.st = IF kind = "tcp" THEN "connecting" ELSE "open"
  BY DEF Opened, Unused
<1>2. Sound(o) /\ (kind # "tcp" => Told(o))
  BY <1>1 DEF Sound, Told
<1> HIDE DEF o
<1>3. t[i].st = "unused" /\ t[i].q = {} /\ ~Told(t[i]) /\ i \in Nat
  BY IdsAreNat DEF TableOK, Told
<1>4. \A j \in Ids : u[j] = IF j = i THEN o ELSE t[j]
  BY DEF o
<1>5. \A j \in Ids : (Told(t[j]) => Told(u[j])) /\ u[j].q = t[j].q
  BY <1>1, <1>3, <1>4
<1>6. ASSUME NEW j \in Ids
      PROVE  Sound(u[j]) /\ (j >= i + 1 => u[j].st = "unused" /\ u[j].q = {})
  BY <1>2, <1>3, <1>4, IdsAreNat DEF TableOK
<1> QED BY <1>2, <1>4, <1>5, <1>6 DEF TableOK

LEMMA OpenTells ==
  ASSUME SInv, NEW peer \in Peers, NEW kind \in Kinds, RecvOpen(peer, kind)
  PROVE  Tells
<1> DEFINE i == next_service_id
           t == [svc EXCEPT ![i] = Opened(kind, peer)]
<1>1. PICK f :
        /\ Received(f) /\ i' = i + 1 /\ is_connected' = is_connected
        /\ \/ Drop(f, t)
           \/ /\ kind # "tcp"
              /\ svc' = t /\ Answer(Header(f, "OKAY", i, peer, FALSE))
  BY DEF RecvOpen
<1>2. i \in Ids
  BY ServiceTableAssumption DEF RecvOpen, SInv, RInv, IInv, TypeOK, Ids
<1>3. /\ TableOK(t, i + 1)
      /\ \A j \in Ids : (Told(svc[j]) => Told(t[j])) /\ t[j].q = svc[j].q
      /\ kind # "tcp" => Told(t[i])
      /\ AllGated(t)
  <2>1. svc \in [Ids -> Service] /\ TableOK(svc, i) /\ AllGated(svc)
    BY Before DEF AllGated
  <2>2. AllGated(t)
    BY <1>2, <2>1, OpenedKeeps, ChangeOne
  <2>3. \A j \in Ids : t[j] = IF j = i THEN Opened(kind, peer) ELSE svc[j]
    BY <2>1
  <2> HIDE DEF t
  <2> QED BY <1>2, <2>1, <2>2, <2>3, OpenedTells
<1> HIDE DEF t
<1>4. QueueOK(wq, t, is_connected') /\ Uses(cur', wq, t) = Uses(cur', wq, svc)
  BY <1>1, <1>3, Before, QueueGrows DEF Uses
<1>5. CASE Drop(f, t)
  BY <1>1, <1>3, <1>4, <1>5, Before, ReceivedTells, ReleaseTells DEF Drop
<1>6. CASE /\ kind # "tcp"
           /\ svc' = t /\ Answer(Header(f, "OKAY", i, peer, FALSE))
  <2> DEFINE h == Header(f, "OKAY", i, peer, FALSE)
  <2>1. h.f = f /\ h.cmd = "OKAY" /\ h.local = i /\ h.more = FALSE
    BY DEF Header
  <2> HIDE DEF h
  <2>2. Honest(h, t, is_connected')
    BY <1>2, <1>3, <1>6, <2>1 DEF Honest
  <2>3. SendFrame(h, wq) /\ live' = live
    BY <1>6 DEF Answer, h
  <2>4. h.cmd # "AUTH"
    BY <2>1
  <2>5. live' \subseteq Uses(cur', wq, svc') \cup {h.f} \cup Spare
    BY <1>1, <1>4, <1>6, <2>1, <2>3, ReceivedTells
  <2> QED BY <1>1, <1>3, <1>4, <1>6, <2>2, <2>3, <2>4, <2>5, Before, SendTells
<1> QED BY <1>1, <1>5, <1>6

LEMMA NothingOpenedTells ==
  ASSUME SInv,
         (\E peer : RecvOpenRefused(peer)) \/ RecvOpenMalformed \/ RecvUnknown
  PROVE  Tells
<1>1. CASE \E peer : RecvOpenRefused(peer)
  <2>1. PICK f, peer :
          /\ Received(f) /\ Answer(Header(f, "CLSE", 0, peer, FALSE))
          /\ UNCHANGED <<is_connected, next_service_id, svc>>
    BY <1>1 DEF RecvOpenRefused
  <2>2. Grow(svc, svc')
    BY <2>1, Before, GrowNothing
  <2>3. MaySay("CLSE", 0)
    BY DEF MaySay
  <2> QED BY <2>1, <2>2, <2>3, AnswerTells
<1>2. CASE RecvOpenMalformed \/ RecvUnknown
  <2>1. PICK f : /\ Received(f) /\ Release(f, svc, wq)
                 /\ UNCHANGED <<is_connected, next_service_id>>
    BY <1>2 DEF RecvOpenMalformed, RecvUnknown, Drop
  <2> QED BY <2>1, Before, GrowNothing, DropTells
<1> QED BY <1>1, <1>2

LEMMA FoundIsRegistered ==
  ASSUME NEW t, NEW id, NEW peer, NEW i \in Find(t, id, peer)
  PROVE  i \in Registered(t) /\ i \in Ids
BY DEF Find, Newest, Registered

LEMMA FailsTells ==
  ASSUME SInv, NEW f, Received(f), NEW i \in Registered(svc), Fails(i, f),
         UNCHANGED <<is_connected, next_service_id>>
  PROVE  Tells
<1>1. Grow(svc, svc')
  BY Before, CloseServiceGrows DEF Fails, CloseAndTell
<1>2. Answer(Header(f, "CLSE", IdOf(svc, i), svc[i].peer, FALSE))
  BY DEF Fails, CloseAndTell, Answer
<1>3. MaySay("CLSE", IdOf(svc, i))
  BY DEF MaySay
<1> QED BY <1>1, <1>2, <1>3, AnswerTells

LEMMA UnanswerableTells ==
  ASSUME SInv, NEW f, Received(f), NEW id, NEW peer, Unanswerable(f, id, peer),
         UNCHANGED <<is_connected, next_service_id>>
  PROVE  Tells
<1>1. Grow(svc, svc')
  BY Before, GrowNothing DEF Unanswerable
<1>2. MaySay("CLSE", id)
  BY DEF MaySay
<1> QED BY <1>1, <1>2, AnswerTells DEF Unanswerable

LEMMA RecvClseTells ==
  ASSUME SInv, NEW peer, NEW id, RecvClse(peer, id)
  PROVE  Tells
<1>1. PICK f :
        /\ Received(f) /\ UNCHANGED <<is_connected, next_service_id>>
        /\ \/ \E i \in Find(svc, id, peer) : Drop(f, CloseService(svc, i))
           \/ Drop(f, svc)
  BY DEF RecvClse
<1>2. CASE \E i \in Find(svc, id, peer) : Drop(f, CloseService(svc, i))
  <2>1. PICK i \in Registered(svc) : i \in Ids /\ Drop(f, CloseService(svc, i))
    BY <1>2, FoundIsRegistered
  <2>2. AllGated(CloseService(svc, i)) /\ Grow(svc, CloseService(svc, i))
    BY <2>1, Before, CloseServiceKeeps, CloseServiceGrows
  <2> QED BY <1>1, <2>1, <2>2, DropTells DEF Drop
<1>3. CASE Drop(f, svc)
  BY <1>1, <1>3, Before, GrowNothing, DropTells DEF Drop
<1> QED BY <1>1, <1>2, <1>3
\* A stream takes the frame.
LEMMA TakeTells ==
  ASSUME SInv, NEW f \in Frames, Received(f), NEW i \in Ids,
         svc[i].st = "open", svc[i].kind # "sync",
         \A j \in Ids : svc'[j].st = svc[j].st /\ svc'[j].kind = svc[j].kind,
         \A j \in Ids :
           svc'[j].q = IF j = i THEN svc[j].q \cup {f} ELSE svc[j].q,
         UNCHANGED <<live, wq, is_connected, next_service_id>>
  PROVE  Tells
<1>1. svc \in [Ids -> Service] /\ i < next_service_id
  <2>1. next_service_id \in Nat /\ i \in Nat
    BY IdsAreNat DEF SInv, RInv, IInv, TypeOK, Ids
  <2> QED BY <2>1, Before DEF AllGated, TableOK
<1>2. TableOK(svc', next_service_id')
  <2> SUFFICES ASSUME NEW j \in Ids
               PROVE  /\ Sound(svc'[j])
                      /\ j >= next_service_id =>
                           svc'[j].st = "unused" /\ svc'[j].q = {}
    BY DEF TableOK
  <2>1. CASE j = i
    BY <1>1, <2>1, IdsAreNat DEF Sound, SInv, RInv, IInv, TypeOK
  <2>2. CASE j # i
    BY <2>2, Before DEF TableOK, Sound
  <2> QED BY <2>1, <2>2
<1>3. QueueOK(wq', svc', is_connected')
  <2>1. \A j \in Ids : Told(svc[j]) => Told(svc'[j])
    BY DEF Told
  <2>2. QueueOK(wq, svc, is_connected) /\ is_connected' = is_connected
    BY Before
  <2>3. QueueOK(wq, svc', is_connected')
    BY <2>1, <2>2, QueueGrows
  <2> QED BY <2>3
<1>4. Uses({}, wq, svc) \cup {f} \subseteq Uses({}, wq, svc')
  <2>1. f \in svc'[i].q /\ \A j \in Ids : svc[j].q \subseteq svc'[j].q
    OBVIOUS
  <2> QED BY <2>1 DEF Uses
<1>5. live' \subseteq Uses(cur', wq', svc') \cup Spare
  BY <1>4, ReceivedTells
<1> QED BY <1>2, <1>3, <1>5 DEF Tells

LEMMA WriteToServiceTells ==
  ASSUME SInv, NEW f \in Frames, Received(f), NEW i \in Registered(svc),
         WriteToService(i, f), UNCHANGED <<is_connected, next_service_id>>
  PROVE  Tells
<1>1. i \in Ids /\ Gated(svc[i])
  BY Before DEF Registered, AllGated
<1>2. CASE Fails(i, f)
  BY <1>2, FailsTells
<1>3. CASE /\ svc[i].kind = "sync"
           /\ \E more \in BOOLEAN :
                /\ Answer(Header(f, "OKAY", i, svc[i].peer, more))
                /\ UNCHANGED svc
  <2>1. PICK more \in BOOLEAN :
          Answer(Header(f, "OKAY", i, svc[i].peer, more)) /\ svc' = svc
    BY <1>3
  <2> DEFINE h == Header(f, "OKAY", i, svc[i].peer, more)
  <2>2. h.f = f /\ h.cmd = "OKAY" /\ h.local = i
    BY DEF Header
  <2>3. SendFrame(h, wq) /\ live' = live
    BY <2>1 DEF Answer
  <2> HIDE DEF h
  <2>4. Told(svc[i])
    BY <1>1, <1>3 DEF Registered, Gated, Told
  <2>5. Honest(h, svc', is_connected') /\ h.cmd # "AUTH"
    BY <1>1, <2>1, <2>2, <2>4 DEF Honest
  <2>6. live' \subseteq Uses(cur', wq, svc') \cup {h.f} \cup Spare
    BY <2>1, <2>2, <2>3, ReceivedTells
  <2> QED BY <2>1, <2>3, <2>5, <2>6, Before, SendTells
<1>4. CASE /\ svc[i].kind # "sync" /\ svc[i].st = "open"
           /\ svc' = [svc EXCEPT ![i].q = @ \cup {f}]
           /\ UNCHANGED <<conn, reading, frame_count, live, wq, fault>>
  <2>1. \A j \in Ids : /\ svc'[j].st = svc[j].st /\ svc'[j].kind = svc[j].kind
                       /\ svc'[j].q = IF j = i THEN svc[j].q \cup {f}
                                               ELSE svc[j].q
    BY <1>4, Before DEF AllGated, Service
  <2> QED BY <1>1, <1>4, <2>1, TakeTells
<1> QED BY <1>2, <1>3, <1>4 DEF WriteToService

LEMMA RecvWrteTells ==
  ASSUME SInv, NEW peer, NEW id, RecvWrte(peer, id)
  PROVE  Tells
<1>1. PICK f \in Frames :
        /\ Received(f) /\ UNCHANGED <<is_connected, next_service_id>>
        /\ \/ \E i \in Find(svc, id, peer) : WriteToService(i, f)
           \/ Unanswerable(f, id, peer)
  BY DEF RecvWrte, SInv, RInv, IInv, TypeOK
<1> QED BY <1>1, FoundIsRegistered, WriteToServiceTells, UnanswerableTells

LEMMA AckToServiceTells ==
  ASSUME SInv, NEW f, Received(f), NEW i \in Registered(svc),
         AckToService(i, f), UNCHANGED <<is_connected, next_service_id>>
  PROVE  Tells
<1>1. /\ i \in Ids /\ svc[i] \in Service /\ Gated(svc[i]) /\ Sound(svc[i])
      /\ svc[i].st \in {"open", "connecting", "notify", "error"}
  BY Before DEF Registered, AllGated, AllSound
<1>2. CASE Fails(i, f)
  BY <1>2, FailsTells
<1>3. CASE /\ svc[i].kind = "sync"
           /\ Answer(Header(f, "WRTE", i, svc[i].peer, FALSE))
           /\ UNCHANGED svc
  <2>1. Told(svc[i])
    BY <1>1, <1>3 DEF Gated, Told
  <2>2. MaySay("WRTE", i)
    BY <1>1, <1>3, <2>1 DEF MaySay
  <2>3. Grow(svc, svc')
    BY <1>3, Before, GrowNothing
  <2> QED BY <1>3, <2>2, <2>3, AnswerTells
<1>4. CASE Drop(f, svc)
  BY <1>4, Before, GrowNothing, DropTells DEF Drop
<1>5. CASE svc[i].kind # "sync" /\ Drop(f, [svc EXCEPT ![i] = Acked(@)])
  <2> DEFINE t == [svc EXCEPT ![i] = Acked(@)]
  <2>1. /\ Acked(svc[i]) \in Service /\ Gated(Acked(svc[i]))
        /\ Idle(Acked(svc[i])) => Idle(svc[i])
    BY <1>1, <1>5, AckedKeeps
  <2>2. AllGated(t)
    BY <1>1, <2>1, Before, ChangeOne
  <2>3. Grow(svc, t)
    BY <1>1, Before, AckedGrows, GrowOne DEF AllGated
  <2> HIDE DEF t
  <2>4. Release(f, t, wq)
    BY <1>5 DEF Drop, t
  <2> QED BY <2>2, <2>3, <2>4, DropTells
<1> QED BY <1>2, <1>3, <1>4, <1>5 DEF AckToService

LEMMA RecvOkayTells ==
  ASSUME SInv, NEW peer, NEW id, RecvOkay(peer, id)
  PROVE  Tells
<1>1. PICK f :
        /\ Received(f) /\ UNCHANGED <<is_connected, next_service_id>>
        /\ \/ \E i \in Find(svc, id, 0) : AckToService(i, f)
           \/ Unanswerable(f, id, peer)
  BY DEF RecvOkay
<1> QED BY <1>1, FoundIsRegistered, AckToServiceTells, UnanswerableTells

LEMMA ProtocolTells ==
  ASSUME SInv, Protocol
  PROVE  Tells
<1>1. CASE RecvCnxn \/ \E type : RecvAuth(type)
  BY <1>1, HandshakeTells
<1>2. CASE \E peer \in Peers, kind \in Kinds : RecvOpen(peer, kind)
  BY <1>2, OpenTells
<1>3. CASE (\E peer : RecvOpenRefused(peer)) \/ RecvOpenMalformed \/ RecvUnknown
  BY <1>3, NothingOpenedTells
<1>4. CASE \E peer, id :
             RecvClse(peer, id) \/ RecvWrte(peer, id) \/ RecvOkay(peer, id)
  BY <1>4, RecvClseTells, RecvWrteTells, RecvOkayTells
<1> QED BY <1>1, <1>2, <1>3, <1>4 DEF Protocol
-----------------------------------------------------------------------------
(* The streams *)

\* A service speaks of itself with a frame that was just allocated.
LEMMA SvcSends ==
  ASSUME SInv, fault = "none", NEW f, NEW cmd, NEW local, NEW remote,
         SendFrame(Header(f, cmd, local, remote, FALSE), wq),
         Grow(svc, svc'), UNCHANGED <<cur, is_connected, next_service_id>>,
         cmd \in {"OKAY", "WRTE", "CLSE"}, MaySay(cmd, local),
         live' \subseteq live \cup {f}
  PROVE  Tells
<1> DEFINE h == Header(f, cmd, local, remote, FALSE)
<1>1. TableOK(svc', next_service_id') /\ QueueOK(wq, svc', is_connected')
  BY Before, TableGrows, QueueGrows DEF Grow, Grows
<1>2. h.f = f /\ h.cmd = cmd /\ h.local = local /\ h.more = FALSE
  BY DEF Header
<1>3. SendFrame(h, wq)
  OBVIOUS
<1> HIDE DEF h
<1>4. Honest(h, svc', is_connected') /\ h.cmd # "AUTH"
  BY <1>2 DEF Honest, MaySay
<1>5. live' \subseteq Uses(cur', wq, svc') \cup {h.f} \cup Spare
  BY <1>2, Before, UsesGrow
<1> QED BY <1>1, <1>3, <1>4, <1>5, Before, SendTells

LEMMA ReadableMeans ==
  ASSUME SInv, NEW i \in Ids, Readable(i)
  PROVE  /\ fault = "none" /\ svc[i] \in Service /\ Sound(svc[i])
         /\ svc[i].st = "open" /\ i \in Registered(svc) /\ Told(svc[i])
         /\ svc \in [Ids -> Service] /\ AllSound(svc)
BY Before DEF Readable, AllGated, AllSound, Gated, Registered, Told

LEMMA ReadingTells ==
  ASSUME SInv, NEW i \in Ids,
         \/ SvcReadFrame(i) \/ SvcReadPark(i)
         \/ SvcReadEnd(i) \/ SvcOutOfMemory(i)
  PROVE  Tells
<1>1. /\ Readable(i) /\ UNCHANGED <<cur, is_connected, next_service_id>>
  BY DEF SvcReadFrame, SvcReadPark, SvcReadEnd, SvcOutOfMemory, Untouched
<1>2. CASE SvcReadFrame(i)
  <2>1. PICK f \in Frames :
          Allocate(f) /\ SendFrame(Header(f, "WRTE", i, svc[i].peer, FALSE), wq)
    BY <1>2 DEF SvcReadFrame
  <2> DEFINE r == [svc[i] EXCEPT !.rd = FALSE, !.ack = TRUE]
  <2>2. svc' = [svc EXCEPT ![i] = r]
    BY <1>1, <1>2, ReadableMeans DEF SvcReadFrame
  <2>3. Grows(svc[i], r)
    BY <1>1, ReadableMeans, ReadingGrows
  <2>4. svc'[i] = r
    BY <1>1, <2>2, ReadableMeans
  <2> HIDE DEF r
  <2>5. Grow(svc, svc')
    BY <1>1, <2>2, <2>3, ReadableMeans, GrowOne
  <2>6. MaySay("WRTE", i)
    BY <1>1, <2>3, <2>4, ReadableMeans DEF MaySay, Grows
  <2> QED BY <1>1, <2>1, <2>5, <2>6, ReadableMeans, SvcSends DEF Allocate
<1>3. CASE SvcReadPark(i) \/ SvcOutOfMemory(i)
  <2> DEFINE r == [svc[i] EXCEPT !.rd = FALSE]
  <2>1. svc' = [svc EXCEPT ![i] = r]
    BY <1>1, <1>3, ReadableMeans DEF SvcReadPark, SvcOutOfMemory
  <2>2. Grows(svc[i], r)
    BY <1>1, ReadableMeans, ReadingGrows
  <2> HIDE DEF r
  <2>3. Grow(svc, svc')
    BY <1>1, <2>1, <2>2, ReadableMeans, GrowOne
  <2>4. UNCHANGED <<wq, live>>
    BY <1>3 DEF SvcReadPark, SvcOutOfMemory, Refuse
  <2> QED BY <1>1, <2>3, <2>4, ReadableMeans, SilenceTells
<1>4. CASE SvcReadEnd(i)
  <2>1. PICK f \in Frames : Allocate(f) /\ CloseAndTell(i, f, svc, wq)
    BY <1>4 DEF SvcReadEnd
  <2>2. Grow(svc, svc')
    BY <1>1, <2>1, Before, ReadableMeans, CloseServiceGrows DEF CloseAndTell
  <2>3. MaySay("CLSE", IdOf(svc, i))
    BY DEF MaySay
  <2> QED BY <1>1, <2>1, <2>2, <2>3, ReadableMeans, SvcSends
          DEF CloseAndTell, Allocate
<1> QED BY <1>2, <1>3, <1>4

LEMMA ConnectDoneTells ==
  ASSUME SInv, NEW i \in Ids, ConnectDone(i)
  PROVE  Tells
<1>1. /\ fault = "none" /\ UNCHANGED <<cur, is_connected, next_service_id>>
      /\ svc \in [Ids -> Service] /\ AllSound(svc) /\ AllGated(svc)
  BY Before DEF ConnectDone, Untouched, AllGated
<1>2. CASE UNCHANGED <<conn, frame_count, live, wq, svc>>
  BY <1>1, <1>2, GrowNothing, SilenceTells
<1>3. ASSUME svc[i].st = "connecting",
             NEW result \in ConnectResult, NEW t,
             t = [svc EXCEPT ![i].st = result, ![i].req = FALSE],
             \/ \E f \in Frames : ConnectTold(i, t, f)
             \/ ConnectParked(t)
             \/ ConnectOutOfMemory(t)
      PROVE  Tells
  <2>1. result \in {"notify", "error"}
    BY DEF ConnectResult
  <2> DEFINE r == [svc[i] EXCEPT !.st = result, !.req = FALSE]
  <2>2. /\ svc[i] \in Service /\ Sound(svc[i]) /\ Gated(svc[i])
        /\ svc[i].kind = "tcp" /\ ~svc[i].ack /\ ~svc[i].rd
    BY <1>1, <1>3 DEF AllSound, AllGated, Gated
  <2>3. /\ r \in Service /\ r.st = result /\ r.q = svc[i].q
        /\ r.kind = svc[i].kind /\ r.ack = svc[i].ack /\ r.rd = svc[i].rd
    BY <2>1, <2>2 DEF Service
  <2>4. t = [svc EXCEPT ![i] = r]
    BY <1>1, <1>3
  <2> HIDE DEF r
  <2>5. Grows(svc[i], r) /\ Gated(r) /\ Sound(r)
    BY <1>3, <2>1, <2>2, <2>3 DEF Grows, Told, Sound, Gated
  <2>6. Grow(svc, t) /\ AllSound(t)
    BY <1>1, <2>4, <2>5, GrowOne, GrowNothing, GrowTwice
  <2>7. t \in [Ids -> Service] /\ t[i] = r
    BY <1>1, <2>3, <2>4
  <2>8. CASE ConnectParked(t) \/ ConnectOutOfMemory(t)
    <3>1. svc' = t /\ UNCHANGED <<wq, live>>
      BY <2>8 DEF ConnectParked, ConnectOutOfMemory, Refuse
    <3> QED BY <1>1, <2>6, <3>1, SilenceTells
  <2>9. ASSUME NEW f \in Frames, ConnectTold(i, t, f) PROVE Tells
    <3> DEFINE g == Granted(r)
    <3>1. Grows(r, g) /\ Told(g)
      BY <2>1, <2>3, <2>5, GrantedGrows
    <3>2. svc' = [t EXCEPT ![i] = g]
      BY <2>7, <2>9 DEF ConnectTold
    <3> HIDE DEF g
    <3>3. Grow(t, svc') /\ svc'[i] = g
      BY <2>6, <2>7, <3>1, <3>2, GrowOne
    <3>4. Grow(svc, svc')
      BY <2>6, <3>3, GrowTwice
    <3> DEFINE h == GrantHeader(t, i, f)
    <3>5. /\ h.f = f /\ h.cmd \in {"OKAY", "CLSE"} /\ h.more = FALSE
          /\ h.cmd = "OKAY" => h.local = i
      BY DEF GrantHeader, Header
    <3>6. live' = live \cup {f}
      BY <2>9 DEF ConnectTold, Allocate
    <3>7. \/ wq' = Append(wq, h)
          \/ wq' = wq /\ fault' = "double_close"
      BY <2>9 DEF ConnectTold, CloseClient
    <3> HIDE DEF h
    <3>8. Honest(h, svc', is_connected') /\ h.cmd # "AUTH"
      BY <3>1, <3>3, <3>5 DEF Honest
    <3>9. /\ TableOK(svc', next_service_id')
          /\ QueueOK(wq, svc', is_connected')
      BY <1>1, <3>4, Before, TableGrows, QueueGrows DEF Grow, Grows
    <3>10. CASE wq' = Append(wq, h)
      <4>1. /\ QueueOK(wq', svc', is_connected')
            /\ FramesOf(wq') = FramesOf(wq) \cup {f}
        BY <3>5, <3>8, <3>9, <3>10, Before, QueueAppend
      <4>2. Uses(cur', wq, svc') = Uses(cur, wq, svc)
        BY <1>1, <3>4, UsesGrow
      <4>3. live' \subseteq Uses(cur', wq', svc') \cup Spare
        BY <1>1, <3>6, <4>1, <4>2, Before DEF Uses
      <4> QED BY <3>9, <4>1, <4>3 DEF Tells
    <3>11. CASE wq' = wq /\ fault' = "double_close"
      BY <3>9, <3>11 DEF Tells
    <3> QED BY <3>7, <3>10, <3>11
  <2> QED BY <1>3, <2>8, <2>9
<1> QED BY <1>2, <1>3 DEF ConnectDone
\* libuv is done with a frame of the service.
LEMMA WrittenMeans ==
  ASSUME SInv, NEW i \in Ids, NEW f \in svc[i].q
  PROVE  /\ svc[i].st \in {"open", "closing"} /\ Told(svc[i])
         /\ TableOK(Written(i, f), next_service_id)
         /\ \A j \in Ids : Told(svc[j]) => Told(Written(i, f)[j])
         /\ Written(i, f)[i].st = svc[i].st
         /\ Uses(cur, wq, svc) \subseteq Uses(cur, wq, Written(i, f)) \cup {f}
<1> DEFINE t == Written(i, f)
<1>1. /\ svc \in [Ids -> Service] /\ TableOK(svc, next_service_id)
      /\ AllSound(svc)
  BY Before DEF AllGated
<1>2. \A j \in Ids : /\ t[j].st = svc[j].st /\ t[j].kind = svc[j].kind
                     /\ t[j].q = IF j = i THEN svc[j].q \ {f} ELSE svc[j].q
  BY <1>1 DEF Written, Service
<1> HIDE DEF t
<1>3. svc[i].st \in {"open", "closing"} /\ Told(svc[i])
  BY <1>1 DEF AllSound, Sound, Told
<1>4. TableOK(t, next_service_id)
  <2> SUFFICES ASSUME NEW j \in Ids
               PROVE  /\ Sound(t[j])
                      /\ j >= next_service_id => t[j].st = "unused" /\ t[j].q = {}
    BY DEF TableOK
  <2>1. t[j].q \subseteq svc[j].q
    BY <1>2
  <2> QED BY <1>1, <1>2, <2>1 DEF TableOK, Sound
<1>5. \A j \in Ids : Told(svc[j]) => Told(t[j])
  BY <1>2 DEF Told
<1>6. Uses(cur, wq, svc) \subseteq Uses(cur, wq, t) \cup {f}
  <2>1. \A j \in Ids : svc[j].q \subseteq t[j].q \cup {f}
    BY <1>2
  <2> QED BY <2>1 DEF Uses
<1> QED BY <1>2, <1>3, <1>4, <1>5, <1>6 DEF t

LEMMA SvcWriteDoneTells ==
  ASSUME SInv, NEW i \in Ids, NEW f \in Frames, SvcWriteDone(i, f)
  PROVE  Tells
<1> DEFINE h == Header(f, "OKAY", i, svc[i].peer, FALSE)
<1>1. /\ fault = "none" /\ f \in svc[i].q /\ svc' = Written(i, f)
      /\ SendFrame(h, wq) /\ live' = live /\ cur' = cur
      /\ is_connected' = is_connected /\ next_service_id' = next_service_id
  BY DEF SvcWriteDone, Untouched
<1>2. h.f = f /\ h.cmd = "OKAY" /\ h.local = i /\ h.more = FALSE
  BY DEF Header
<1> HIDE DEF h
<1>3. TableOK(svc', next_service_id') /\ Told(svc'[i])
  BY <1>1, WrittenMeans
<1>4. QueueOK(wq, svc', is_connected')
  BY <1>1, Before, WrittenMeans, QueueGrows
<1>5. Honest(h, svc', is_connected') /\ h.cmd # "AUTH"
  BY <1>2, <1>3 DEF Honest
<1>6. live' \subseteq Uses(cur', wq, svc') \cup {h.f} \cup Spare
  BY <1>1, <1>2, Before, WrittenMeans
<1> QED BY <1>1, <1>3, <1>4, <1>5, <1>6, Before, SendTells

LEMMA SvcWriteFailedTells ==
  ASSUME SInv, NEW i \in Ids, NEW f \in Frames, SvcWriteFailed(i, f)
  PROVE  Tells
<1> DEFINE t == Written(i, f)
<1>1. /\ f \in svc[i].q /\ UNCHANGED <<live, cur>>
      /\ is_connected' = is_connected /\ next_service_id' = next_service_id
  BY DEF SvcWriteFailed, Untouched
<1>2. /\ TableOK(t, next_service_id') /\ AllSound(t) /\ AllGated(t)
      /\ t[i].st = svc[i].st
  BY <1>1, WrittenMeans, WrittenKeeps DEF TableOK, AllSound, SInv
<1>3. QueueOK(wq, t, is_connected')
  BY <1>1, Before, WrittenMeans, QueueGrows
<1>4. CASE svc[i].st = "open" /\ CloseAndTell(i, f, t, wq)
  <2> DEFINE h == Header(f, "CLSE", IdOf(t, i), t[i].peer, FALSE)
  <2>1. svc' = CloseService(t, i) /\ SendFrame(h, wq)
    BY <1>4 DEF CloseAndTell
  <2>2. h.cmd = "CLSE" /\ h.more = FALSE /\ h.f = f
    BY DEF Header
  <2> HIDE DEF h, t
  <2>3. Grow(t, svc')
    BY <1>2, <1>4, <2>1, CloseServiceGrows DEF Registered
  <2>4. TableOK(svc', next_service_id') /\ QueueOK(wq, svc', is_connected')
    BY <1>2, <1>3, <2>3, TableGrows, QueueGrows DEF Grow, Grows
  <2>5. Honest(h, svc', is_connected') /\ h.cmd # "AUTH"
    BY <2>2 DEF Honest
  <2>6. live' \subseteq Uses(cur', wq, svc') \cup {h.f} \cup Spare
    BY <1>1, <1>4, <2>2, <2>3, Before, UsesGrow, WrittenMeans DEF t
  <2> QED BY <1>1, <2>1, <2>4, <2>5, <2>6, Before, SendTells
<1>5. CASE svc[i].st = "closing" /\ svc' = t /\ UNCHANGED <<conn, wq>>
  <2>1. f \in Spare
    BY <1>1, <1>5 DEF Spare, Doomed
  <2>2. live' \subseteq Uses(cur', wq', svc') \cup Spare
    BY <1>1, <1>5, <2>1, Before, WrittenMeans
  <2> QED BY <1>1, <1>2, <1>3, <1>5, <2>2 DEF Tells
<1> QED BY <1>4, <1>5 DEF SvcWriteFailed

LEMMA StreamsTell ==
  ASSUME SInv, Streams
  PROVE  Tells
<1>1. PICK i \in Ids :
        \/ SvcReadFrame(i) \/ SvcReadPark(i) \/ SvcReadEnd(i)
        \/ SvcOutOfMemory(i) \/ ConnectDone(i) \/ SvcClosed(i)
        \/ \E f \in Frames :
             SvcWriteDone(i, f) \/ SvcWriteFailed(i, f) \/ SvcWriteOrphaned(i, f)
  BY DEF Streams
<1>2. CASE SvcClosed(i)
  <2>1. /\ fault = "none" /\ svc[i].st = "closing" /\ svc[i].q = {}
        /\ svc' = [svc EXCEPT ![i] = Freed(svc[i])]
        /\ UNCHANGED <<live, wq, cur, is_connected, next_service_id>>
    BY <1>2 DEF SvcClosed, Untouched
  <2>2. svc \in [Ids -> Service] /\ AllSound(svc) /\ Sound(svc[i])
    BY Before DEF AllGated, AllSound
  <2>3. Grows(svc[i], Freed(svc[i]))
    BY <2>1, <2>2, FreedGrows
  <2>4. Grow(svc, svc')
    BY <2>1, <2>2, <2>3, GrowOne
  <2> QED BY <2>1, <2>4, SilenceTells
<1>3. CASE \E f \in Frames : SvcWriteOrphaned(i, f)
  <2>1. /\ fault = "none"
        /\ UNCHANGED <<svc, live, wq, cur, is_connected, next_service_id>>
    BY <1>3 DEF SvcWriteOrphaned
  <2> QED BY <2>1, Before, GrowNothing, SilenceTells
<1> QED BY <1>1, <1>2, <1>3, ReadingTells, ConnectDoneTells, SvcWriteDoneTells,
           SvcWriteFailedTells

-----------------------------------------------------------------------------
(* The specification *)

LEMMA SInvInit ==
  ASSUME Init
  PROVE  SInv
<1>1. TableOK(svc, next_service_id)
  BY DEF Init, TableOK, Sound, Unused
<1>2. QueueOK(wq, svc, is_connected)
  BY DEF Init, QueueOK, Ordered
<1>3. AtMostOne(cur)
  BY DEF Init, AtMostOne
<1> QED BY <1>1, <1>2, <1>3, RInvInit DEF SInv

LEMMA NextTells ==
  ASSUME SInv, [Next]_vars
  PROVE  Tells
<1>1. CASE Next
  BY <1>1, TransportTells, ProtocolTells, StreamsTell DEF Next
<1>2. CASE UNCHANGED vars
  <2>1. UNCHANGED <<svc, wq, cur, live, is_connected, next_service_id, fault>>
    BY <1>2 DEF vars
  <2> QED BY <2>1, Before DEF Tells
<1> QED BY <1>1, <1>2

LEMMA SInvNext ==
  ASSUME SInv, [Next]_vars
  PROVE  SInv'
<1>1. RInv' /\ AtMostOne(cur')
  BY RInvNext, ReaderStep DEF SInv
<1> QED BY <1>1, NextTells DEF SInv, Tells, AtMostOne

\* adb_client.c and the services on it: the table of services, the queue of
\* writes and the frame being handled agree after every handler.
THEOREM StreamInvariance == Spec => []SInv
<1>1. Init => SInv
  BY SInvInit
<1>2. SInv /\ [Next]_vars => SInv'
  BY SInvNext
<1> QED BY <1>1, <1>2, PTL DEF Spec

\* tcp_service.c: the host hears nothing of a forwarded connection before its
\* OKAY, nor of one that was refused, for any number of frames and services.
THEOREM QuietnessCorrect == Spec => []QuietBeforeConnect
<1>1. SInv => QuietBeforeConnect
  BY DEF SInv, QueueOK, Honest, Told, QuietBeforeConnect
<1> QED BY <1>1, StreamInvariance, PTL

\* handle_auth_frame() and adb_process_packet(): no challenge is under way
\* behind the banner.
THEOREM HandshakeCorrect == Spec => []NoChallengeAfterBanner
<1>1. SInv => NoChallengeAfterBanner
  BY DEF SInv, QueueOK, Ordered, NoChallengeAfterBanner
<1> QED BY <1>1, StreamInvariance, PTL

\* The callbacks of adb_client.c, hal_uv_packet.c and the services: a frame is
\* lost only when the write to a service that is closed is cancelled, whatever
\* else goes wrong, for any number of frames and services.
THEOREM FramesKeptCorrect == Spec => FramesKept
<1>1. SInv /\ [Next]_vars =>
        [fault' = "none" => Lost' \subseteq Lost \cup Doomed]_vars
  <2> SUFFICES ASSUME SInv, [Next]_vars, fault' = "none"
               PROVE  Lost' \subseteq Lost \cup Doomed
    OBVIOUS
  <2>1. live' \subseteq Uses(cur', wq', svc') \cup Spare
    BY NextTells DEF Tells
  <2>2. Lost' = live' \ Uses(cur', wq', svc')
    BY DEF Lost, Uses, FramesOf
  <2> QED BY <2>1, <2>2 DEF Spare
<1> QED BY <1>1, StreamInvariance, PTL DEF Spec, FramesKept

-----------------------------------------------------------------------------
(* The counter and the kicks implement the pool that FramePool describes *)

\* The step is one of the pool, or the pool does not notice.
Simulates == [Pool!PoolNext]_(Pool!poolVars)

LEMMA Waits ==
  /\ 0 \notin Ids
  /\ \A i \in Ids : i \in Waiting <=> conn = "up" /\ Idle(svc[i])
  /\ 0 \in Waiting <=> conn = "up" /\ ~reading
  /\ Waiting \subseteq Ids \cup {0}
<1>1. 0 \notin Ids
  BY IdsAreNat
<1> QED BY <1>1 DEF Waiting, HostParked, StreamParked, NewsParked, NeedFrame,
                    Idle

LEMMA WaitsNext ==
  /\ \A i \in Ids : i \in Waiting' <=> conn' = "up" /\ Idle(svc'[i])
  /\ 0 \in Waiting' <=> conn' = "up" /\ ~reading'
  /\ Waiting' \subseteq Ids \cup {0}
<1>1. 0 \notin Ids
  BY IdsAreNat
<1> QED BY <1>1 DEF Waiting, HostParked, StreamParked, NewsParked, NeedFrame,
                    Idle, MayRead

LEMMA FullMeans ==
  ASSUME RInv
  PROVE  Pool!Full <=> frame_count >= FrameMax
<1>1. Pool!Cardinality(live) = Cardinality(live)
  BY DEF Pool!Cardinality, Cardinality
<1> QED BY <1>1, PoolAssumption
        DEF RInv, IInv, TypeOK, FrameAccounting, Pool!Full

\* Some leave, and nothing else happens.
LEMMA LeaveSimulates ==
  ASSUME live' = live, Waiting' \subseteq Waiting
  PROVE  Simulates
BY DEF Simulates, Pool!PoolNext, Pool!Leave, Pool!poolVars

LEMMA AllocateSimulates ==
  ASSUME RInv, RInv', NEW f \in Frames, Allocate(f)
  PROVE  Simulates
<1>1. Waiting = {} /\ Waiting' = {}
  BY PoolAssumption DEF RInv, NoLostWakeup, Allocate, IInv, TypeOK
<1>2. ~Pool!Full
  BY FullMeans, PoolAssumption DEF Allocate, RInv, IInv, TypeOK
<1>3. Pool!Acquire(f)
  BY <1>1, <1>2 DEF Pool!Acquire, Allocate
<1> QED BY <1>3 DEF Simulates, Pool!PoolNext

LEMMA RefuseSimulates ==
  ASSUME RInv, Refuse, NEW u \in Ids \cup {0},
         Waiting \subseteq Waiting', Waiting' \subseteq Waiting \cup {u}
  PROVE  Simulates
<1>1. CASE u \in Waiting'
  <2>1. Waiting' = Waiting \cup {u}
    BY <1>1
  <2>2. Pool!TurnAway(u)
    BY <2>1, FullMeans DEF Refuse, Pool!TurnAway
  <2> QED BY <2>2 DEF Simulates, Pool!PoolNext
<1>2. CASE u \notin Waiting'
  BY <1>2, LeaveSimulates DEF Refuse
<1> QED BY <1>1, <1>2

LEMMA GiveBackSimulates ==
  ASSUME RInv, NEW f \in live, live' = live \ {f}, Waiting' = {}
  PROVE  Simulates
<1>1. f \in Frames
  BY DEF RInv, IInv, TypeOK
<1>2. Pool!GiveBack(f)
  BY DEF Pool!GiveBack
<1> QED BY <1>1, <1>2 DEF Simulates, Pool!PoolNext

LEMMA CalmSimulates ==
  ASSUME RInv, live' = live, Calmer(svc, svc'), conn' = "up" => conn = "up",
         conn' = "up" => (reading => reading')
  PROVE  Simulates
<1>1. Waiting' \subseteq Waiting
  BY Waits, WaitsNext DEF Calmer
<1> QED BY <1>1, LeaveSimulates

LEMMA ReleaseSimulates ==
  ASSUME RInv, RInv', NEW f \in live, NEW t, NEW q, AllGated(t),
         Calmer(svc, t), Release(f, t, q), conn' = "up" => conn = "up"
  PROVE  Simulates
<1>1. CASE ReleaseQuietly(f, t, q) \/ ReleaseAndResume(f, t, q)
  <2>1. live' = live \ {f} /\ frame_count' <= FrameMax
    BY <1>1, PoolAssumption
       DEF ReleaseQuietly, ReleaseAndResume, RInv, IInv, TypeOK
  <2>2. Waiting' = {}
    BY <2>1, PoolAssumption DEF RInv, NoLostWakeup
  <2> QED BY <2>1, <2>2, GiveBackSimulates
<1>2. CASE ReleaseAborts(f, t, q)
  <2>1. conn' # "up" /\ live' = live \ {f}
    BY <1>2 DEF ReleaseAborts, KickAborts
  <2>2. Waiting' = {}
    BY <2>1, WaitingMeansNext
  <2> QED BY <2>1, <2>2, GiveBackSimulates
<1>3. CASE ReleaseAndGrant(f, t, q)
  <2>1. PICK i \in Newest(NeedFrame(t)) :
          svc' = [Resume(t) EXCEPT ![i] = Granted(@)]
    BY <1>3 DEF ReleaseAndGrant
  <2>2. i \in NeedFrame(t)
    BY DEF Newest
  <2>3. \A j \in Ids : Idle(svc'[j]) => j \in NeedFrame(t)
    BY <2>1, <2>2, GrantKeeps
  <2>4. Calmer(svc, svc')
    BY <2>3 DEF Calmer, NeedFrame, Idle
  <2>5. live' = live /\ (conn' = "up" => reading')
    BY <1>3 DEF ReleaseAndGrant
  <2> QED BY <2>4, <2>5, CalmSimulates
<1> QED BY <1>1, <1>2, <1>3 DEF Release

\* The frame received, and the one written last, are in use.
LEMMA InUse ==
  ASSUME RInv
  PROVE  cur \subseteq live /\ (wq # <<>> => Head(wq).f \in live)
<1>1. Owned(cur, wq, svc, live) /\ wq \in Seq(WireFrame)
  BY DEF RInv, IInv, TypeOK, SingleOwner, Owned
<1> QED BY <1>1, OwnedTail DEF Owned, Uses

LEMMA TransportSimulates ==
  ASSUME RInv, RInv', FromTransport
  PROVE  Simulates
<1>1. CASE HostReadBegin
  <2>1. PICK f \in Frames : Allocate(f)
    BY <1>1 DEF HostReadBegin
  <2> QED BY <2>1, AllocateSimulates
<1>2. CASE HostReadPark
  <2>1. Waiting \subseteq Waiting' /\ Waiting' \subseteq Waiting \cup {0}
    <3>1. conn = "up" /\ ~reading' /\ UNCHANGED <<conn, svc>>
      BY <1>2 DEF HostReadPark, Listening
    <3> QED BY <3>1, Waits, WaitsNext
  <2> QED BY <1>2, <2>1, RefuseSimulates DEF HostReadPark
<1>3. CASE HostOutOfMemory \/ HostBadFrame \/ UsbClosed
  <2>1. /\ UNCHANGED <<live, svc>> /\ (conn' = "up" => conn = "up")
        /\ conn' = "up" => reading' = reading
    BY <1>3 DEF HostOutOfMemory, HostBadFrame, UsbClosed, CloseClient, Listening
  <2> QED BY <2>1, Same, CalmSimulates
<1>4. CASE HostHangup
  <2>1. CASE UNCHANGED <<cur, frame_count, live>>
    <3>1. svc' = svc /\ conn' # "up"
      BY <1>4 DEF HostHangup, CloseClient, Listening
    <3> QED BY <2>1, <3>1, Same, CalmSimulates
  <2>2. CASE \E f \in Frames : Allocate(f)
    BY <2>2, AllocateSimulates
  <2> QED BY <1>4, <2>1, <2>2 DEF HostHangup
<1>5. CASE HostWriteDone
  <2>1. CASE Release(Head(wq).f, svc, Tail(wq)) /\ UNCHANGED conn
    <3>1. Head(wq).f \in live
      BY <1>5, InUse DEF HostWriteDone
    <3> QED BY <2>1, <3>1, Same, ReleaseSimulates
  <2>2. CASE /\ SendFrame([Head(wq) EXCEPT !.cmd = "WRTE", !.more = FALSE],
                          Tail(wq))
             /\ UNCHANGED <<reading, frame_count, live, svc>>
    <3>1. conn' = conn
      BY <2>2 DEF SendFrame, CloseClient
    <3> QED BY <2>2, <3>1, Same, CalmSimulates
  <2> QED BY <1>5, <2>1, <2>2 DEF HostWriteDone
<1>6. CASE HostWriteFailed
  <2>1. Head(wq).f \in live
    BY <1>6, InUse DEF HostWriteFailed
  <2>2. CASE /\ Release(Head(wq).f, svc, Tail(wq))
             /\ conn' = "closing" \/ UNCHANGED conn
    BY <2>1, <2>2, Same, ReleaseSimulates
  <2>3. CASE /\ CloseClient
             /\ UNCHANGED <<reading, frame_count, live, wq, svc>>
    <3>1. conn' = "up" => conn = "up"
      BY <2>3 DEF CloseClient
    <3> QED BY <2>3, <3>1, Same, CalmSimulates
  <2> QED BY <1>6, <2>2, <2>3 DEF HostWriteFailed, Release
<1>7. CASE HostClosed
  <2>1. AllGated(CloseAll(svc)) /\ Calmer(svc, CloseAll(svc))
    BY Same, CloseAllKeeps
  <2>2. CASE UNCHANGED <<conn, reading, cur, frame_count, live, wq, svc>>
    BY <2>2, Same, CalmSimulates
  <2>3. CASE conn' = "gone" /\ \E f \in cur : Release(f, CloseAll(svc), <<>>)
    BY <2>1, <2>3, InUse, ReleaseSimulates
  <2>4. CASE conn' = "gone" /\ svc' = CloseAll(svc) /\ live' = live
    BY <2>1, <2>4, CalmSimulates
  <2> QED BY <1>7, <2>2, <2>3, <2>4 DEF HostClosed
<1> QED BY <1>1, <1>2, <1>3, <1>4, <1>5, <1>6, <1>7 DEF FromTransport
LEMMA AnswerSimulates ==
  ASSUME RInv, NEW h, Answer(h), Calmer(svc, svc')
  PROVE  Simulates
<1>1. conn' = conn
  BY DEF Answer, SendFrame, CloseClient
<1> QED BY <1>1, CalmSimulates DEF Answer

LEMMA DropSimulates ==
  ASSUME RInv, RInv', NEW f \in cur, NEW t, Release(f, t, wq),
         AllGated(t), Calmer(svc, t), conn' \in {conn, "closing"}
  PROVE  Simulates
BY InUse, ReleaseSimulates

LEMMA FailsSimulates ==
  ASSUME RInv, NEW i \in Ids, NEW f, Fails(i, f)
  PROVE  Simulates
<1>1. svc' = CloseService(svc, i) /\ conn' = conn
  BY DEF Fails, CloseAndTell, SendFrame, CloseClient
<1>2. Calmer(svc, svc')
  BY <1>1, Same, CloseServiceKeeps
<1> QED BY <1>1, <1>2, CalmSimulates DEF Fails

LEMMA HandshakeSimulates ==
  ASSUME RInv, RInv',
         \/ RecvCnxn \/ (\E type : RecvAuth(type))
         \/ (\E peer : RecvOpenRefused(peer)) \/ RecvOpenMalformed
         \/ RecvUnknown
  PROVE  Simulates
<1>1. PICK f \in cur :
        \/ Release(f, svc, wq) /\ conn' \in {conn, "closing"}
        \/ (\E h : Answer(h)) /\ UNCHANGED svc
  BY DEF RecvCnxn, RecvAuth, AuthRequest, RecvOpenRefused, RecvOpenMalformed,
         RecvUnknown, Drop
<1> QED BY <1>1, Same, DropSimulates, AnswerSimulates

LEMMA OpenSimulates ==
  ASSUME RInv, RInv', NEW peer \in Peers, NEW kind \in Kinds,
         RecvOpen(peer, kind)
  PROVE  Simulates
<1> DEFINE i == next_service_id
           t == [svc EXCEPT ![i] = Opened(kind, peer)]
<1>1. PICK f \in cur : Drop(f, t) \/ (svc' = t /\ \E h : Answer(h))
  BY DEF RecvOpen
<1>2. i \in Ids
  BY ServiceTableAssumption DEF RecvOpen, RInv, IInv, TypeOK, Ids
<1>3. AllGated(t) /\ Calmer(svc, t)
  BY <1>2, Same, OpenedKeeps, ChangeOne
<1> HIDE DEF t
<1> QED BY <1>1, <1>3, AnswerSimulates, DropSimulates DEF Drop

LEMMA RecvClseSimulates ==
  ASSUME RInv, RInv', NEW peer, NEW id, RecvClse(peer, id)
  PROVE  Simulates
<1>1. PICK f \in cur :
        \/ \E i \in Find(svc, id, peer) : Drop(f, CloseService(svc, i))
        \/ Drop(f, svc)
  BY DEF RecvClse
<1>2. \A i \in Find(svc, id, peer) : /\ AllGated(CloseService(svc, i))
                                     /\ Calmer(svc, CloseService(svc, i))
  BY FoundIsId, Same, CloseServiceKeeps
<1> QED BY <1>1, <1>2, Same, DropSimulates DEF Drop

LEMMA RecvWrteSimulates ==
  ASSUME RInv, NEW peer, NEW id, RecvWrte(peer, id)
  PROVE  Simulates
<1>1. PICK f \in Frames :
         \/ \E i \in Find(svc, id, peer) : WriteToService(i, f)
         \/ Unanswerable(f, id, peer)
  BY DEF RecvWrte, RInv, IInv, TypeOK
<1>2. CASE Unanswerable(f, id, peer)
  BY <1>2, Same, AnswerSimulates DEF Unanswerable
<1>3. ASSUME NEW i \in Ids, WriteToService(i, f) PROVE Simulates
  <2>1. CASE /\ svc' = [svc EXCEPT ![i].q = @ \cup {f}]
             /\ UNCHANGED <<conn, reading, frame_count, live, wq, fault>>
    <3>1. svc[i].q \cup {f} \in SUBSET Frames
      <4>1. svc[i] \in Service
        BY Same DEF AllGated
      <4> QED BY <4>1 DEF Service
    <3>2. Calmer(svc, svc')
      BY <2>1, <3>1, Same, QueueKeeps
    <3> QED BY <2>1, <3>2, CalmSimulates
  <2>2. CASE (\E h : Answer(h)) /\ UNCHANGED svc
    BY <2>2, Same, AnswerSimulates
  <2> QED BY <1>3, <2>1, <2>2, FailsSimulates DEF WriteToService
<1> QED BY <1>1, <1>2, <1>3, FoundIsId

LEMMA RecvOkaySimulates ==
  ASSUME RInv, RInv', NEW peer, NEW id, RecvOkay(peer, id)
  PROVE  Simulates
<1>1. PICK f \in cur : \/ \E i \in Find(svc, id, 0) : AckToService(i, f)
                       \/ Unanswerable(f, id, peer)
  BY DEF RecvOkay
<1>2. CASE Unanswerable(f, id, peer)
  BY <1>2, Same, AnswerSimulates DEF Unanswerable
<1>3. ASSUME NEW i \in Ids, AckToService(i, f),
             svc[i].st \in {"open", "connecting", "notify", "error"}
      PROVE  Simulates
  <2>1. CASE (\E h : Answer(h)) /\ UNCHANGED svc
    BY <2>1, Same, AnswerSimulates
  <2>2. CASE Drop(f, svc)
    BY <2>2, Same, DropSimulates DEF Drop
  <2>3. CASE svc[i].kind # "sync" /\ Drop(f, [svc EXCEPT ![i] = Acked(@)])
    <3>1. /\ Acked(svc[i]) \in Service /\ Gated(Acked(svc[i]))
          /\ Idle(Acked(svc[i])) => Idle(svc[i])
      BY <1>3, <2>3, Same, AckedKeeps DEF AllGated
    <3>2. /\ AllGated([svc EXCEPT ![i] = Acked(@)])
          /\ Calmer(svc, [svc EXCEPT ![i] = Acked(@)])
      BY <3>1, Same, ChangeOne
    <3> QED BY <2>3, <3>2, DropSimulates DEF Drop
  <2> QED BY <1>3, <2>1, <2>2, <2>3, FailsSimulates DEF AckToService
<1>4. \A i \in Find(svc, id, 0) :
        i \in Ids /\ svc[i].st \in {"open", "connecting", "notify", "error"}
  BY DEF Find, Newest, Registered
<1> QED BY <1>1, <1>2, <1>3, <1>4

LEMMA ProtocolSimulates ==
  ASSUME RInv, RInv', Protocol
  PROVE  Simulates
<1>1. \/ RecvCnxn \/ (\E type : RecvAuth(type))
      \/ (\E peer : RecvOpenRefused(peer)) \/ RecvOpenMalformed
      \/ RecvUnknown
      \/ \E peer \in Peers, kind \in Kinds : RecvOpen(peer, kind)
      \/ \E peer, id : RecvClse(peer, id)
      \/ \E peer, id : RecvWrte(peer, id)
      \/ \E peer, id : RecvOkay(peer, id)
  BY DEF Protocol
<1> QED BY <1>1, HandshakeSimulates, OpenSimulates, RecvClseSimulates,
           RecvWrteSimulates, RecvOkaySimulates

\* A stream that finds no frame joins those who wait, alone.
LEMMA JoinsAlone ==
  ASSUME NEW i \in Ids, ~Idle(svc[i]), UNCHANGED <<conn, reading>>,
         \A j \in Ids : j # i => svc'[j] = svc[j]
  PROVE  Waiting \subseteq Waiting' /\ Waiting' \subseteq Waiting \cup {i}
BY Waits, WaitsNext

LEMMA StreamsSimulate ==
  ASSUME RInv, RInv', Streams
  PROVE  Simulates
<1>1. PICK i \in Ids :
        \/ SvcReadFrame(i) \/ SvcReadPark(i) \/ SvcReadEnd(i)
        \/ SvcOutOfMemory(i) \/ ConnectDone(i) \/ SvcClosed(i)
        \/ \E f \in Frames :
             SvcWriteDone(i, f) \/ SvcWriteFailed(i, f) \/ SvcWriteOrphaned(i, f)
  BY DEF Streams
<1>2. svc \in [Ids -> Service] /\ Gated(svc[i]) /\ svc[i] \in Service
  BY DEF RInv, AllGated
<1>3. CASE \E f \in Frames : Allocate(f)
  BY <1>3, AllocateSimulates
<1>4. CASE live' = live /\ conn' # "up"
  BY <1>4, WaitingMeansNext, LeaveSimulates
<1>5. CASE SvcReadFrame(i) \/ SvcReadEnd(i)
  BY <1>3, <1>5 DEF SvcReadFrame, SvcReadEnd
<1>6. CASE SvcOutOfMemory(i)
  BY <1>4, <1>6 DEF SvcOutOfMemory, CloseClient
<1>7. CASE SvcReadPark(i)
  <2>1. /\ Refuse /\ UNCHANGED <<conn, reading>>
        /\ svc[i].rd /\ svc' = [svc EXCEPT ![i].rd = FALSE]
    BY <1>7 DEF SvcReadPark, Readable
  <2>2. ~Idle(svc[i])
    BY <1>2, <2>1 DEF Gated, Idle
  <2>3. Waiting \subseteq Waiting' /\ Waiting' \subseteq Waiting \cup {i}
    BY <1>2, <2>1, <2>2, JoinsAlone
  <2> QED BY <2>1, <2>3, RefuseSimulates
<1>8. CASE ConnectDone(i)
  <2>1. CASE UNCHANGED <<conn, frame_count, live, wq, svc>>
    BY <1>8, <2>1, Same, CalmSimulates DEF ConnectDone
  <2>2. ASSUME svc[i].st = "connecting", NEW result, NEW t,
               t = [svc EXCEPT ![i].st = result, ![i].req = FALSE],
               ConnectParked(t)
        PROVE  Simulates
    <3>1. Waiting \subseteq Waiting' /\ Waiting' \subseteq Waiting \cup {i}
      BY <1>2, <1>8, <2>2, JoinsAlone
         DEF ConnectDone, ConnectParked, Idle, MayRead
    <3> QED BY <2>2, <3>1, RefuseSimulates DEF ConnectParked
  <2>3. CASE \E t : \E f \in Frames : ConnectTold(i, t, f)
    BY <1>3, <2>3 DEF ConnectTold
  <2>4. CASE \E t : ConnectOutOfMemory(t)
    BY <1>4, <2>4 DEF ConnectOutOfMemory, CloseClient
  <2> QED BY <1>8, <2>1, <2>2, <2>3, <2>4 DEF ConnectDone
<1>9. CASE \E f \in Frames : SvcWriteDone(i, f) \/ SvcWriteFailed(i, f)
  <2>1. PICK f \in Frames : SvcWriteDone(i, f) \/ SvcWriteFailed(i, f)
    BY <1>9
  <2>2. AllGated(Written(i, f)) /\ Calmer(svc, Written(i, f))
    BY WrittenKeeps
  <2>3. svc' = Written(i, f) \/ svc' = CloseService(Written(i, f), i)
    BY <2>1 DEF SvcWriteDone, SvcWriteFailed, CloseAndTell
  <2>4. Calmer(Written(i, f), CloseService(Written(i, f), i))
    BY <2>2, CloseServiceKeeps
  <2>5. Calmer(svc, svc')
    BY <2>2, <2>3, <2>4 DEF Calmer
  <2>6. UNCHANGED <<conn, reading, live>>
    BY <2>1 DEF SvcWriteDone, SvcWriteFailed, CloseAndTell, SendFrame,
                CloseClient
  <2> QED BY <2>5, <2>6, CalmSimulates
<1>10. CASE SvcClosed(i) \/ \E f : SvcWriteOrphaned(i, f)
  <2>1. CASE SvcClosed(i)
    <3>1. Calmer(svc, svc')
      BY <1>2, <2>1, Same, FreedType, FreedKeeps, ChangeOne DEF SvcClosed
    <3> QED BY <2>1, <3>1, CalmSimulates DEF SvcClosed
  <2>2. CASE \E f : SvcWriteOrphaned(i, f)
    BY <2>2, Same, CalmSimulates DEF SvcWriteOrphaned
  <2> QED BY <1>10, <2>1, <2>2
<1> QED BY <1>1, <1>5, <1>6, <1>7, <1>8, <1>9, <1>10

\* hal_uv_packet.c: frame_count and the kicks implement a bounded pool that
\* wakes everybody up whenever a frame comes back, for any number of frames
\* and services.
THEOREM PoolImplemented == Spec => ImplementsPool
<1>1. Init => Pool!PoolInit
  <2> SUFFICES ASSUME Init PROVE Pool!PoolInit
    OBVIOUS
  <2>1. \A i \in Ids : ~Idle(svc[i])
    BY DEF Init, Idle, MayRead, Unused
  <2>2. Waiting = {}
    BY <2>1, WaitingMeans DEF Init
  <2> QED BY <2>2 DEF Init, Pool!PoolInit
<1>2. RInv /\ RInv' /\ [Next]_vars => [Pool!PoolNext]_(Pool!poolVars)
  <2> SUFFICES ASSUME RInv, RInv', [Next]_vars PROVE Simulates
    BY DEF Simulates
  <2>1. CASE Next
    BY <2>1, TransportSimulates, ProtocolSimulates, StreamsSimulate DEF Next
  <2>2. CASE UNCHANGED vars
    BY <2>2, Same, CalmSimulates DEF vars
  <2> QED BY <2>1, <2>2
<1>3. Init => RInv
  BY RInvInit
<1>4. RInv /\ [Next]_vars => RInv'
  BY RInvNext
<1> QED BY <1>1, <1>2, <1>3, <1>4, PTL DEF Spec, ImplementsPool, Pool!PoolSpec
=============================================================================
