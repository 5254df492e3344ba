-------------------------- MODULE AdbClientProofs ---------------------------
(***************************************************************************)
(* Proofs about AdbClient, for every number of frames, services and peers  *)
(* and every set of misfortunes.                                           *)
(*                                                                         *)
(* Three invariants are proved together, because none is inductive alone:  *)
(* the counter stays in its range only if every frame that is released is  *)
(* in use, which is what SingleOwner says, and SingleOwner needs the types *)
(* of the queue and of the services.  Then, from these, who reads when.    *)
(***************************************************************************)
EXTENDS AdbClient, FiniteSetTheorems, SequenceTheorems, TLAPS

Owned(c, q, t, L) == Uses(c, q, t) \subseteq L /\ Apart(c, q, t)

IInv == TypeOK /\ IsFiniteSet(live) /\ FrameAccounting /\ SingleOwner

-----------------------------------------------------------------------------
(* Ownership, one change at a time *)

\* A frame nobody has joins the write queue.
LEMMA OwnedAppend ==
  ASSUME NEW c, NEW t, NEW L, NEW q \in Seq(WireFrame), NEW h \in WireFrame,
         Owned(c, q, t, L), h.f \in L, h.f \notin Uses(c, q, t)
  PROVE  Owned(c, Append(q, h), t, L)
<1> DEFINE r == Append(q, h)
<1>1. /\ DOMAIN q = 1..Len(q) /\ Len(q) \in Nat
      /\ DOMAIN r = 1..(Len(q) + 1)
      /\ \A k \in 1..Len(q) : r[k] = q[k]
      /\ r[Len(q) + 1] = h
  BY AppendProperties, LenProperties
<1> HIDE DEF r
<1>2. FramesOf(r) = FramesOf(q) \cup {h.f}
  BY <1>1 DEF FramesOf
<1>3. \A j, k \in DOMAIN r : r[j].f = r[k].f => j = k
  <2> SUFFICES ASSUME NEW j \in DOMAIN r, NEW k \in DOMAIN r, r[j].f = r[k].f
               PROVE  j = k
    OBVIOUS
  <2>1. CASE j \in DOMAIN q /\ k \in DOMAIN q
    BY <1>1, <2>1 DEF Owned, Apart
  <2>2. CASE j = Len(q) + 1 \/ k = Len(q) + 1
    BY <1>1, <2>2 DEF Uses, FramesOf
  <2> QED BY <1>1, <2>1, <2>2
<1>4. Uses(c, r, t) \subseteq L
  BY <1>2 DEF Owned, Uses
<1>5. Apart(c, r, t)
  BY <1>2, <1>3 DEF Owned, Apart, Uses
<1> QED BY <1>4, <1>5 DEF Owned, r

\* The head of the write queue leaves it and is nobody's then.
LEMMA OwnedTail ==
  ASSUME NEW c, NEW t, NEW L, NEW q \in Seq(WireFrame), q # <<>>,
         Owned(c, q, t, L)
  PROVE  /\ Head(q) \in WireFrame /\ Tail(q) \in Seq(WireFrame)
         /\ Owned(c, Tail(q), t, L)
         /\ Head(q).f \in L /\ Head(q).f \notin Uses(c, Tail(q), t)
<1> DEFINE r == Tail(q)
<1>1. /\ DOMAIN q = 1..Len(q) /\ Len(q) \in Nat \ {0}
      /\ Head(q) = q[1] /\ Head(q) \in WireFrame /\ r \in Seq(WireFrame)
      /\ DOMAIN r = 1..(Len(q) - 1)
      /\ \A k \in 1..(Len(q) - 1) : r[k] = q[k + 1]
  BY HeadTailProperties, LenProperties, EmptySeq
<1> HIDE DEF r
<1>2. FramesOf(r) \subseteq FramesOf(q) /\ q[1].f \in FramesOf(q)
  BY <1>1 DEF FramesOf
<1>3. \A j, k \in DOMAIN r : r[j].f = r[k].f => j = k
  <2> SUFFICES ASSUME NEW j \in DOMAIN r, NEW k \in DOMAIN r, r[j].f = r[k].f
               PROVE  j = k
    OBVIOUS
  <2>1. j + 1 \in DOMAIN q /\ k + 1 \in DOMAIN q /\ q[j + 1].f = q[k + 1].f
    BY <1>1
  <2>2. j + 1 = k + 1
    BY <2>1 DEF Owned, Apart
  <2> QED BY <1>1, <2>2
<1>4. q[1].f \notin FramesOf(r)
  <2> SUFFICES ASSUME NEW k \in DOMAIN r, q[1].f = r[k].f PROVE FALSE
    BY DEF FramesOf
  <2>1. k + 1 \in DOMAIN q /\ 1 \in DOMAIN q /\ q[k + 1].f = q[1].f
    BY <1>1
  <2>2. k + 1 = 1
    BY <2>1 DEF Owned, Apart
  <2> QED BY <1>1, <2>2
<1>5. Owned(c, r, t, L)
  BY <1>2, <1>3 DEF Owned, Apart, Uses
<1>6. q[1].f \in L /\ q[1].f \notin Uses(c, r, t)
  BY <1>2, <1>4 DEF Owned, Apart, Uses
<1> QED BY <1>1, <1>5, <1>6 DEF r

\* Giving frames up disturbs nobody.
LEMMA OwnedShrink ==
  ASSUME NEW c, NEW d, NEW q, NEW t, NEW u, NEW L,
         Owned(c, q, t, L), d \subseteq c,
         \A i \in Ids : u[i].q \subseteq t[i].q
  PROVE  Owned(d, q, u, L) /\ Uses(d, q, u) \subseteq Uses(c, q, t)
<1>1. Uses(d, q, u) \subseteq Uses(c, q, t)
  BY DEF Uses
<1>2. Apart(d, q, u)
  BY DEF Owned, Apart
<1> QED BY <1>1, <1>2 DEF Owned

\* A frame nobody has can be freed, and a new one may appear.
LEMMA OwnedFree ==
  ASSUME NEW c, NEW q, NEW t, NEW L, NEW f,
         Owned(c, q, t, L), f \notin Uses(c, q, t)
  PROVE  Owned(c, q, t, L \ {f})
BY DEF Owned

LEMMA OwnedNew ==
  ASSUME NEW c, NEW q, NEW t, NEW L, NEW f,
         Owned(c, q, t, L), f \notin L
  PROVE  Owned(c, q, t, L \cup {f}) /\ f \notin Uses(c, q, t)
BY DEF Owned

\* The reader has at most one frame: it takes it, and gives it up.
LEMMA OwnedCur ==
  ASSUME NEW q, NEW t, NEW L, NEW f
  PROVE  /\ Owned({}, q, t, L) /\ f \in L /\ f \notin Uses({}, q, t)
              => Owned({f}, q, t, L)
         /\ Owned({f}, q, t, L)
              => Owned({}, q, t, L) /\ f \in L /\ f \notin Uses({}, q, t)
BY DEF Owned, Uses, Apart

\* A service takes a frame nobody has.
LEMMA OwnedTake ==
  ASSUME NEW c, NEW q, NEW t \in [Ids -> Service], NEW L, NEW i \in Ids, NEW f,
         Owned(c, q, t, L), f \in L, f \notin Uses(c, q, t)
  PROVE  Owned(c, q, [t EXCEPT ![i].q = @ \cup {f}], L)
<1> DEFINE u == [t EXCEPT ![i].q = @ \cup {f}]
<1>1. \A j \in Ids : u[j].q = IF j = i THEN t[j].q \cup {f} ELSE t[j].q
  BY DEF Service
<1> HIDE DEF u
<1>2. ASSUME NEW j \in Ids
      PROVE  /\ u[j].q \subseteq L
             /\ u[j].q \cap (c \cup FramesOf(q)) = {}
  <2>1. t[j].q \subseteq L /\ t[j].q \cap (c \cup FramesOf(q)) = {}
    BY DEF Owned, Uses, Apart
  <2>2. f \notin c \cup FramesOf(q)
    BY DEF Uses
  <2> QED BY <1>1, <2>1, <2>2
<1>3. ASSUME NEW j \in Ids, NEW k \in Ids, j # k
      PROVE  u[j].q \cap u[k].q = {}
  <2>1. /\ t[j].q \cap t[k].q = {} /\ f \notin t[j].q /\ f \notin t[k].q
    BY <1>3 DEF Owned, Uses, Apart
  <2> QED BY <1>1, <1>3, <2>1
<1>4. Uses(c, q, u) \subseteq L
  BY <1>2 DEF Owned, Uses
<1>5. Apart(c, q, u)
  BY <1>2, <1>3 DEF Owned, Apart
<1> QED BY <1>4, <1>5 DEF Owned, u

\* libuv gives a frame of a service back.
LEMMA OwnedWritten ==
  ASSUME NEW c, NEW q, NEW t \in [Ids -> Service], NEW L, NEW i \in Ids,
         NEW f \in t[i].q, Owned(c, q, t, L)
  PROVE  LET u == [t EXCEPT ![i].q = @ \ {f}]
         IN  Owned(c, q, u, L) /\ f \in L /\ f \notin Uses(c, q, u)
<1> DEFINE u == [t EXCEPT ![i].q = @ \ {f}]
<1>1. \A j \in Ids : u[j].q = IF j = i THEN t[j].q \ {f} ELSE t[j].q
  BY DEF Service
<1> HIDE DEF u
<1>2. Owned(c, q, u, L)
  BY <1>1, OwnedShrink
<1>3. f \in L /\ f \notin c /\ f \notin FramesOf(q)
  BY DEF Owned, Uses, Apart
<1>4. ASSUME NEW j \in Ids PROVE f \notin u[j].q
  <2>1. j # i => t[i].q \cap t[j].q = {}
    BY DEF Owned, Apart
  <2> QED BY <1>1, <2>1
<1>5. f \notin Uses(c, q, u)
  BY <1>3, <1>4 DEF Uses
<1> QED BY <1>2, <1>3, <1>5 DEF u

-----------------------------------------------------------------------------
(* The operations on services keep their type and take no frame *)

LEMMA IdsAreNat == Ids \subseteq Nat \ {0}
BY ServiceTableAssumption DEF Ids

LEMMA HeaderType ==
  ASSUME NEW f \in Frames, NEW cmd \in Commands, NEW local \in Nat,
         NEW remote \in Nat, NEW more \in BOOLEAN
  PROVE  /\ Header(f, cmd, local, remote, more) \in WireFrame
         /\ Header(f, cmd, local, remote, more).f = f
BY DEF Header, WireFrame

Gives(t, u) == u \in [Ids -> Service] /\ \A i \in Ids : u[i].q \subseteq t[i].q

LEMMA FreedType ==
  ASSUME NEW r \in Service
  PROVE  Freed(r) \in Service /\ Freed(r).q = {}
BY DEF Freed, Unused, Service

LEMMA OnCloseType ==
  ASSUME NEW r \in Service
  PROVE  OnClose(r) \in Service /\ OnClose(r).q \subseteq r.q
<1>1. [r EXCEPT !.st = "closing", !.rd = FALSE] \in Service
  BY DEF Service
<1>2. [r EXCEPT !.st = "closing", !.rd = FALSE].q = r.q
  BY DEF Service
<1> QED BY <1>1, <1>2, FreedType DEF OnClose

LEMMA GrantedType ==
  ASSUME NEW r \in Service
  PROVE  Granted(r) \in Service /\ Granted(r).q \subseteq r.q
<1>1. [r EXCEPT !.st = "open", !.rd = TRUE] \in Service
  BY DEF Service
<1>2. [r EXCEPT !.st = "open", !.rd = TRUE].q = r.q
  BY DEF Service
<1> QED BY <1>1, <1>2, FreedType DEF Granted

LEMMA GivesClose ==
  ASSUME NEW t \in [Ids -> Service], NEW i \in Ids
  PROVE  Gives(t, CloseService(t, i))
BY OnCloseType DEF CloseService, Gives

LEMMA GivesCloseAll ==
  ASSUME NEW t \in [Ids -> Service]
  PROVE  Gives(t, CloseAll(t))
BY OnCloseType DEF CloseAll, Gives

LEMMA GivesResume ==
  ASSUME NEW t \in [Ids -> Service]
  PROVE  Gives(t, Resume(t))
<1>1. ASSUME NEW r \in Service
      PROVE  [r EXCEPT !.rd = TRUE] \in Service /\ [r EXCEPT !.rd = TRUE].q = r.q
  BY DEF Service
<1> QED BY <1>1 DEF Resume, Gives

LEMMA GivesGrant ==
  ASSUME NEW t \in [Ids -> Service], NEW i \in Ids
  PROVE  Gives(t, [Resume(t) EXCEPT ![i] = Granted(@)])
<1> DEFINE u == Resume(t)
<1>1. Gives(t, u)
  BY GivesResume
<1> HIDE DEF u
<1>2. u[i] \in Service
  BY <1>1 DEF Gives
<1>3. Granted(u[i]) \in Service /\ Granted(u[i]).q \subseteq u[i].q
  BY <1>2, GrantedType
<1>4. Gives(t, [u EXCEPT ![i] = Granted(@)])
  BY <1>1, <1>3 DEF Gives
<1> QED BY <1>4 DEF u

LEMMA PeerIsNat ==
  ASSUME NEW t \in [Ids -> Service], NEW i \in Ids
  PROVE  t[i].peer \in Nat /\ i \in Nat /\ IdOf(t, i) \in Nat
<1>1. t[i].peer \in Peers \cup {0}
  <2>1. t[i] \in Service
    OBVIOUS
  <2> QED BY <2>1 DEF Service
<1>2. i \in Nat /\ IdOf(t, i) \in Nat
  BY IdsAreNat DEF IdOf
<1>3. Peers \cup {0} \subseteq Nat
  BY ServiceTableAssumption
<1>4. t[i].peer \in Nat
  BY <1>1, <1>3
<1> QED BY <1>2, <1>4

LEMMA GrantHeaderType ==
  ASSUME NEW t \in [Ids -> Service], NEW i \in Ids, NEW f \in Frames
  PROVE  GrantHeader(t, i, f) \in WireFrame /\ GrantHeader(t, i, f).f = f
<1>1. t[i].peer \in Nat /\ i \in Nat
  BY PeerIsNat
<1> QED BY <1>1, HeaderType DEF GrantHeader, Commands

-----------------------------------------------------------------------------
(* The pool and the write queue, one operation at a time *)

PoolOK == /\ frame_count \in 0..(FrameMax + 1)
          /\ live \subseteq Frames
          /\ IsFiniteSet(live)
          /\ FrameAccounting

LEMMA AllocateStep ==
  ASSUME PoolOK, NEW f \in Frames, Allocate(f)
  PROVE  PoolOK' /\ live' = live \cup {f} /\ f \notin live
<1>1. /\ IsFiniteSet(live \cup {f})
      /\ Cardinality(live \cup {f}) = Cardinality(live) + 1
  BY FS_AddElement DEF PoolOK, Allocate
<1>2. frame_count' = frame_count + 1 /\ frame_count + 1 <= FrameMax
  BY PoolAssumption DEF PoolOK, Allocate
<1>3. live' = live \cup {f} /\ f \notin live
  BY DEF Allocate
<1>4. Cardinality(live) = frame_count
  BY <1>2, PoolAssumption DEF PoolOK, FrameAccounting
<1>5. FrameAccounting'
  BY <1>1, <1>2, <1>3, <1>4, PoolAssumption DEF PoolOK, FrameAccounting
<1> QED BY <1>1, <1>2, <1>3, <1>5, PoolAssumption DEF PoolOK

LEMMA RefuseStep ==
  ASSUME PoolOK, Refuse
  PROVE  PoolOK' /\ live' = live
BY PoolAssumption DEF PoolOK, Refuse, FrameAccounting

LEMMA SendStep ==
  ASSUME conn \in {"up", "closing", "gone"}, fault \in Faults,
         NEW h \in WireFrame, NEW q \in Seq(WireFrame), NEW c, NEW t, NEW L,
         Owned(c, q, t, L), h.f \in L, h.f \notin Uses(c, q, t),
         SendFrame(h, q)
  PROVE  /\ conn' \in {"up", "closing", "gone"}
         /\ fault' \in Faults
         /\ wq' \in Seq(WireFrame)
         /\ Owned(c, wq', t, L)
<1>1. Append(q, h) \in Seq(WireFrame) /\ Owned(c, Append(q, h), t, L)
  BY OwnedAppend, AppendProperties
<1>2. CASE conn = "up" /\ wq' = Append(q, h) /\ UNCHANGED <<conn, fault>>
  BY <1>1, <1>2
<1>3. CASE conn = "closing" /\ wq' = q /\ CloseClient
  BY <1>3 DEF CloseClient, Faults
<1> QED BY <1>2, <1>3 DEF SendFrame

LEMMA ReleaseStep ==
  ASSUME PoolOK, reading \in BOOLEAN, fault \in Faults,
         NEW t \in [Ids -> Service], NEW q \in Seq(WireFrame), NEW c,
         NEW f \in live, Owned(c, q, t, live), f \notin Uses(c, q, t),
         Release(f, t, q)
  PROVE  /\ PoolOK'
         /\ reading' \in BOOLEAN /\ fault' \in Faults
         /\ wq' \in Seq(WireFrame) /\ svc' \in [Ids -> Service]
         /\ Owned(c, wq', svc', live')
<1>1. /\ IsFiniteSet(live \ {f})
      /\ Cardinality(live \ {f}) = Cardinality(live) - 1
      /\ Cardinality(live) \in Nat /\ Cardinality(live) # 0
  BY FS_RemoveElement, FS_CardinalityType, FS_EmptySet DEF PoolOK
<1>2. Owned(c, q, t, live \ {f})
  BY OwnedFree
<1>3. CASE ReleaseQuietly(f, t, q)
  <2>1. PoolOK'
    BY <1>1, <1>3, PoolAssumption DEF ReleaseQuietly, PoolOK, FrameAccounting
  <2> QED BY <1>2, <1>3, <2>1 DEF ReleaseQuietly
<1>4. CASE ReleaseAndResume(f, t, q)
  <2>1. PoolOK'
    BY <1>1, <1>4, PoolAssumption DEF ReleaseAndResume, PoolOK, FrameAccounting
  <2>2. Gives(t, svc') /\ live' = live \ {f} /\ wq' = q
    BY <1>4, GivesResume DEF ReleaseAndResume
  <2>3. Owned(c, wq', svc', live')
    BY <1>2, <2>2, OwnedShrink DEF Gives
  <2> QED BY <1>4, <2>1, <2>2, <2>3 DEF ReleaseAndResume, Gives
<1>5. CASE ReleaseAndGrant(f, t, q)
  <2>1. PICK i \in Newest(NeedFrame(t)) :
          /\ frame_count' = IF NeedFrame(t) = {i} THEN FrameMax
                                                  ELSE FrameMax + 1
          /\ svc' = [Resume(t) EXCEPT ![i] = Granted(@)]
          /\ \/ /\ conn = "up"
                /\ wq' = Append(q, GrantHeader(t, i, f))
                /\ fault' \in IF t[i].st = "error"
                               THEN {"none", "freed_service"} ELSE {"none"}
             \/ /\ conn = "closing"
                /\ wq' = q
                /\ fault' = "double_close"
    BY <1>5 DEF ReleaseAndGrant
  <2>2. i \in Ids
    BY DEF Newest, NeedFrame
  <2>3. PoolOK'
    BY <1>1, <1>5, <2>1, PoolAssumption
       DEF ReleaseAndGrant, PoolOK, FrameAccounting
  <2>4. Gives(t, svc')
    BY <2>1, <2>2, GivesGrant
  <2>5. /\ GrantHeader(t, i, f) \in WireFrame /\ GrantHeader(t, i, f).f = f
    BY <2>2, GrantHeaderType DEF PoolOK
  <2>6. wq' \in Seq(WireFrame) /\ Owned(c, wq', t, live)
    <3> DEFINE h == GrantHeader(t, i, f)
    <3>1. Append(q, h) \in Seq(WireFrame) /\ Owned(c, Append(q, h), t, live)
      BY <2>5, OwnedAppend, AppendProperties
    <3> QED BY <2>1, <3>1
  <2>7. Owned(c, wq', svc', live')
    BY <1>5, <2>4, <2>6, OwnedShrink DEF Gives, ReleaseAndGrant
  <2> QED BY <1>5, <2>1, <2>3, <2>4, <2>6, <2>7
          DEF ReleaseAndGrant, Gives, Faults
<1>6. CASE ReleaseAborts(f, t, q)
  <2>1. PoolOK'
    BY <1>1, <1>6, PoolAssumption
       DEF ReleaseAborts, KickAborts, PoolOK, FrameAccounting
  <2> QED BY <1>2, <1>6, <2>1 DEF ReleaseAborts, Faults
<1> QED BY <1>3, <1>4, <1>5, <1>6 DEF Release

-----------------------------------------------------------------------------
(* Every action preserves the invariant *)

Conns == {"up", "closing", "gone"}

LEMMA Unfold ==
  ASSUME IInv
  PROVE  /\ PoolOK /\ Owned(cur, wq, svc, live)
         /\ conn \in Conns /\ is_connected \in BOOLEAN /\ reading \in BOOLEAN
         /\ cur \subseteq Frames /\ wq \in Seq(WireFrame)
         /\ next_service_id \in 1..(MaxOpens + 1)
         /\ svc \in [Ids -> Service] /\ fault \in Faults
BY DEF IInv, TypeOK, PoolOK, SingleOwner, Owned, Conns

LEMMA Fold ==
  ASSUME PoolOK', Owned(cur', wq', svc', live'),
         conn' \in Conns, is_connected' \in BOOLEAN, reading' \in BOOLEAN,
         cur' \subseteq Frames, wq' \in Seq(WireFrame),
         next_service_id' \in 1..(MaxOpens + 1),
         svc' \in [Ids -> Service], fault' \in Faults
  PROVE  IInv'
BY DEF IInv, TypeOK, PoolOK, SingleOwner, Owned, Conns

LEMMA PoolUnchanged ==
  ASSUME PoolOK, UNCHANGED <<frame_count, live>>
  PROVE  PoolOK'
BY DEF PoolOK, FrameAccounting

LEMMA CloseClientStep ==
  ASSUME conn \in Conns, fault \in Faults, CloseClient
  PROVE  conn' \in Conns /\ fault' \in Faults
BY DEF CloseClient, Conns, Faults

\* What the protocol handlers start from: the frame is nobody's.
LEMMA ReceivedStep ==
  ASSUME IInv, NEW f, Received(f)
  PROVE  /\ f \in live /\ f \in Frames /\ cur' = {}
         /\ Owned({}, wq, svc, live) /\ f \notin Uses({}, wq, svc)
BY Unfold, OwnedCur DEF Received, PoolOK

\* ... and how they end: the frame is sent, or released.
LEMMA AnswerStep ==
  ASSUME IInv, NEW f, Received(f), NEW h \in WireFrame, h.f = f,
         Answer(h), Gives(svc, svc'),
         is_connected' \in BOOLEAN, next_service_id' \in 1..(MaxOpens + 1)
  PROVE  IInv'
<1>1. /\ f \in live /\ cur' = {} /\ Owned({}, wq, svc, live)
      /\ f \notin Uses({}, wq, svc)
  BY ReceivedStep
<1>2. /\ conn' \in Conns /\ fault' \in Faults /\ wq' \in Seq(WireFrame)
      /\ Owned({}, wq', svc, live)
  BY <1>1, Unfold, SendStep DEF Answer, Conns
<1>3. Owned(cur', wq', svc', live')
  BY <1>1, <1>2, OwnedShrink DEF Gives, Answer
<1>4. PoolOK' /\ reading' \in BOOLEAN
  BY Unfold, PoolUnchanged DEF Answer
<1> QED BY <1>1, <1>2, <1>3, <1>4, Fold DEF Gives

LEMMA DropStep ==
  ASSUME IInv, NEW f, Received(f), NEW t, Gives(svc, t),
         Release(f, t, wq), conn' \in Conns,
         is_connected' \in BOOLEAN, next_service_id' \in 1..(MaxOpens + 1)
  PROVE  IInv'
<1>1. /\ f \in live /\ cur' = {} /\ Owned({}, wq, svc, live)
      /\ f \notin Uses({}, wq, svc)
  BY ReceivedStep
<1>2. Owned({}, wq, t, live) /\ f \notin Uses({}, wq, t)
  BY <1>1, OwnedShrink DEF Gives
<1>3. /\ PoolOK' /\ reading' \in BOOLEAN /\ fault' \in Faults
      /\ wq' \in Seq(WireFrame) /\ svc' \in [Ids -> Service]
      /\ Owned({}, wq', svc', live')
  BY <1>1, <1>2, Unfold, ReleaseStep DEF Gives
<1> QED BY <1>1, <1>3, Fold

-----------------------------------------------------------------------------
(* The transport *)

LEMMA HostReadBeginStep == IInv /\ HostReadBegin => IInv'
<1> SUFFICES ASSUME IInv, HostReadBegin PROVE IInv'
  OBVIOUS
<1>1. PICK f \in Frames : Allocate(f) /\ cur' = {f}
  BY DEF HostReadBegin
<1>2. PoolOK' /\ live' = live \cup {f} /\ f \notin live
  BY <1>1, Unfold, AllocateStep
<1>3. Owned({}, wq, svc, live') /\ f \notin Uses({}, wq, svc)
  BY <1>2, Unfold, OwnedNew DEF HostReadBegin
<1>4. Owned(cur', wq', svc', live')
  BY <1>1, <1>2, <1>3, OwnedCur DEF HostReadBegin
<1> QED BY <1>1, <1>2, <1>4, Unfold, Fold DEF HostReadBegin

LEMMA HostReadParkStep == IInv /\ HostReadPark => IInv'
<1> SUFFICES ASSUME IInv, HostReadPark PROVE IInv'
  OBVIOUS
<1>1. PoolOK' /\ live' = live
  BY Unfold, RefuseStep DEF HostReadPark
<1> QED BY <1>1, Unfold, Fold DEF HostReadPark

LEMMA HostOutOfMemoryStep == IInv /\ HostOutOfMemory => IInv'
BY Unfold, Fold, PoolUnchanged, CloseClientStep DEF HostOutOfMemory

LEMMA HostHangupStep == IInv /\ HostHangup => IInv'
<1> SUFFICES ASSUME IInv, HostHangup PROVE IInv'
  OBVIOUS
<1>1. conn' \in Conns /\ fault' \in Faults
  BY Unfold, CloseClientStep DEF HostHangup
<1>2. CASE UNCHANGED <<cur, frame_count, live>>
  BY <1>1, <1>2, Unfold, Fold, PoolUnchanged DEF HostHangup
<1>3. CASE cur = {} /\ \E f \in Frames : Allocate(f) /\ cur' = {f}
  <2>1. PICK f \in Frames : Allocate(f) /\ cur' = {f}
    BY <1>3
  <2>2. PoolOK' /\ live' = live \cup {f} /\ f \notin live
    BY <2>1, Unfold, AllocateStep
  <2>3. Owned({}, wq, svc, live') /\ f \notin Uses({}, wq, svc)
    BY <1>3, <2>2, Unfold, OwnedNew
  <2>4. Owned(cur', wq', svc', live')
    BY <2>1, <2>2, <2>3, OwnedCur DEF HostHangup
  <2> QED BY <1>1, <2>1, <2>2, <2>4, Unfold, Fold DEF HostHangup
<1> QED BY <1>2, <1>3 DEF HostHangup

LEMMA HostBadFrameStep == IInv /\ HostBadFrame => IInv'
BY Unfold, Fold, PoolUnchanged, CloseClientStep DEF HostBadFrame

LEMMA HostWriteDoneStep == IInv /\ HostWriteDone => IInv'
<1> SUFFICES ASSUME IInv, HostWriteDone PROVE IInv'
  OBVIOUS
<1> DEFINE h == Head(wq)
<1>1. /\ h \in WireFrame /\ Tail(wq) \in Seq(WireFrame)
      /\ Owned(cur, Tail(wq), svc, live)
      /\ h.f \in live /\ h.f \notin Uses(cur, Tail(wq), svc)
  BY Unfold, OwnedTail DEF HostWriteDone
<1>2. CASE /\ SendFrame([h EXCEPT !.cmd = "WRTE", !.more = FALSE], Tail(wq))
           /\ UNCHANGED <<reading, frame_count, live, svc>>
  <2> DEFINE g == [h EXCEPT !.cmd = "WRTE", !.more = FALSE]
  <2>1. g \in WireFrame /\ g.f = h.f
    BY <1>1 DEF WireFrame, Commands
  <2>2. /\ conn' \in Conns /\ fault' \in Faults /\ wq' \in Seq(WireFrame)
        /\ Owned(cur, wq', svc, live)
    BY <1>1, <1>2, <2>1, Unfold, SendStep DEF Conns
  <2> QED BY <1>2, <2>2, Unfold, Fold, PoolUnchanged DEF HostWriteDone
<1>3. CASE Release(h.f, svc, Tail(wq)) /\ UNCHANGED conn
  <2>1. /\ PoolOK' /\ reading' \in BOOLEAN /\ fault' \in Faults
        /\ wq' \in Seq(WireFrame) /\ svc' \in [Ids -> Service]
        /\ Owned(cur, wq', svc', live')
    BY <1>1, <1>3, Unfold, ReleaseStep
  <2> QED BY <1>3, <2>1, Unfold, Fold DEF HostWriteDone
<1> QED BY <1>2, <1>3 DEF HostWriteDone

LEMMA HostWriteFailedStep == IInv /\ HostWriteFailed => IInv'
<1> SUFFICES ASSUME IInv, HostWriteFailed PROVE IInv'
  OBVIOUS
<1> DEFINE h == Head(wq)
<1>1. /\ h \in WireFrame /\ Tail(wq) \in Seq(WireFrame)
      /\ Owned(cur, Tail(wq), svc, live)
      /\ h.f \in live /\ h.f \notin Uses(cur, Tail(wq), svc)
  BY Unfold, OwnedTail DEF HostWriteFailed
<1>2. CASE Release(h.f, svc, Tail(wq)) /\ conn' = "closing"
  <2>1. /\ PoolOK' /\ reading' \in BOOLEAN /\ fault' \in Faults
        /\ wq' \in Seq(WireFrame) /\ svc' \in [Ids -> Service]
        /\ Owned(cur, wq', svc', live')
    BY <1>1, <1>2, Unfold, ReleaseStep
  <2> QED BY <1>2, <2>1, Unfold, Fold DEF HostWriteFailed, Conns
<1>3. CASE CloseClient /\ UNCHANGED <<reading, frame_count, live, wq, svc>>
  BY <1>3, Unfold, Fold, PoolUnchanged, CloseClientStep DEF HostWriteFailed
<1>4. CASE ReleaseAborts(h.f, svc, Tail(wq)) /\ UNCHANGED conn
  <2>1. /\ PoolOK' /\ reading' \in BOOLEAN /\ fault' \in Faults
        /\ wq' \in Seq(WireFrame) /\ svc' \in [Ids -> Service]
        /\ Owned(cur, wq', svc', live')
    BY <1>1, <1>4, Unfold, ReleaseStep DEF Release
  <2> QED BY <1>4, <2>1, Unfold, Fold DEF HostWriteFailed
<1> QED BY <1>2, <1>3, <1>4 DEF HostWriteFailed

LEMMA HostClosedStep == IInv /\ HostClosed => IInv'
<1> SUFFICES ASSUME IInv, HostClosed PROVE IInv'
  OBVIOUS
<1> DEFINE t == CloseAll(svc)
<1>1. Gives(svc, t)
  BY Unfold, GivesCloseAll
<1>2. CASE /\ fault' = "double_close"
           /\ UNCHANGED <<conn, reading, cur, frame_count, live, wq, svc>>
  BY <1>2, Unfold, Fold, PoolUnchanged DEF HostClosed, Faults
<1>3. CASE /\ conn' = "gone" /\ cur' = {}
           /\ \E f \in cur : Release(f, t, <<>>)
  <2>1. PICK f \in cur : Release(f, t, <<>>)
    BY <1>3
  <2>2. f \in live
    BY Unfold DEF Owned, Uses
  <2>3. Owned(cur, wq, t, live)
    BY <1>1, Unfold, OwnedShrink DEF Gives
  <2>4. Owned({}, wq, t, live)
    BY <2>3, OwnedShrink
  <2>5. f \notin Uses({}, wq, t)
    BY <2>3 DEF Owned, Apart, Uses
  <2>6. wq = <<>>
    BY DEF HostClosed
  <2>7. /\ PoolOK' /\ reading' \in BOOLEAN /\ fault' \in Faults
        /\ wq' \in Seq(WireFrame) /\ svc' \in [Ids -> Service]
        /\ Owned({}, wq', svc', live')
    BY <1>1, <2>1, <2>2, <2>4, <2>5, <2>6, Unfold, ReleaseStep DEF Gives
  <2> QED BY <1>3, <2>7, Unfold, Fold DEF HostClosed, Conns
<1>4. CASE /\ conn' = "gone" /\ cur' = {} /\ cur = {} /\ svc' = t
           /\ UNCHANGED <<reading, frame_count, live, wq, fault>>
  <2>1. Owned(cur', wq', svc', live')
    BY <1>1, <1>4, Unfold, OwnedShrink DEF Gives
  <2> QED BY <1>1, <1>4, <2>1, Unfold, Fold, PoolUnchanged
          DEF HostClosed, Conns, Gives
<1> QED BY <1>2, <1>3, <1>4 DEF HostClosed

LEMMA UsbClosedStep == IInv /\ UsbClosed => IInv'
<1> SUFFICES ASSUME IInv, UsbClosed PROVE IInv'
  OBVIOUS
<1> QED BY Unfold, Fold, PoolUnchanged DEF UsbClosed, Faults

-----------------------------------------------------------------------------
(* The protocol handlers *)

LEMMA GivesSame ==
  ASSUME IInv
  PROVE  Gives(svc, svc)
BY Unfold DEF Gives

LEMMA SayStep ==
  ASSUME IInv, NEW f, Received(f), NEW cmd \in Commands, NEW local \in Nat,
         NEW remote \in Nat, NEW more \in BOOLEAN,
         Answer(Header(f, cmd, local, remote, more)), UNCHANGED svc,
         is_connected' \in BOOLEAN, next_service_id' \in 1..(MaxOpens + 1)
  PROVE  IInv'
<1>1. f \in Frames
  BY ReceivedStep
<1>2. /\ Header(f, cmd, local, remote, more) \in WireFrame
      /\ Header(f, cmd, local, remote, more).f = f
  BY <1>1, HeaderType
<1>3. Gives(svc, svc')
  BY GivesSame
<1> QED BY <1>2, <1>3, AnswerStep

LEMMA AuthRequestStep ==
  ASSUME IInv, NEW f, Received(f), AuthRequest(f),
         is_connected' \in BOOLEAN, UNCHANGED next_service_id
  PROVE  IInv'
<1>2. CASE Answer(Header(f, "AUTH", 0, 0, FALSE)) /\ UNCHANGED svc
  BY <1>2, Unfold, SayStep DEF Commands
<1>3. CASE Release(f, svc, wq) /\ conn' = "closing"
  BY <1>3, Unfold, GivesSame, DropStep DEF Conns
<1> QED BY <1>2, <1>3 DEF AuthRequest

LEMMA RecvCnxnStep == IInv /\ RecvCnxn => IInv'
<1> SUFFICES ASSUME IInv, RecvCnxn PROVE IInv'
  OBVIOUS
<1>1. PICK f \in cur :
        /\ Received(f)
        /\ \/ /\ Answer(Header(f, "CNXN", 0, 0, FALSE))
              /\ is_connected' = TRUE
              /\ UNCHANGED svc
           \/ AuthRequest(f) /\ UNCHANGED is_connected
        /\ UNCHANGED next_service_id
  BY DEF RecvCnxn
<1>3. CASE Answer(Header(f, "CNXN", 0, 0, FALSE)) /\ is_connected' = TRUE
           /\ UNCHANGED svc
  BY <1>1, <1>3, Unfold, SayStep DEF Commands
<1>4. CASE AuthRequest(f) /\ UNCHANGED is_connected
  BY <1>1, <1>4, Unfold, AuthRequestStep
<1> QED BY <1>1, <1>3, <1>4

LEMMA RecvAuthStep ==
  ASSUME NEW type
  PROVE  IInv /\ RecvAuth(type) => IInv'
<1> SUFFICES ASSUME IInv, RecvAuth(type) PROVE IInv'
  OBVIOUS
<1>1. PICK f \in cur :
        /\ Received(f)
        /\ \/ AuthRequest(f) /\ UNCHANGED is_connected
           \/ /\ Answer(Header(f, "CNXN", 0, 0, FALSE))
              /\ is_connected' = TRUE
              /\ UNCHANGED svc
           \/ Drop(f, svc) /\ UNCHANGED is_connected
        /\ UNCHANGED next_service_id
  BY DEF RecvAuth
<1>3. CASE AuthRequest(f) /\ UNCHANGED is_connected
  BY <1>1, <1>3, Unfold, AuthRequestStep
<1>4. CASE Answer(Header(f, "CNXN", 0, 0, FALSE)) /\ is_connected' = TRUE
           /\ UNCHANGED svc
  BY <1>1, <1>4, Unfold, SayStep DEF Commands
<1>5. CASE Drop(f, svc) /\ UNCHANGED is_connected
  BY <1>1, <1>5, Unfold, GivesSame, DropStep DEF Drop
<1> QED BY <1>1, <1>3, <1>4, <1>5

LEMMA GivesOpened ==
  ASSUME IInv, NEW i \in Ids, NEW kind \in Kinds, NEW peer \in Peers
  PROVE  Gives(svc, [svc EXCEPT ![i] = Opened(kind, peer)])
<1>1. Opened(kind, peer) \in Service /\ Opened(kind, peer).q = {}
  BY ServiceTableAssumption DEF Opened, Unused, Service
<1> QED BY <1>1, Unfold DEF Gives

LEMMA RecvOpenStep ==
  ASSUME NEW peer \in Peers, NEW kind \in Kinds
  PROVE  IInv /\ RecvOpen(peer, kind) => IInv'
<1> SUFFICES ASSUME IInv, RecvOpen(peer, kind) PROVE IInv'
  OBVIOUS
<1> DEFINE i == next_service_id
           t == [svc EXCEPT ![i] = Opened(kind, peer)]
<1>1. PICK f \in cur :
        /\ Received(f)
        /\ next_service_id' = i + 1
        /\ \/ Drop(f, t)
           \/ /\ Answer(Header(f, "OKAY", i, peer, FALSE))
              /\ svc' = t
  BY DEF RecvOpen
<1>2. i \in Ids /\ i \in Nat /\ i + 1 \in 1..(MaxOpens + 1)
  BY Unfold, ServiceTableAssumption DEF RecvOpen, Ids
<1>3. f \in Frames /\ is_connected' \in BOOLEAN
  BY <1>1, ReceivedStep, Unfold DEF RecvOpen
<1>4. Gives(svc, t)
  BY <1>2, GivesOpened
<1> HIDE DEF t
<1>5. CASE Drop(f, t)
  BY <1>1, <1>2, <1>3, <1>4, <1>5, Unfold, DropStep DEF Drop
<1>6. CASE Answer(Header(f, "OKAY", i, peer, FALSE)) /\ svc' = t
  <2>1. peer \in Nat
    BY ServiceTableAssumption
  <2>2. /\ Header(f, "OKAY", i, peer, FALSE) \in WireFrame
        /\ Header(f, "OKAY", i, peer, FALSE).f = f
    BY <1>2, <1>3, <2>1, HeaderType DEF Commands
  <2> QED BY <1>1, <1>2, <1>3, <1>4, <1>6, <2>2, AnswerStep
<1> QED BY <1>1, <1>5, <1>6

LEMMA RecvOpenRefusedStep ==
  ASSUME NEW peer \in Peers
  PROVE  IInv /\ RecvOpenRefused(peer) => IInv'
<1> SUFFICES ASSUME IInv, RecvOpenRefused(peer) PROVE IInv'
  OBVIOUS
<1>1. PICK f \in cur :
        /\ Received(f)
        /\ Answer(Header(f, "CLSE", 0, peer, FALSE))
        /\ UNCHANGED <<is_connected, next_service_id, svc>>
  BY DEF RecvOpenRefused
<1>2. peer \in Nat
  BY ServiceTableAssumption
<1> QED BY <1>1, <1>2, Unfold, SayStep DEF Commands

LEMMA RecvOpenMalformedStep == IInv /\ RecvOpenMalformed => IInv'
<1> SUFFICES ASSUME IInv, RecvOpenMalformed PROVE IInv'
  OBVIOUS
<1>1. PICK f \in cur : Received(f) /\ Drop(f, svc)
  BY DEF RecvOpenMalformed
<1> QED BY <1>1, Unfold, GivesSame, DropStep DEF RecvOpenMalformed, Drop

LEMMA RecvUnknownStep == IInv /\ RecvUnknown => IInv'
<1> SUFFICES ASSUME IInv, RecvUnknown PROVE IInv'
  OBVIOUS
<1>1. PICK f \in cur : Received(f) /\ Release(f, svc, wq)
  BY DEF RecvUnknown
<1> QED BY <1>1, Unfold, GivesSame, DropStep DEF RecvUnknown, Conns

LEMMA FoundIsId ==
  ASSUME NEW t, NEW id, NEW peer, NEW i \in Find(t, id, peer)
  PROVE  i \in Ids
BY DEF Find, Newest, Registered

LEMMA RecvClseStep ==
  ASSUME NEW peer, NEW id
  PROVE  IInv /\ RecvClse(peer, id) => IInv'
<1> SUFFICES ASSUME IInv, RecvClse(peer, id) PROVE IInv'
  OBVIOUS
<1>1. PICK f \in cur :
        /\ Received(f)
        /\ \/ \E i \in Find(svc, id, peer) : Drop(f, CloseService(svc, i))
           \/ Drop(f, svc)
  BY DEF RecvClse
<1>2. CASE \E i \in Find(svc, id, peer) : Drop(f, CloseService(svc, i))
  <2>1. PICK i \in Find(svc, id, peer) : Drop(f, CloseService(svc, i))
    BY <1>2
  <2>2. Gives(svc, CloseService(svc, i))
    BY Unfold, FoundIsId, GivesClose
  <2> QED BY <1>1, <2>1, <2>2, Unfold, DropStep DEF RecvClse, Drop
<1>3. CASE Drop(f, svc)
  BY <1>1, <1>3, Unfold, GivesSame, DropStep DEF RecvClse, Drop
<1> QED BY <1>1, <1>2, <1>3

LEMMA UnanswerableStep ==
  ASSUME IInv, NEW f, Received(f), NEW id \in Nat, NEW peer \in Nat,
         Unanswerable(f, id, peer), UNCHANGED <<is_connected, next_service_id>>
  PROVE  IInv'
BY Unfold, SayStep DEF Unanswerable, Commands

LEMMA FailsStep ==
  ASSUME IInv, NEW f, Received(f), NEW i \in Ids, Fails(i, f),
         UNCHANGED <<is_connected, next_service_id>>
  PROVE  IInv'
<1> DEFINE h == Header(f, "CLSE", IdOf(svc, i), svc[i].peer, FALSE)
<1>1. f \in Frames
  BY ReceivedStep
<1>2. h \in WireFrame /\ h.f = f
  BY <1>1, Unfold, PeerIsNat, HeaderType DEF Commands
<1>3. Gives(svc, svc')
  BY Unfold, GivesClose DEF Fails, CloseAndTell
<1>4. Answer(h)
  BY DEF Fails, CloseAndTell, Answer
<1> QED BY <1>2, <1>3, <1>4, Unfold, AnswerStep

LEMMA TellStep ==
  ASSUME IInv, NEW f, Received(f), NEW i \in Ids, NEW cmd \in Commands,
         NEW more \in BOOLEAN,
         Answer(Header(f, cmd, i, svc[i].peer, more)), UNCHANGED svc,
         UNCHANGED <<is_connected, next_service_id>>
  PROVE  IInv'
<1>1. i \in Nat /\ svc[i].peer \in Nat
  BY Unfold, PeerIsNat
<1> QED BY <1>1, Unfold, SayStep

LEMMA WriteToServiceStep ==
  ASSUME IInv, NEW f, Received(f), NEW i \in Ids, WriteToService(i, f),
         UNCHANGED <<is_connected, next_service_id>>
  PROVE  IInv'
<1>1. CASE Fails(i, f)
  BY <1>1, FailsStep
<1>2. CASE \E more \in BOOLEAN :
             /\ Answer(Header(f, "OKAY", i, svc[i].peer, more))
             /\ UNCHANGED svc
  BY <1>2, TellStep DEF Commands
<1>3. CASE /\ svc' = [svc EXCEPT ![i].q = @ \cup {f}]
           /\ UNCHANGED <<conn, reading, frame_count, live, wq, fault>>
  <2>1. /\ f \in live /\ f \in Frames /\ cur' = {}
        /\ Owned({}, wq, svc, live) /\ f \notin Uses({}, wq, svc)
    BY ReceivedStep
  <2>2. Owned(cur', wq', svc', live')
    BY <1>3, <2>1, Unfold, OwnedTake
  <2>3. svc' \in [Ids -> Service]
    <3>1. [svc[i] EXCEPT !.q = @ \cup {f}] \in Service
      BY <2>1, Unfold DEF Service
    <3> QED BY <1>3, <3>1, Unfold
  <2> QED BY <1>3, <2>1, <2>2, <2>3, Unfold, Fold, PoolUnchanged
<1> QED BY <1>1, <1>2, <1>3 DEF WriteToService

LEMMA RecvWrteStep ==
  ASSUME NEW peer \in Peers \cup {0}, NEW id \in Ids \cup {0}
  PROVE  IInv /\ RecvWrte(peer, id) => IInv'
<1> SUFFICES ASSUME IInv, RecvWrte(peer, id) PROVE IInv'
  OBVIOUS
<1>1. PICK f \in cur :
        /\ Received(f)
        /\ \/ \E i \in Find(svc, id, peer) : WriteToService(i, f)
           \/ Unanswerable(f, id, peer)
  BY DEF RecvWrte
<1>2. id \in Nat /\ peer \in Nat
  BY IdsAreNat, ServiceTableAssumption
<1>3. CASE \E i \in Find(svc, id, peer) : WriteToService(i, f)
  BY <1>1, <1>3, FoundIsId, WriteToServiceStep DEF RecvWrte
<1>4. CASE Unanswerable(f, id, peer)
  BY <1>1, <1>2, <1>4, UnanswerableStep DEF RecvWrte
<1> QED BY <1>1, <1>3, <1>4

LEMMA GivesAcked ==
  ASSUME IInv, NEW i \in Ids
  PROVE  Gives(svc, [svc EXCEPT ![i] = Acked(@)])
<1>1. svc[i] \in Service
  BY Unfold
<1>2. /\ [svc[i] EXCEPT !.ack = FALSE, !.rd = TRUE] \in Service
      /\ [svc[i] EXCEPT !.ack = FALSE, !.rd = TRUE].q = svc[i].q
  BY <1>1 DEF Service
<1>3. Acked(svc[i]) \in Service /\ Acked(svc[i]).q = svc[i].q
  BY <1>1, <1>2 DEF Acked
<1> QED BY <1>3, Unfold DEF Gives

LEMMA AckToServiceStep ==
  ASSUME IInv, NEW f, Received(f), NEW i \in Ids, AckToService(i, f),
         UNCHANGED <<is_connected, next_service_id>>
  PROVE  IInv'
<1>1. CASE Fails(i, f)
  BY <1>1, FailsStep
<1>2. CASE Answer(Header(f, "WRTE", i, svc[i].peer, FALSE)) /\ UNCHANGED svc
  BY <1>2, TellStep DEF Commands
<1>3. CASE Drop(f, svc)
  BY <1>3, Unfold, GivesSame, DropStep DEF Drop
<1>4. CASE Drop(f, [svc EXCEPT ![i] = Acked(@)])
  BY <1>4, Unfold, GivesAcked, DropStep DEF Drop
<1> QED BY <1>1, <1>2, <1>3, <1>4 DEF AckToService

LEMMA RecvOkayStep ==
  ASSUME NEW peer \in Peers \cup {0}, NEW id \in Ids \cup {0}
  PROVE  IInv /\ RecvOkay(peer, id) => IInv'
<1> SUFFICES ASSUME IInv, RecvOkay(peer, id) PROVE IInv'
  OBVIOUS
<1>1. PICK f \in cur :
        /\ Received(f)
        /\ \/ \E i \in Find(svc, id, 0) : AckToService(i, f)
           \/ Unanswerable(f, id, peer)
  BY DEF RecvOkay
<1>2. id \in Nat /\ peer \in Nat
  BY IdsAreNat, ServiceTableAssumption
<1>3. CASE \E i \in Find(svc, id, 0) : AckToService(i, f)
  BY <1>1, <1>3, FoundIsId, AckToServiceStep DEF RecvOkay
<1>4. CASE Unanswerable(f, id, peer)
  BY <1>1, <1>2, <1>4, UnanswerableStep DEF RecvOkay
<1> QED BY <1>1, <1>3, <1>4
-----------------------------------------------------------------------------
(* The services *)

\* Nothing but the services, the counter and the end of the connection.
LEMMA ServicesStep ==
  ASSUME IInv, Gives(svc, svc'), PoolOK', live' = live,
         conn' \in Conns, fault' \in Faults, reading' \in BOOLEAN,
         UNCHANGED wq, Untouched
  PROVE  IInv'
<1>1. Owned(cur', wq', svc', live')
  BY Unfold, OwnedShrink DEF Gives, Untouched
<1> QED BY <1>1, Unfold, Fold DEF Gives, Untouched

\* A new frame is sent at once.
LEMMA AllocateAndSendStep ==
  ASSUME IInv, NEW f \in Frames, Allocate(f), NEW h \in WireFrame, h.f = f,
         SendFrame(h, wq), Gives(svc, svc'), UNCHANGED reading, Untouched
  PROVE  IInv'
<1>1. PoolOK' /\ live' = live \cup {f} /\ f \notin live
  BY Unfold, AllocateStep
<1>2. Owned(cur, wq, svc, live') /\ f \notin Uses(cur, wq, svc)
  BY <1>1, Unfold, OwnedNew
<1>3. /\ conn' \in Conns /\ fault' \in Faults /\ wq' \in Seq(WireFrame)
      /\ Owned(cur, wq', svc, live')
  BY <1>1, <1>2, Unfold, SendStep DEF Conns
<1>4. Owned(cur', wq', svc', live')
  BY <1>3, OwnedShrink DEF Gives, Untouched
<1> QED BY <1>1, <1>3, <1>4, Unfold, Fold DEF Gives, Untouched

LEMMA SvcReadFrameStep ==
  ASSUME NEW i \in Ids
  PROVE  IInv /\ SvcReadFrame(i) => IInv'
<1> SUFFICES ASSUME IInv, SvcReadFrame(i) PROVE IInv'
  OBVIOUS
<1>1. PICK f \in Frames :
        /\ Allocate(f)
        /\ SendFrame(Header(f, "WRTE", i, svc[i].peer, FALSE), wq)
  BY DEF SvcReadFrame
<1>2. i \in Nat /\ svc[i].peer \in Nat
  BY Unfold, PeerIsNat
<1>3. /\ Header(f, "WRTE", i, svc[i].peer, FALSE) \in WireFrame
      /\ Header(f, "WRTE", i, svc[i].peer, FALSE).f = f
  BY <1>2, HeaderType DEF Commands
<1>4. Gives(svc, svc')
  <2>1. svc[i] \in Service
    BY Unfold
  <2>2. /\ [svc[i] EXCEPT !.rd = FALSE, !.ack = TRUE] \in Service
        /\ [svc[i] EXCEPT !.rd = FALSE, !.ack = TRUE].q = svc[i].q
    BY <2>1 DEF Service
  <2>3. svc' = [svc EXCEPT ![i] = [svc[i] EXCEPT !.rd = FALSE, !.ack = TRUE]]
    BY Unfold DEF SvcReadFrame
  <2> QED BY <2>2, <2>3, Unfold DEF Gives
<1> QED BY <1>1, <1>3, <1>4, AllocateAndSendStep DEF SvcReadFrame

LEMMA GivesParked ==
  ASSUME IInv, NEW i \in Ids
  PROVE  Gives(svc, [svc EXCEPT ![i].rd = FALSE])
<1>1. svc[i] \in Service
  BY Unfold
<1>2. /\ [svc[i] EXCEPT !.rd = FALSE] \in Service
      /\ [svc[i] EXCEPT !.rd = FALSE].q = svc[i].q
  BY <1>1 DEF Service
<1> QED BY <1>2, Unfold DEF Gives

LEMMA SvcReadParkStep ==
  ASSUME NEW i \in Ids
  PROVE  IInv /\ SvcReadPark(i) => IInv'
<1> SUFFICES ASSUME IInv, SvcReadPark(i) PROVE IInv'
  OBVIOUS
<1>1. PoolOK' /\ live' = live
  BY Unfold, RefuseStep DEF SvcReadPark
<1>2. Gives(svc, svc')
  BY GivesParked DEF SvcReadPark
<1> QED BY <1>1, <1>2, Unfold, ServicesStep DEF SvcReadPark

LEMMA SvcReadEndStep ==
  ASSUME NEW i \in Ids
  PROVE  IInv /\ SvcReadEnd(i) => IInv'
<1> SUFFICES ASSUME IInv, SvcReadEnd(i) PROVE IInv'
  OBVIOUS
<1>1. PICK f \in Frames : Allocate(f) /\ CloseAndTell(i, f, svc, wq)
  BY DEF SvcReadEnd
<1> DEFINE h == Header(f, "CLSE", IdOf(svc, i), svc[i].peer, FALSE)
<1>2. h \in WireFrame /\ h.f = f
  BY Unfold, PeerIsNat, HeaderType DEF Commands
<1>3. Gives(svc, svc') /\ SendFrame(h, wq)
  BY <1>1, Unfold, GivesClose DEF CloseAndTell
<1> QED BY <1>1, <1>2, <1>3, AllocateAndSendStep DEF SvcReadEnd

LEMMA SvcOutOfMemoryStep ==
  ASSUME NEW i \in Ids
  PROVE  IInv /\ SvcOutOfMemory(i) => IInv'
<1> SUFFICES ASSUME IInv, SvcOutOfMemory(i) PROVE IInv'
  OBVIOUS
<1>1. conn' \in Conns /\ fault' \in Faults /\ PoolOK'
  BY Unfold, CloseClientStep, PoolUnchanged DEF SvcOutOfMemory
<1>2. Gives(svc, svc')
  BY GivesParked DEF SvcOutOfMemory
<1> QED BY <1>1, <1>2, Unfold, ServicesStep DEF SvcOutOfMemory

LEMMA ConnectDoneStep ==
  ASSUME NEW i \in Ids
  PROVE  IInv /\ ConnectDone(i) => IInv'
<1> SUFFICES ASSUME IInv, ConnectDone(i) PROVE IInv'
  OBVIOUS
<1>1. UNCHANGED reading /\ Untouched
  BY DEF ConnectDone
<1>2. ASSUME NEW result \in {"notify", "error"}, NEW t,
             t = [svc EXCEPT ![i].st = result, ![i].req = FALSE],
             \/ \E f \in Frames : ConnectTold(i, t, f)
             \/ ConnectParked(t)
             \/ ConnectOutOfMemory(t)
      PROVE  IInv'
  <2>1. Gives(svc, t) /\ t \in [Ids -> Service]
    <3>1. svc[i] \in Service
      BY Unfold
    <3>2. /\ [svc[i] EXCEPT !.st = result, !.req = FALSE] \in Service
          /\ [svc[i] EXCEPT !.st = result, !.req = FALSE].q = svc[i].q
      BY <3>1 DEF Service
    <3>3. t = [svc EXCEPT ![i] = [svc[i] EXCEPT !.st = result, !.req = FALSE]]
      BY <1>2, Unfold
    <3> QED BY <3>2, <3>3, Unfold DEF Gives
  <2>2. ASSUME NEW f \in Frames, ConnectTold(i, t, f) PROVE IInv'
    <3>1. PoolOK' /\ live' = live \cup {f} /\ f \notin live
      BY <2>2, Unfold, AllocateStep DEF ConnectTold
    <3>2. Owned(cur, wq, svc, live') /\ f \notin Uses(cur, wq, svc)
      BY <3>1, Unfold, OwnedNew
    <3>3. Gives(svc, svc')
      <4>1. Granted(t[i]) \in Service /\ Granted(t[i]).q \subseteq t[i].q
        BY <2>1, GrantedType
      <4> QED BY <2>1, <2>2, <4>1 DEF ConnectTold, Gives
    <3>4. GrantHeader(t, i, f) \in WireFrame /\ GrantHeader(t, i, f).f = f
      BY <2>1, GrantHeaderType
    <3>5. /\ Append(wq, GrantHeader(t, i, f)) \in Seq(WireFrame)
          /\ Owned(cur, Append(wq, GrantHeader(t, i, f)), svc, live')
      BY <3>1, <3>2, <3>4, Unfold, OwnedAppend, AppendProperties
    <3>6. /\ conn' \in Conns /\ fault' \in Faults
          /\ wq' \in Seq(WireFrame) /\ Owned(cur, wq', svc, live')
      <4>1. CASE /\ wq' = Append(wq, GrantHeader(t, i, f))
                 /\ fault' \in IF t[i].st = "error" THEN {"none", "freed_service"}
                                                    ELSE {"none"}
                 /\ UNCHANGED conn
        BY <3>5, <4>1, Unfold DEF Faults
      <4>2. CASE CloseClient /\ UNCHANGED wq
        BY <3>2, <4>2, Unfold, CloseClientStep
      <4> QED BY <2>2, <4>1, <4>2 DEF ConnectTold
    <3>7. Owned(cur', wq', svc', live')
      BY <1>1, <3>3, <3>6, OwnedShrink DEF Gives, Untouched
    <3> QED BY <1>1, <3>1, <3>3, <3>6, <3>7, Unfold, Fold DEF Gives, Untouched
  <2>3. CASE ConnectParked(t)
    BY <1>1, <2>1, <2>3, Unfold, RefuseStep, ServicesStep DEF ConnectParked
  <2>4. CASE ConnectOutOfMemory(t)
    BY <1>1, <2>1, <2>4, Unfold, CloseClientStep, PoolUnchanged, ServicesStep
       DEF ConnectOutOfMemory
  <2> QED BY <1>2, <2>2, <2>3, <2>4
<1>3. CASE /\ fault' = "freed_service"
           /\ UNCHANGED <<conn, frame_count, live, wq, svc>>
  BY <1>1, <1>3, Unfold, GivesSame, PoolUnchanged, ServicesStep DEF Faults
<1> QED BY <1>2, <1>3 DEF ConnectDone, ConnectResult

LEMMA WrittenStep ==
  ASSUME IInv, NEW i \in Ids, NEW f \in svc[i].q, svc' = Written(i, f)
  PROVE  /\ svc' \in [Ids -> Service] /\ f \in Frames /\ f \in live
         /\ Owned(cur, wq, svc', live) /\ f \notin Uses(cur, wq, svc')
<1>1. /\ Owned(cur, wq, Written(i, f), live) /\ f \in live
      /\ f \notin Uses(cur, wq, Written(i, f))
  BY Unfold, OwnedWritten DEF Written
<1>2. [svc[i] EXCEPT !.q = @ \ {f}] \in Service
  BY Unfold DEF Service
<1>3. Written(i, f) \in [Ids -> Service]
  BY <1>2, Unfold DEF Written
<1> QED BY <1>1, <1>3, Unfold DEF PoolOK

LEMMA SvcWriteDoneStep ==
  ASSUME NEW i \in Ids, NEW f \in Frames
  PROVE  IInv /\ SvcWriteDone(i, f) => IInv'
<1> SUFFICES ASSUME IInv, SvcWriteDone(i, f) PROVE IInv'
  OBVIOUS
<1> DEFINE h == Header(f, "OKAY", i, svc[i].peer, FALSE)
<1>1. /\ svc' \in [Ids -> Service] /\ f \in live
      /\ Owned(cur, wq, svc', live) /\ f \notin Uses(cur, wq, svc')
  BY WrittenStep DEF SvcWriteDone
<1>2. h \in WireFrame /\ h.f = f
  BY Unfold, PeerIsNat, HeaderType DEF Commands
<1>3. /\ conn' \in Conns /\ fault' \in Faults /\ wq' \in Seq(WireFrame)
      /\ Owned(cur, wq', svc', live)
  BY <1>1, <1>2, Unfold, SendStep DEF SvcWriteDone, Conns
<1> QED BY <1>1, <1>3, Unfold, Fold, PoolUnchanged DEF SvcWriteDone, Untouched

LEMMA SvcWriteFailedStep ==
  ASSUME NEW i \in Ids, NEW f \in Frames
  PROVE  IInv /\ SvcWriteFailed(i, f) => IInv'
<1> SUFFICES ASSUME IInv, SvcWriteFailed(i, f) PROVE IInv'
  OBVIOUS
<1> DEFINE t == Written(i, f)
           h == Header(f, "CLSE", IdOf(t, i), t[i].peer, FALSE)
<1>1. /\ t \in [Ids -> Service] /\ f \in live
      /\ Owned(cur, wq, t, live) /\ f \notin Uses(cur, wq, t)
  <2>1. f \in svc[i].q
    BY DEF SvcWriteFailed
  <2>2. /\ Owned(cur, wq, t, live) /\ f \in live /\ f \notin Uses(cur, wq, t)
    BY <2>1, Unfold, OwnedWritten DEF Written
  <2>3. [svc[i] EXCEPT !.q = @ \ {f}] \in Service
    BY Unfold DEF Service
  <2>4. t \in [Ids -> Service]
    BY <2>3, Unfold DEF Written
  <2> QED BY <2>2, <2>4
<1> HIDE DEF t
<1>2. CASE CloseAndTell(i, f, t, wq)
  <2>1. h \in WireFrame /\ h.f = f
    BY <1>1, PeerIsNat, HeaderType DEF Commands
  <2>2. SendFrame(h, wq) /\ Gives(t, svc')
    BY <1>1, <1>2, GivesClose DEF CloseAndTell
  <2>3. /\ conn' \in Conns /\ fault' \in Faults /\ wq' \in Seq(WireFrame)
        /\ Owned(cur, wq', t, live)
    BY <1>1, <2>1, <2>2, Unfold, SendStep DEF Conns
  <2>4. Owned(cur, wq', svc', live)
    BY <2>2, <2>3, OwnedShrink DEF Gives
  <2> QED BY <2>2, <2>3, <2>4, Unfold, Fold, PoolUnchanged
          DEF SvcWriteFailed, Untouched, Gives
<1>3. CASE /\ svc' = t /\ fault' \in {"null_services", fault}
           /\ UNCHANGED <<conn, wq>>
  BY <1>1, <1>3, Unfold, Fold, PoolUnchanged
     DEF SvcWriteFailed, Untouched, Faults
<1> QED BY <1>2, <1>3 DEF SvcWriteFailed, t

LEMMA SvcWriteOrphanedStep ==
  ASSUME NEW i \in Ids, NEW f \in Frames
  PROVE  IInv /\ SvcWriteOrphaned(i, f) => IInv'
BY Unfold, Fold, PoolUnchanged DEF SvcWriteOrphaned, Faults

LEMMA SvcClosedStep ==
  ASSUME NEW i \in Ids
  PROVE  IInv /\ SvcClosed(i) => IInv'
<1> SUFFICES ASSUME IInv, SvcClosed(i) PROVE IInv'
  OBVIOUS
<1>1. Freed(svc[i]) \in Service /\ Freed(svc[i]).q = {}
  BY Unfold, FreedType
<1>2. Gives(svc, svc')
  BY <1>1, Unfold DEF SvcClosed, Gives
<1> QED BY <1>2, Unfold, PoolUnchanged, ServicesStep DEF SvcClosed

-----------------------------------------------------------------------------
(* The theorems *)

LEMMA InitStep == Init => IInv
<1> SUFFICES ASSUME Init PROVE IInv
  OBVIOUS
<1>1. Unused \in Service /\ Unused.q = {}
  BY DEF Unused, Service
<1>2. svc \in [Ids -> Service] /\ \A i \in Ids : svc[i].q = {}
  BY <1>1 DEF Init
<1>3. wq \in Seq(WireFrame) /\ DOMAIN wq = {} /\ FramesOf(wq) = {}
  BY EmptySeq, LenProperties DEF Init, FramesOf
<1>4. Owned(cur, wq, svc, live)
  BY <1>2, <1>3 DEF Init, Owned, Uses, Apart
<1>5. IsFiniteSet(live) /\ FrameAccounting
  BY FS_EmptySet, PoolAssumption DEF Init, FrameAccounting
<1>6. frame_count \in 0..(FrameMax + 1) /\ next_service_id \in 1..(MaxOpens + 1)
  BY PoolAssumption, ServiceTableAssumption DEF Init
<1>7. TypeOK
  BY <1>2, <1>3, <1>6 DEF Init, TypeOK, Faults
<1> QED BY <1>4, <1>5, <1>7 DEF IInv, SingleOwner, Owned

LEMMA NextStep == IInv /\ [Next]_vars => IInv'
<1> SUFFICES ASSUME IInv, [Next]_vars PROVE IInv'
  OBVIOUS
<1>1. CASE FromTransport
  BY <1>1, HostReadBeginStep, HostReadParkStep, HostOutOfMemoryStep,
     HostHangupStep, HostBadFrameStep, HostWriteDoneStep, HostWriteFailedStep,
     HostClosedStep, UsbClosedStep DEF FromTransport
<1>2. CASE Protocol
  BY <1>2, RecvCnxnStep, RecvAuthStep, RecvOpenStep, RecvOpenRefusedStep,
     RecvOpenMalformedStep, RecvClseStep, RecvWrteStep, RecvOkayStep,
     RecvUnknownStep DEF Protocol
<1>3. CASE Streams
  BY <1>3, SvcReadFrameStep, SvcReadParkStep, SvcReadEndStep,
     SvcOutOfMemoryStep, ConnectDoneStep, SvcClosedStep, SvcWriteDoneStep,
     SvcWriteFailedStep, SvcWriteOrphanedStep DEF Streams
<1>4. CASE UNCHANGED vars
  BY <1>4, Unfold, Fold, PoolUnchanged DEF vars
<1> QED BY <1>1, <1>2, <1>3, <1>4 DEF Next

\* The inductive invariant holds of every behaviour of the connection.
THEOREM Invariance == Spec => []IInv
BY InitStep, NextStep, PTL DEF Spec

\* Every variable keeps its type: in particular frame_count stays within
\* 0..CONFIG_ADBD_FRAME_MAX + 1, whatever the host, the streams and the event
\* loop do.
THEOREM TypeCorrect == Spec => []TypeOK
<1>1. IInv => TypeOK
  BY DEF IInv
<1> QED BY <1>1, Invariance, PTL

\* The pool never hands out more than CONFIG_ADBD_FRAME_MAX frames and
\* frame_count never disagrees with the frames in use.
THEOREM AccountingCorrect == Spec => []FrameAccounting
<1>1. IInv => FrameAccounting
  BY DEF IInv
<1> QED BY <1>1, Invariance, PTL

\* No frame ever has two owners, nor an owner after it was released.
THEOREM OwnershipCorrect == Spec => []SingleOwner
<1>1. IInv => SingleOwner
  BY DEF IInv
<1> QED BY <1>1, Invariance, PTL

-----------------------------------------------------------------------------
(* Who reads when: a stream only when its last frame was acknowledged, and   *)
(* everybody again as soon as there is a frame for it.  Both are about the   *)
(* services one by one: a step changes them through few operations, and it   *)
(* is enough to look at those.                                               *)

\* A service that reads is open and owes the host nothing; one that is not
\* connected yet is a tcp service that has sent nothing.
Gated(r) ==
  /\ r.rd => r.st = "open" /\ ~r.ack
  /\ r.st \in {"connecting", "notify", "error"} => r.kind = "tcp" /\ ~r.ack

\* A service waits for a kick.
Idle(r) == (MayRead(r) /\ ~r.rd) \/ r.st \in {"notify", "error"}

AllGated(t) == t \in [Ids -> Service] /\ \A i \in Ids : Gated(t[i])

\* From t to u nobody new waits.
Calmer(t, u) == \A i \in Ids : Idle(u[i]) => Idle(t[i])

RInv == IInv /\ AllGated(svc) /\ NoLostWakeup

-----------------------------------------------------------------------------
(* The operations on one service *)

LEMMA FreedKeeps ==
  ASSUME NEW r \in Service
  PROVE  Gated(Freed(r)) /\ ~Idle(Freed(r))
BY DEF Freed, Unused, Gated, Idle, MayRead

LEMMA OnCloseKeeps ==
  ASSUME NEW r \in Service, Gated(r)
  PROVE  Gated(OnClose(r)) /\ ~Idle(OnClose(r))
<1>1. CASE r.kind = "sync" \/ r.st \in {"connecting", "error"}
  BY <1>1, FreedKeeps DEF OnClose
<1>2. CASE ~(r.kind = "sync" \/ r.st \in {"connecting", "error"})
  <2> DEFINE u == [r EXCEPT !.st = "closing", !.rd = FALSE]
  <2>1. u.st = "closing" /\ u.rd = FALSE
    BY DEF Service
  <2>2. OnClose(r) = u
    BY <1>2 DEF OnClose
  <2> QED BY <2>1, <2>2 DEF Gated, Idle, MayRead
<1> QED BY <1>1, <1>2

LEMMA ResumedKeeps ==
  ASSUME NEW r \in Service, Gated(r), MayRead(r)
  PROVE  /\ Gated([r EXCEPT !.rd = TRUE])
         /\ ~Idle([r EXCEPT !.rd = TRUE])
         /\ [r EXCEPT !.rd = TRUE].st = "open"
BY DEF Service, Gated, Idle, MayRead

LEMMA GrantedKeeps ==
  ASSUME NEW r \in Service, Gated(r), r.st \in {"notify", "error"}
  PROVE  Gated(Granted(r)) /\ ~Idle(Granted(r))
<1>1. CASE r.st = "notify"
  <2> DEFINE u == [r EXCEPT !.st = "open", !.rd = TRUE]
  <2>1. u.st = "open" /\ u.rd = TRUE /\ u.ack = r.ack /\ ~r.ack
    BY <1>1 DEF Service, Gated
  <2>2. Granted(r) = u
    BY <1>1 DEF Granted
  <2> QED BY <2>1, <2>2 DEF Gated, Idle, MayRead
<1>2. CASE r.st # "notify"
  BY <1>2, FreedKeeps DEF Granted
<1> QED BY <1>1, <1>2

LEMMA AckedKeeps ==
  ASSUME NEW r \in Service, Gated(r), r.kind # "sync",
         r.st \in {"open", "connecting", "notify", "error"}
  PROVE  /\ Acked(r) \in Service /\ Gated(Acked(r))
         /\ Idle(Acked(r)) => Idle(r)
<1>1. CASE r.kind = "tcp" /\ ~(r.st = "open" /\ r.ack)
  BY <1>1 DEF Acked
<1>2. CASE ~(r.kind = "tcp" /\ ~(r.st = "open" /\ r.ack))
  <2> DEFINE u == [r EXCEPT !.ack = FALSE, !.rd = TRUE]
  <2>1. u.st = r.st /\ u.rd = TRUE /\ u.ack = FALSE /\ u \in Service
    BY DEF Service
  <2>2. Acked(r) = u
    BY <1>2 DEF Acked
  <2>3. r.st = "open"
    BY <1>2 DEF Gated
  <2> QED BY <2>1, <2>2, <2>3 DEF Gated, Idle, MayRead
<1> QED BY <1>1, <1>2

LEMMA OpenedKeeps ==
  ASSUME NEW kind \in Kinds, NEW peer \in Peers
  PROVE  /\ Opened(kind, peer) \in Service
         /\ Gated(Opened(kind, peer)) /\ ~Idle(Opened(kind, peer))
<1>1. Opened(kind, peer) \in Service
  BY ServiceTableAssumption DEF Opened, Unused, Service
<1>2. /\ Opened(kind, peer).kind = kind /\ Opened(kind, peer).ack = FALSE
      /\ Opened(kind, peer).st = IF kind = "tcp" THEN "connecting" ELSE "open"
      /\ Opened(kind, peer).rd = (kind = "shell")
  BY DEF Opened, Unused
<1>3. kind \in {"sync", "shell", "tcp"}
  BY ServiceTableAssumption
<1> QED BY <1>1, <1>2, <1>3 DEF Gated, Idle, MayRead

-----------------------------------------------------------------------------
(* The operations on the table *)

\* One service changes for the better.
LEMMA ChangeOne ==
  ASSUME NEW t, AllGated(t), NEW i \in Ids, NEW r \in Service, Gated(r),
         Idle(r) => Idle(t[i])
  PROVE  /\ AllGated([t EXCEPT ![i] = r])
         /\ Calmer(t, [t EXCEPT ![i] = r])
BY DEF AllGated, Calmer

LEMMA CloseServiceKeeps ==
  ASSUME NEW t, AllGated(t), NEW i \in Ids
  PROVE  AllGated(CloseService(t, i)) /\ Calmer(t, CloseService(t, i))
<1>1. t[i] \in Service /\ Gated(t[i])
  BY DEF AllGated
<1>2. OnClose(t[i]) \in Service /\ Gated(OnClose(t[i])) /\ ~Idle(OnClose(t[i]))
  BY <1>1, OnCloseType, OnCloseKeeps
<1> QED BY <1>2, ChangeOne DEF CloseService

LEMMA CloseAllKeeps ==
  ASSUME NEW t, AllGated(t)
  PROVE  AllGated(CloseAll(t)) /\ Calmer(t, CloseAll(t))
<1>1. ASSUME NEW i \in Ids
      PROVE  /\ CloseAll(t)[i] \in Service /\ Gated(CloseAll(t)[i])
             /\ Idle(CloseAll(t)[i]) => Idle(t[i])
  <2>1. t[i] \in Service /\ Gated(t[i])
    BY DEF AllGated
  <2> QED BY <2>1, OnCloseType, OnCloseKeeps DEF CloseAll
<1>2. CloseAll(t) \in [Ids -> Service]
  BY GivesCloseAll DEF AllGated, Gives
<1> QED BY <1>1, <1>2 DEF AllGated, Calmer

LEMMA ResumeKeeps ==
  ASSUME NEW t, AllGated(t)
  PROVE  /\ AllGated(Resume(t))
         /\ \A i \in Ids : Idle(Resume(t)[i]) => i \in NeedFrame(t)
         /\ \A i \in NeedFrame(t) : Resume(t)[i] = t[i]
<1>1. ASSUME NEW i \in Ids
      PROVE  /\ Gated(Resume(t)[i])
             /\ Idle(Resume(t)[i]) => i \in NeedFrame(t)
             /\ i \in NeedFrame(t) => Resume(t)[i] = t[i]
  <2>1. t[i] \in Service /\ Gated(t[i])
    BY DEF AllGated
  <2>2. CASE MayRead(t[i])
    <3>1. Resume(t)[i] = [t[i] EXCEPT !.rd = TRUE]
      BY <2>2 DEF Resume
    <3> QED BY <2>1, <2>2, <3>1, ResumedKeeps DEF NeedFrame, MayRead
  <2>3. CASE ~MayRead(t[i])
    BY <2>1, <2>3 DEF Resume, NeedFrame, Idle
  <2> QED BY <2>2, <2>3
<1>2. Resume(t) \in [Ids -> Service]
  BY GivesResume DEF AllGated, Gives
<1> QED BY <1>1, <1>2 DEF AllGated, NeedFrame

LEMMA GrantKeeps ==
  ASSUME NEW t, AllGated(t), NEW i \in NeedFrame(t)
  PROVE  LET u == [Resume(t) EXCEPT ![i] = Granted(@)]
         IN  /\ AllGated(u)
             /\ \A j \in Ids : Idle(u[j]) => j \in NeedFrame(t) /\ j # i
<1> DEFINE v == Resume(t)
           u == [v EXCEPT ![i] = Granted(@)]
<1>1. /\ AllGated(v) /\ v[i] = t[i] /\ i \in Ids
      /\ \A j \in Ids : Idle(v[j]) => j \in NeedFrame(t)
  BY ResumeKeeps DEF NeedFrame
<1> HIDE DEF v
<1>2. v[i] \in Service /\ Gated(v[i]) /\ v[i].st \in {"notify", "error"}
  BY <1>1 DEF AllGated, NeedFrame
<1>3. Granted(v[i]) \in Service /\ Gated(Granted(v[i])) /\ ~Idle(Granted(v[i]))
  BY <1>2, GrantedType, GrantedKeeps
<1>4. AllGated(u)
  BY <1>1, <1>3, ChangeOne
<1>5. ASSUME NEW j \in Ids, Idle(u[j]) PROVE j \in NeedFrame(t) /\ j # i
  <2>1. u[i] = Granted(v[i]) /\ (j # i => u[j] = v[j])
    BY <1>1 DEF AllGated
  <2> QED BY <1>1, <1>3, <1>5, <2>1
<1> QED BY <1>4, <1>5 DEF v
-----------------------------------------------------------------------------
(* Who waits, before and after *)

LEMMA WaitingMeans ==
  Waiting # {} <=> conn = "up" /\ (~reading \/ \E i \in Ids : Idle(svc[i]))
BY DEF Waiting, HostParked, StreamParked, NewsParked, NeedFrame, Idle

LEMMA WaitingMeansNext ==
  Waiting' # {} <=> conn' = "up" /\ (~reading' \/ \E i \in Ids : Idle(svc'[i]))
BY DEF Waiting, HostParked, StreamParked, NewsParked, NeedFrame, Idle, MayRead

\* Nobody new waits, and the counter does not fall from "somebody waits".
LEMMA NobodyNew ==
  ASSUME NoLostWakeup, Calmer(svc, svc'), conn' = "up" => conn = "up",
         conn' = "up" => (reading => reading'),
         frame_count' = frame_count \/ frame_count < FrameMax
  PROVE  NoLostWakeup'
<1> SUFFICES ASSUME Waiting' # {} PROVE frame_count' = FrameMax + 1
  BY DEF NoLostWakeup
<1>1. Waiting # {}
  BY WaitingMeans, WaitingMeansNext DEF Calmer
<1>2. frame_count = FrameMax + 1
  BY <1>1 DEF NoLostWakeup
<1> QED BY <1>2, PoolAssumption

\* A release wakes everybody up, or nobody has to be.
LEMMA ReleaseWakes ==
  ASSUME RInv, NEW f, NEW t, NEW q, AllGated(t), Calmer(svc, t),
         Release(f, t, q), conn' = "up" => conn = "up"
  PROVE  AllGated(svc') /\ NoLostWakeup'
<1>1. CASE ReleaseQuietly(f, t, q)
  <2>1. frame_count # FrameMax + 1
    BY <1>1, PoolAssumption DEF ReleaseQuietly
  <2>2. Waiting = {}
    BY <2>1 DEF RInv, NoLostWakeup
  <2>3. Waiting' = {}
    BY <1>1, <2>2, WaitingMeans, WaitingMeansNext DEF Calmer, ReleaseQuietly
  <2> QED BY <1>1, <2>3 DEF ReleaseQuietly, NoLostWakeup
<1>2. CASE ReleaseAndResume(f, t, q)
  <2>1. /\ AllGated(svc')
        /\ \A i \in Ids : ~Idle(svc'[i])
    BY <1>2, ResumeKeeps DEF ReleaseAndResume
  <2>2. conn' = "up" => reading'
    BY <1>2 DEF ReleaseAndResume
  <2> QED BY <2>1, <2>2, WaitingMeansNext DEF NoLostWakeup
<1>3. CASE ReleaseAndGrant(f, t, q)
  <2>1. PICK i \in Newest(NeedFrame(t)) :
          /\ frame_count' = IF NeedFrame(t) = {i} THEN FrameMax
                                                  ELSE FrameMax + 1
          /\ svc' = [Resume(t) EXCEPT ![i] = Granted(@)]
    BY <1>3 DEF ReleaseAndGrant
  <2>2. i \in NeedFrame(t)
    BY DEF Newest
  <2>3. /\ AllGated(svc')
        /\ \A j \in Ids : Idle(svc'[j]) => j \in NeedFrame(t) /\ j # i
    BY <2>1, <2>2, GrantKeeps
  <2>4. conn' = "up" => reading'
    BY <1>3 DEF ReleaseAndGrant
  <2>5. CASE NeedFrame(t) = {i}
    <3>1. \A j \in Ids : ~Idle(svc'[j])
      BY <2>3, <2>5
    <3> QED BY <2>3, <2>4, <3>1, WaitingMeansNext DEF NoLostWakeup
  <2>6. CASE NeedFrame(t) # {i}
    BY <2>1, <2>3, <2>6 DEF NoLostWakeup
  <2> QED BY <2>5, <2>6
<1>4. CASE ReleaseAborts(f, t, q)
  <2>1. conn' # "up" /\ svc' = t
    BY <1>4 DEF ReleaseAborts, KickAborts
  <2> QED BY <2>1, WaitingMeansNext DEF NoLostWakeup
<1> QED BY <1>1, <1>2, <1>3, <1>4 DEF Release

LEMMA RefuseWakes ==
  ASSUME Refuse
  PROVE  NoLostWakeup'
BY DEF Refuse, NoLostWakeup

LEMMA Same ==
  ASSUME RInv
  PROVE  AllGated(svc) /\ Calmer(svc, svc) /\ NoLostWakeup
BY DEF RInv, Calmer

Kept == AllGated(svc') /\ NoLostWakeup'

-----------------------------------------------------------------------------
(* The transport *)

LEMMA TransportKeeps ==
  ASSUME RInv, FromTransport
  PROVE  Kept
<1>1. CASE HostReadBegin
  <2>1. UNCHANGED <<svc, conn, reading>> /\ frame_count < FrameMax
    BY <1>1 DEF HostReadBegin, Allocate
  <2> QED BY <2>1, Same, NobodyNew DEF Kept
<1>2. CASE HostReadPark
  BY <1>2, Same, RefuseWakes DEF HostReadPark, Kept
<1>3. CASE HostOutOfMemory
  <2>1. UNCHANGED svc /\ conn' # "up"
    BY <1>3 DEF HostOutOfMemory, CloseClient
  <2> QED BY <2>1, Same, WaitingMeansNext DEF Kept, NoLostWakeup
<1>4. CASE HostHangup
  <2>1. UNCHANGED svc /\ conn' # "up"
    BY <1>4 DEF HostHangup, CloseClient
  <2> QED BY <2>1, Same, WaitingMeansNext DEF Kept, NoLostWakeup
<1>5. CASE HostBadFrame
  <2>1. UNCHANGED svc /\ conn' # "up"
    BY <1>5 DEF HostBadFrame, CloseClient
  <2> QED BY <2>1, Same, WaitingMeansNext DEF Kept, NoLostWakeup
<1>6. CASE HostWriteDone
  <2>1. CASE Release(Head(wq).f, svc, Tail(wq)) /\ UNCHANGED conn
    BY <2>1, Same, ReleaseWakes DEF Kept
  <2>2. CASE /\ SendFrame([Head(wq) EXCEPT !.cmd = "WRTE", !.more = FALSE],
                          Tail(wq))
             /\ UNCHANGED <<reading, frame_count, live, svc>>
    <3>1. conn' = conn
      BY <2>2 DEF SendFrame, CloseClient
    <3> QED BY <2>2, <3>1, Same, NobodyNew DEF Kept
  <2> QED BY <1>6, <2>1, <2>2 DEF HostWriteDone
<1>7. CASE HostWriteFailed
  <2>1. CASE Release(Head(wq).f, svc, Tail(wq)) /\ conn' = "closing"
    BY <2>1, Same, ReleaseWakes DEF Kept
  <2>2. CASE /\ CloseClient
             /\ UNCHANGED <<reading, frame_count, live, wq, svc>>
    <3>1. conn' = "up" => conn = "up"
      BY <2>2 DEF CloseClient
    <3> QED BY <2>2, <3>1, Same, NobodyNew DEF Kept
  <2>3. CASE ReleaseAborts(Head(wq).f, svc, Tail(wq)) /\ UNCHANGED conn
    BY <2>3, Same, ReleaseWakes DEF Kept, Release
  <2> QED BY <1>7, <2>1, <2>2, <2>3 DEF HostWriteFailed
<1>8. CASE HostClosed
  <2>1. AllGated(CloseAll(svc)) /\ Calmer(svc, CloseAll(svc))
    BY Same, CloseAllKeeps
  <2>2. CASE UNCHANGED <<conn, reading, cur, frame_count, live, wq, svc>>
    BY <2>2, Same, NobodyNew DEF Kept
  <2>3. CASE conn' = "gone" /\ \E f \in cur : Release(f, CloseAll(svc), <<>>)
    BY <2>1, <2>3, ReleaseWakes DEF Kept
  <2>4. CASE conn' = "gone" /\ svc' = CloseAll(svc)
    BY <2>1, <2>4, WaitingMeansNext DEF Kept, NoLostWakeup
  <2> QED BY <1>8, <2>2, <2>3, <2>4 DEF HostClosed
<1>9. CASE UsbClosed
  BY <1>9, Same, NobodyNew DEF UsbClosed, Kept
<1> QED BY <1>1, <1>2, <1>3, <1>4, <1>5, <1>6, <1>7, <1>8, <1>9
        DEF FromTransport

-----------------------------------------------------------------------------
(* The protocol handlers: the frame is sent, or released *)

LEMMA AnswerKeeps ==
  ASSUME RInv, NEW h, Answer(h), AllGated(svc'), Calmer(svc, svc')
  PROVE  Kept
<1>1. conn' = conn
  BY DEF Answer, SendFrame, CloseClient
<1> QED BY <1>1, Same, NobodyNew DEF Answer, Kept

LEMMA DropKeeps ==
  ASSUME RInv, NEW f, NEW t, AllGated(t), Calmer(svc, t), Drop(f, t)
  PROVE  Kept
BY ReleaseWakes DEF Drop, Kept

LEMMA AuthRequestKeeps ==
  ASSUME RInv, NEW f, AuthRequest(f)
  PROVE  Kept
<1>1. CASE Answer(Header(f, "AUTH", 0, 0, FALSE)) /\ UNCHANGED svc
  BY <1>1, Same, AnswerKeeps
<1>2. CASE Release(f, svc, wq) /\ conn' = "closing"
  BY <1>2, Same, ReleaseWakes DEF Kept
<1> QED BY <1>1, <1>2 DEF AuthRequest

LEMMA HandshakeKeeps ==
  ASSUME RInv, RecvCnxn \/ \E type : RecvAuth(type)
  PROVE  Kept
<1>1. PICK f : \/ AuthRequest(f)
               \/ Answer(Header(f, "CNXN", 0, 0, FALSE)) /\ UNCHANGED svc
               \/ Drop(f, svc)
  BY DEF RecvCnxn, RecvAuth
<1>2. CASE AuthRequest(f)
  BY <1>2, AuthRequestKeeps
<1>3. CASE Answer(Header(f, "CNXN", 0, 0, FALSE)) /\ UNCHANGED svc
  BY <1>3, Same, AnswerKeeps
<1>4. CASE Drop(f, svc)
  BY <1>4, Same, DropKeeps
<1> QED BY <1>1, <1>2, <1>3, <1>4

LEMMA OpenKeeps ==
  ASSUME RInv, NEW peer \in Peers, NEW kind \in Kinds, RecvOpen(peer, kind)
  PROVE  Kept
<1> DEFINE i == next_service_id
           t == [svc EXCEPT ![i] = Opened(kind, peer)]
<1>1. PICK f :
        \/ Drop(f, t)
        \/ svc' = t /\ Answer(Header(f, "OKAY", i, peer, FALSE))
  BY DEF RecvOpen
<1>2. i \in Ids
  BY ServiceTableAssumption DEF RecvOpen, RInv, IInv, TypeOK, Ids
<1>3. AllGated(t) /\ Calmer(svc, t)
  BY <1>2, Same, OpenedKeeps, ChangeOne
<1> HIDE DEF t
<1> QED BY <1>1, <1>3, AnswerKeeps, DropKeeps

LEMMA NothingOpenedKeeps ==
  ASSUME RInv,
         (\E peer : RecvOpenRefused(peer)) \/ RecvOpenMalformed \/ RecvUnknown
  PROVE  Kept
<1>1. CASE \E peer : RecvOpenRefused(peer)
  <2>1. PICK f, peer :
          Answer(Header(f, "CLSE", 0, peer, FALSE)) /\ UNCHANGED svc
    BY <1>1 DEF RecvOpenRefused
  <2> QED BY <2>1, Same, AnswerKeeps
<1>2. CASE RecvOpenMalformed
  BY <1>2, Same, DropKeeps DEF RecvOpenMalformed
<1>3. CASE RecvUnknown
  BY <1>3, Same, ReleaseWakes DEF RecvUnknown, Kept
<1> QED BY <1>1, <1>2, <1>3

LEMMA FailsKeeps ==
  ASSUME RInv, NEW i \in Ids, NEW f, Fails(i, f)
  PROVE  Kept
<1>1. svc' = CloseService(svc, i) /\ conn' = conn
  BY DEF Fails, CloseAndTell, SendFrame, CloseClient
<1>2. AllGated(svc') /\ Calmer(svc, svc')
  BY <1>1, Same, CloseServiceKeeps
<1> QED BY <1>1, <1>2, Same, NobodyNew DEF Fails, Kept

\* The frames libuv has of a service do not matter here.
LEMMA QueueKeeps ==
  ASSUME NEW t, AllGated(t), NEW i \in Ids, NEW Q \in SUBSET Frames
  PROVE  AllGated([t EXCEPT ![i].q = Q]) /\ Calmer(t, [t EXCEPT ![i].q = Q])
<1>1. t[i] \in Service /\ Gated(t[i])
  BY DEF AllGated
<1>2. /\ [t[i] EXCEPT !.q = Q] \in Service
      /\ Gated([t[i] EXCEPT !.q = Q])
      /\ Idle([t[i] EXCEPT !.q = Q]) => Idle(t[i])
  BY <1>1 DEF Service, Gated, Idle, MayRead
<1>3. [t EXCEPT ![i].q = Q] = [t EXCEPT ![i] = [t[i] EXCEPT !.q = Q]]
  BY DEF AllGated
<1> QED BY <1>2, <1>3, ChangeOne

LEMMA RecvClseKeeps ==
  ASSUME RInv, NEW peer, NEW id, RecvClse(peer, id)
  PROVE  Kept
<1>1. PICK f : \/ \E i \in Find(svc, id, peer) : Drop(f, CloseService(svc, i))
               \/ Drop(f, svc)
  BY DEF RecvClse
<1>2. CASE \E i \in Find(svc, id, peer) : Drop(f, CloseService(svc, i))
  <2>1. PICK i \in Ids : Drop(f, CloseService(svc, i))
    BY <1>2, FoundIsId
  <2>2. AllGated(CloseService(svc, i)) /\ Calmer(svc, CloseService(svc, i))
    BY Same, CloseServiceKeeps
  <2> QED BY <2>1, <2>2, DropKeeps
<1>3. CASE Drop(f, svc)
  BY <1>3, Same, DropKeeps
<1> QED BY <1>1, <1>2, <1>3

LEMMA WriteToServiceKeeps ==
  ASSUME RInv, NEW i \in Ids, NEW f \in Frames, WriteToService(i, f)
  PROVE  Kept
<1>1. CASE Fails(i, f)
  BY <1>1, FailsKeeps
<1>2. CASE \E more \in BOOLEAN :
             /\ Answer(Header(f, "OKAY", i, svc[i].peer, more))
             /\ UNCHANGED svc
  BY <1>2, Same, AnswerKeeps
<1>3. CASE /\ svc' = [svc EXCEPT ![i].q = @ \cup {f}]
           /\ UNCHANGED <<conn, reading, frame_count, live, wq, fault>>
  <2>1. svc[i].q \cup {f} \in SUBSET Frames
    <3>1. svc[i] \in Service
      BY Same DEF AllGated
    <3> QED BY <3>1 DEF Service
  <2>2. AllGated(svc') /\ Calmer(svc, svc')
    BY <1>3, <2>1, Same, QueueKeeps
  <2> QED BY <1>3, <2>2, Same, NobodyNew DEF Kept
<1> QED BY <1>1, <1>2, <1>3 DEF WriteToService

LEMMA RecvWrteKeeps ==
  ASSUME RInv, NEW peer, NEW id, RecvWrte(peer, id)
  PROVE  Kept
<1>1. PICK f \in Frames :
         \/ \E i \in Find(svc, id, peer) : WriteToService(i, f)
         \/ Unanswerable(f, id, peer)
  BY DEF RecvWrte, RInv, IInv, TypeOK
<1>2. CASE \E i \in Find(svc, id, peer) : WriteToService(i, f)
  BY <1>2, FoundIsId, WriteToServiceKeeps
<1>3. CASE Unanswerable(f, id, peer)
  BY <1>3, Same, AnswerKeeps DEF Unanswerable
<1> QED BY <1>1, <1>2, <1>3

LEMMA RecvOkayKeeps ==
  ASSUME RInv, NEW peer, NEW id, RecvOkay(peer, id)
  PROVE  Kept
<1>1. PICK f : \/ \E i \in Find(svc, id, 0) : AckToService(i, f)
               \/ Unanswerable(f, id, peer)
  BY DEF RecvOkay
<1>2. CASE Unanswerable(f, id, peer)
  BY <1>2, Same, AnswerKeeps DEF Unanswerable
<1>3. CASE \E i \in Find(svc, id, 0) : AckToService(i, f)
  <2>1. PICK i \in Ids :
          /\ svc[i].st \in {"open", "connecting", "notify", "error"}
          /\ AckToService(i, f)
    BY <1>3 DEF Find, Newest, Registered
  <2>2. CASE Fails(i, f)
    BY <2>2, FailsKeeps
  <2>3. CASE /\ Answer(Header(f, "WRTE", i, svc[i].peer, FALSE))
             /\ UNCHANGED svc
    BY <2>3, Same, AnswerKeeps
  <2>4. CASE Drop(f, svc)
    BY <2>4, Same, DropKeeps
  <2>5. CASE svc[i].kind # "sync" /\ Drop(f, [svc EXCEPT ![i] = Acked(@)])
    <3>1. /\ Acked(svc[i]) \in Service /\ Gated(Acked(svc[i]))
          /\ Idle(Acked(svc[i])) => Idle(svc[i])
      BY <2>1, <2>5, Same, AckedKeeps DEF AllGated
    <3>2. /\ AllGated([svc EXCEPT ![i] = Acked(@)])
          /\ Calmer(svc, [svc EXCEPT ![i] = Acked(@)])
      BY <3>1, Same, ChangeOne
    <3> QED BY <2>5, <3>2, DropKeeps
  <2> QED BY <2>1, <2>2, <2>3, <2>4, <2>5 DEF AckToService
<1> QED BY <1>1, <1>2, <1>3

LEMMA ProtocolKeeps ==
  ASSUME RInv, Protocol
  PROVE  Kept
<1>1. CASE RecvCnxn \/ \E type : RecvAuth(type)
  BY <1>1, HandshakeKeeps
<1>2. CASE \E peer \in Peers, kind \in Kinds : RecvOpen(peer, kind)
  BY <1>2, OpenKeeps
<1>3. CASE (\E peer : RecvOpenRefused(peer)) \/ RecvOpenMalformed \/ RecvUnknown
  BY <1>3, NothingOpenedKeeps
<1>4. CASE \E peer, id :
             RecvClse(peer, id) \/ RecvWrte(peer, id) \/ RecvOkay(peer, id)
  BY <1>4, RecvClseKeeps, RecvWrteKeeps, RecvOkayKeeps
<1> QED BY <1>1, <1>2, <1>3, <1>4 DEF Protocol

-----------------------------------------------------------------------------
(* The streams *)

LEMMA SendsKeep ==
  ASSUME RInv, NEW h, NEW q, SendFrame(h, q), AllGated(svc'),
         Calmer(svc, svc'), reading' = reading,
         frame_count' = frame_count \/ frame_count < FrameMax
  PROVE  Kept
<1>1. conn' = conn
  BY DEF SendFrame, CloseClient
<1> QED BY <1>1, Same, NobodyNew DEF Kept

\* A service that stops reading is gated all the more.
LEMMA StoppedKeeps ==
  ASSUME NEW t, AllGated(t), NEW i \in Ids, t[i].rd, NEW a \in BOOLEAN
  PROVE  /\ AllGated([t EXCEPT ![i].rd = FALSE, ![i].ack = a])
         /\ AllGated([t EXCEPT ![i].rd = FALSE])
         /\ Calmer(t, [t EXCEPT ![i].rd = FALSE, ![i].ack = TRUE])
<1>1. t[i] \in Service /\ t[i].st = "open"
  BY DEF AllGated, Gated
<1> DEFINE u == [t[i] EXCEPT !.rd = FALSE, !.ack = a]
           v == [t[i] EXCEPT !.rd = FALSE]
           w == [t[i] EXCEPT !.rd = FALSE, !.ack = TRUE]
<1>2. /\ u \in Service /\ u.st = "open" /\ ~u.rd
      /\ v \in Service /\ v.st = "open" /\ ~v.rd
      /\ w \in Service /\ w.st = "open" /\ ~w.rd /\ w.ack
  BY <1>1 DEF Service
<1>3. Gated(u) /\ Gated(v) /\ Gated(w) /\ ~Idle(w)
  BY <1>2 DEF Gated, Idle, MayRead
<1>4. /\ [t EXCEPT ![i].rd = FALSE, ![i].ack = a] = [t EXCEPT ![i] = u]
      /\ [t EXCEPT ![i].rd = FALSE] = [t EXCEPT ![i] = v]
      /\ [t EXCEPT ![i].rd = FALSE, ![i].ack = TRUE] = [t EXCEPT ![i] = w]
  BY DEF AllGated
<1> HIDE DEF u, v, w
<1> QED BY <1>2, <1>3, <1>4 DEF AllGated, Calmer

LEMMA ReadingKeeps ==
  ASSUME RInv, NEW i \in Ids,
         \/ SvcReadFrame(i) \/ SvcReadPark(i)
         \/ SvcReadEnd(i) \/ SvcOutOfMemory(i)
  PROVE  Kept
<1>1. AllGated(svc) /\ svc[i].rd
  BY Same DEF SvcReadFrame, SvcReadPark, SvcReadEnd, SvcOutOfMemory, Readable
<1>2. CASE SvcReadFrame(i)
  <2>1. AllGated(svc') /\ Calmer(svc, svc')
    BY <1>1, <1>2, StoppedKeeps DEF SvcReadFrame
  <2> QED BY <1>2, <2>1, SendsKeep DEF SvcReadFrame, Allocate
<1>3. CASE SvcReadPark(i)
  <2>1. AllGated(svc')
    BY <1>1, <1>3, StoppedKeeps DEF SvcReadPark
  <2> QED BY <1>3, <2>1, RefuseWakes DEF SvcReadPark, Kept
<1>4. CASE SvcReadEnd(i)
  <2>1. PICK f : Allocate(f) /\ CloseAndTell(i, f, svc, wq)
    BY <1>4 DEF SvcReadEnd
  <2>2. AllGated(svc') /\ Calmer(svc, svc')
    BY <1>1, <2>1, CloseServiceKeeps DEF CloseAndTell
  <2> QED BY <1>4, <2>1, <2>2, SendsKeep
          DEF SvcReadEnd, Allocate, CloseAndTell
<1>5. CASE SvcOutOfMemory(i)
  <2>1. AllGated(svc')
    BY <1>1, <1>5, StoppedKeeps DEF SvcOutOfMemory
  <2>2. conn' # "up"
    BY <1>5 DEF SvcOutOfMemory, CloseClient
  <2> QED BY <2>1, <2>2, WaitingMeansNext DEF Kept, NoLostWakeup
<1> QED BY <1>2, <1>3, <1>4, <1>5

LEMMA ConnectDoneKeeps ==
  ASSUME RInv, NEW i \in Ids, ConnectDone(i)
  PROVE  Kept
<1>1. CASE UNCHANGED <<conn, frame_count, live, wq, svc>>
  BY <1>1, Same, NobodyNew DEF ConnectDone, Kept
<1>2. ASSUME svc[i].st = "connecting",
             NEW result \in ConnectResult, NEW t,
             t = [svc EXCEPT ![i].st = result, ![i].req = FALSE],
             \/ \E f \in Frames : ConnectTold(i, t, f)
             \/ ConnectParked(t)
             \/ ConnectOutOfMemory(t)
      PROVE  Kept
  <2>1. /\ AllGated(t) /\ t[i].st \in {"notify", "error"}
        /\ \A j \in Ids : j # i => t[j] = svc[j]
    <3>1. result \in {"notify", "error"}
      BY <1>2 DEF ConnectResult
    <3> DEFINE r == [svc[i] EXCEPT !.st = result, !.req = FALSE]
    <3>2. svc[i] \in Service /\ Gated(svc[i]) /\ svc[i].st = "connecting"
      BY <1>2, Same DEF AllGated
    <3>3. /\ r \in Service /\ r.st = result /\ r.kind = svc[i].kind
          /\ r.ack = svc[i].ack /\ r.rd = svc[i].rd
      BY <3>1, <3>2 DEF Service
    <3>4. Gated(r)
      BY <3>1, <3>2, <3>3 DEF Gated
    <3>5. t = [svc EXCEPT ![i] = r]
      BY <1>2, Same DEF AllGated
    <3> HIDE DEF r
    <3> QED BY <3>1, <3>3, <3>4, <3>5, Same DEF AllGated
  <2>2. CASE \E f \in Frames : ConnectTold(i, t, f)
    <3>1. t[i] \in Service /\ Gated(t[i])
      BY <2>1 DEF AllGated
    <3>2. /\ Granted(t[i]) \in Service
          /\ Gated(Granted(t[i])) /\ ~Idle(Granted(t[i]))
      BY <2>1, <3>1, GrantedType, GrantedKeeps
    <3>3. svc' = [t EXCEPT ![i] = Granted(t[i])]
      BY <2>2 DEF ConnectTold
    <3>4. AllGated(svc') /\ Calmer(svc, svc')
      BY <2>1, <3>2, <3>3, Same DEF AllGated, Calmer
    <3>5. conn' = conn /\ frame_count < FrameMax /\ reading' = reading
      BY <2>2 DEF ConnectDone, ConnectTold, Allocate, CloseClient
    <3> QED BY <3>4, <3>5, Same, NobodyNew DEF Kept
  <2>3. CASE ConnectParked(t)
    BY <2>1, <2>3, RefuseWakes DEF ConnectParked, Kept
  <2>4. CASE ConnectOutOfMemory(t)
    <3>1. svc' = t /\ conn' # "up"
      BY <2>4 DEF ConnectOutOfMemory, CloseClient
    <3> QED BY <2>1, <3>1, WaitingMeansNext DEF Kept, NoLostWakeup
  <2> QED BY <1>2, <2>2, <2>3, <2>4
<1> QED BY <1>1, <1>2 DEF ConnectDone

LEMMA WrittenKeeps ==
  ASSUME RInv, NEW i \in Ids, NEW f
  PROVE  AllGated(Written(i, f)) /\ Calmer(svc, Written(i, f))
<1>1. svc[i].q \ {f} \in SUBSET Frames
  <2>1. svc[i] \in Service
    BY Same DEF AllGated
  <2> QED BY <2>1 DEF Service
<1> QED BY <1>1, Same, QueueKeeps DEF Written

LEMMA WritesKeep ==
  ASSUME RInv, NEW i \in Ids, NEW f \in Frames,
         SvcWriteDone(i, f) \/ SvcWriteFailed(i, f) \/ SvcWriteOrphaned(i, f)
  PROVE  Kept
<1>1. AllGated(Written(i, f)) /\ Calmer(svc, Written(i, f))
  BY WrittenKeeps
<1>2. CASE SvcWriteDone(i, f)
  BY <1>1, <1>2, SendsKeep DEF SvcWriteDone
<1>3. CASE SvcWriteFailed(i, f) /\ CloseAndTell(i, f, Written(i, f), wq)
  <2>1. AllGated(svc') /\ Calmer(Written(i, f), svc')
    BY <1>1, <1>3, CloseServiceKeeps DEF CloseAndTell
  <2>2. Calmer(svc, svc')
    BY <1>1, <2>1 DEF Calmer
  <2> QED BY <1>3, <2>1, <2>2, SendsKeep DEF SvcWriteFailed, CloseAndTell
<1>4. CASE /\ SvcWriteFailed(i, f)
           /\ svc' = Written(i, f) /\ UNCHANGED <<conn, wq>>
  BY <1>1, <1>4, Same, NobodyNew DEF SvcWriteFailed, Kept
<1>5. CASE SvcWriteOrphaned(i, f)
  BY <1>5, Same, NobodyNew DEF SvcWriteOrphaned, Kept
<1> QED BY <1>2, <1>3, <1>4, <1>5 DEF SvcWriteFailed

LEMMA StreamsKeep ==
  ASSUME RInv, Streams
  PROVE  Kept
<1>1. PICK i \in Ids :
        \/ SvcReadFrame(i) \/ SvcReadPark(i) \/ SvcReadEnd(i)
        \/ SvcOutOfMemory(i) \/ ConnectDone(i) \/ SvcClosed(i)
        \/ \E f \in Frames :
             SvcWriteDone(i, f) \/ SvcWriteFailed(i, f) \/ SvcWriteOrphaned(i, f)
  BY DEF Streams
<1>2. CASE SvcClosed(i)
  <2>1. svc[i] \in Service
    BY Same DEF AllGated
  <2>2. Freed(svc[i]) \in Service
    BY <2>1, FreedType
  <2>3. AllGated(svc') /\ Calmer(svc, svc')
    BY <1>2, <2>1, <2>2, Same, FreedKeeps, ChangeOne DEF SvcClosed
  <2> QED BY <1>2, <2>3, Same, NobodyNew DEF SvcClosed, Kept
<1> QED BY <1>1, <1>2, ReadingKeeps, ConnectDoneKeeps, WritesKeep

-----------------------------------------------------------------------------
(* The specification *)

LEMMA RInvInit ==
  ASSUME Init
  PROVE  RInv
<1>1. IInv
  BY InitStep
<1>2. AllGated(svc)
  BY <1>1 DEF Init, IInv, TypeOK, AllGated, Gated, Unused
<1>3. \A i \in Ids : ~Idle(svc[i])
  BY DEF Init, Idle, MayRead, Unused
<1>4. NoLostWakeup
  BY <1>3, WaitingMeans DEF Init, NoLostWakeup
<1> QED BY <1>1, <1>2, <1>4 DEF RInv

LEMMA RInvNext ==
  ASSUME RInv, [Next]_vars
  PROVE  RInv'
<1>1. IInv'
  BY NextStep DEF RInv
<1>2. Kept
  <2>1. CASE Next
    BY <2>1, TransportKeeps, ProtocolKeeps, StreamsKeep DEF Next
  <2>2. CASE UNCHANGED vars
    BY <2>2, Same, NobodyNew DEF vars, Kept
  <2> QED BY <2>1, <2>2
<1> QED BY <1>1, <1>2 DEF RInv, Kept, AllGated

\* adb_hal_apacket_release() and the kicks: whoever stopped reading, or could
\* not tell the host something, for want of a frame is woken by the next
\* release, for any number of frames and services.
THEOREM WakeupCorrect == Spec => []NoLostWakeup
<1>1. Init => RInv
  BY RInvInit
<1>2. RInv /\ [Next]_vars => RInv'
  BY RInvNext
<1>3. RInv => NoLostWakeup
  BY DEF RInv
<1> QED BY <1>1, <1>2, <1>3, PTL DEF Spec

\* The assertion of alloc_buffer() holds: a stream is never read while one of
\* its frames waits for the host's acknowledgement.
THEOREM GatingCorrect == Spec => []ReadersGated
<1>1. Init => RInv
  BY RInvInit
<1>2. RInv /\ [Next]_vars => RInv'
  BY RInvNext
<1>3. RInv => ReadersGated
  BY DEF RInv, AllGated, Gated, ReadersGated
<1> QED BY <1>1, <1>2, <1>3, PTL DEF Spec
=============================================================================
