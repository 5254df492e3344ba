------------------------- MODULE HostSessionProofs --------------------------
(***************************************************************************)
(* Proofs about the two ends of the streams, for every number of frames    *)
(* and streams and any number of writes: each WRTE is answered once, data  *)
(* is acknowledged once, and the ends agree when nothing is under way.     *)
(*                                                                         *)
(* The argument counts the frames of a stream that are under way: a step   *)
(* moves a frame, turns it into its answer, or adds one together with the  *)
(* change of an end that accounts for it.                                  *)
(***************************************************************************)
EXTENDS HostSession, StreamProofs

-----------------------------------------------------------------------------
(* Counting in sequences *)

\* The positions of s at which there is one of the elements of M.
Hits(s, M) == {k \in DOMAIN s : s[k] \in M}
Count(s, M) == Cardinality(Hits(s, M))

LEMMA CountType ==
  ASSUME NEW S, NEW s \in Seq(S), NEW M
  PROVE  Count(s, M) \in Nat /\ IsFiniteSet(Hits(s, M))
<1>1. Hits(s, M) \subseteq 1..Len(s) /\ Len(s) \in Nat
  BY DEF Hits
<1>2. IsFiniteSet(1..Len(s))
  BY <1>1, FS_Interval
<1>3. IsFiniteSet(Hits(s, M))
  BY <1>1, <1>2, FS_Subset
<1> QED BY <1>3, FS_CardinalityType DEF Count

LEMMA CountSome ==
  ASSUME NEW S, NEW s \in Seq(S), NEW M
  PROVE  Count(s, M) > 0 <=> \E k \in DOMAIN s : s[k] \in M
<1>1. Count(s, M) \in Nat /\ IsFiniteSet(Hits(s, M))
  BY CountType
<1>2. Count(s, M) = 0 <=> Hits(s, M) = {}
  BY <1>1, FS_EmptySet DEF Count
<1>3. Hits(s, M) = {} <=> ~\E k \in DOMAIN s : s[k] \in M
  BY DEF Hits
<1> QED BY <1>1, <1>2, <1>3

LEMMA CountAppend ==
  ASSUME NEW S, NEW s \in Seq(S), NEW x \in S, NEW M
  PROVE  Count(Append(s, x), M) = Count(s, M) + (IF x \in M THEN 1 ELSE 0)
<1> DEFINE n == Len(s) + 1
<1>1. /\ Len(s) \in Nat /\ DOMAIN s = 1..Len(s) /\ n \notin Hits(s, M)
      /\ DOMAIN Append(s, x) = 1..n
      /\ Append(s, x)[n] = x /\ \A k \in 1..Len(s) : Append(s, x)[k] = s[k]
  BY DEF Hits
<1>2. \A k \in 1..n : k \in 1..Len(s) \/ k = n
  BY <1>1
<1>3. 1..Len(s) \subseteq 1..n /\ n \in 1..n
  BY <1>1
<1>4. Hits(Append(s, x), M) = Hits(s, M) \cup (IF x \in M THEN {n} ELSE {})
  BY <1>1, <1>2, <1>3 DEF Hits
<1>5. IsFiniteSet(Hits(s, M)) /\ Cardinality(Hits(s, M)) \in Nat
  BY CountType DEF Count
<1>6. Cardinality(Hits(s, M) \cup {n}) = Cardinality(Hits(s, M)) + 1
  BY <1>1, <1>5, FS_AddElement
<1>7. CASE x \in M
  BY <1>4, <1>5, <1>6, <1>7 DEF Count
<1>8. CASE x \notin M
  <2>1. Hits(Append(s, x), M) = Hits(s, M)
    BY <1>4, <1>8
  <2> QED BY <1>5, <1>8, <2>1 DEF Count
<1> QED BY <1>7, <1>8

\* Without the first element, everything moves up by one.
LEMMA CountTail ==
  ASSUME NEW S, NEW s \in Seq(S), s # <<>>, NEW M
  PROVE  /\ Count(s, M) = Count(Tail(s), M) + (IF Head(s) \in M THEN 1 ELSE 0)
         /\ Tail(s) \in Seq(S) /\ Head(s) \in S
         /\ \A k \in DOMAIN Tail(s) : k + 1 \in DOMAIN s /\ Tail(s)[k] = s[k + 1]
<1> DEFINE u == Tail(s)
           T == Hits(u, M)
           U == Hits(s, M) \ {1}
           f == [k \in T |-> k + 1]
<1>1. /\ Len(s) \in Nat /\ Len(s) >= 1 /\ DOMAIN s = 1..Len(s) /\ Head(s) = s[1]
      /\ u \in Seq(S) /\ DOMAIN u = 1..(Len(s) - 1)
      /\ \A k \in 1..(Len(s) - 1) : u[k] = s[k + 1]
  BY HeadTailProperties, LenProperties
<1>2. \A k \in 1..(Len(s) - 1) : k + 1 \in 1..Len(s) /\ k + 1 # 1
  BY <1>1
<1>3. \A k \in 1..Len(s) : k # 1 => k - 1 \in 1..(Len(s) - 1) /\ (k - 1) + 1 = k
  BY <1>1
<1> HIDE DEF u
<1>4. f \in Bijection(T, U)
  <2>1. \A k \in T : k + 1 \in U
    BY <1>1, <1>2 DEF Hits
  <2>2. \A k \in U : k - 1 \in T /\ (k - 1) + 1 = k
    BY <1>1, <1>3 DEF Hits
  <2>3. \A j, k \in T : j + 1 = k + 1 => j = k
    BY <1>1 DEF Hits
  <2>4. f \in [T -> U]
    BY <2>1
  <2>5. \A j, k \in T : f[j] = f[k] => j = k
    BY <2>3
  <2>6. \A k \in U : \E j \in T : f[j] = k
    BY <2>2
  <2> HIDE DEF f
  <2> QED BY <2>4, <2>5, <2>6 DEF Bijection, Injection, Surjection, IsInjective
<1>5. IsFiniteSet(T) /\ Cardinality(T) = Cardinality(U)
  BY <1>1, <1>4, CountType, FS_Bijection DEF ExistsBijection
<1>6. Count(s, M) = Cardinality(U) + (IF Head(s) \in M THEN 1 ELSE 0)
  <2>1. 1 \in Hits(s, M) <=> Head(s) \in M
    BY <1>1 DEF Hits
  <2>2. IsFiniteSet(Hits(s, M))
    BY CountType
  <2>3. CASE 1 \in Hits(s, M)
    <3>1. Cardinality(U) = Cardinality(Hits(s, M)) - 1 /\ Cardinality(Hits(s, M)) \in Nat
      BY <2>2, <2>3, FS_RemoveElement, FS_CardinalityType
    <3> QED BY <2>1, <2>3, <3>1 DEF Count
  <2>4. CASE 1 \notin Hits(s, M)
    <3>1. U = Hits(s, M)
      BY <2>4
    <3>2. Cardinality(U) = Count(s, M) /\ Count(s, M) \in Nat
      BY <2>2, <3>1, FS_CardinalityType DEF Count
    <3> QED BY <2>1, <2>4, <3>2
  <2> QED BY <2>3, <2>4
<1>7. \A k \in DOMAIN u : k + 1 \in DOMAIN s /\ u[k] = s[k + 1]
  BY <1>1, <1>2
<1>8. Count(u, M) = Cardinality(U)
  BY <1>5 DEF Count
<1>9. Head(s) \in S
  BY HeadTailProperties
<1> QED BY <1>1, <1>6, <1>7, <1>8, <1>9 DEF u
-----------------------------------------------------------------------------
(* The frames under way *)

\* The device's ids: ids[p] is the id of the host's stream p, 0 if it has none.
IdTable == [Peers -> Ids \cup {0}]

\* Nobody is mistaken about which stream is meant.
Named(ids, p, i) == p \in Peers /\ i \in Ids /\ ids[p] = i

\* What the host sends, what it sees, and what waits to be written to it.
DevFrame ==
  [cmd : {"CNXN", "OPEN", "WRTE", "OKAY", "CLSE"}, peer : Peers \cup {0},
   id : Ids \cup {0}, kind : Kinds \cup {"none"}]

SeenFrame == [cmd : Commands, local : Nat, remote : Nat]

SentFrames(ids) ==
  {m \in DevFrame :
     /\ m.cmd = "OPEN" => m.peer \in Peers /\ m.kind \in Kinds
     /\ m.cmd \in {"WRTE", "OKAY", "CLSE"} => Named(ids, m.peer, m.id)}

SeenFrames(ids) ==
  {m \in SeenFrame : m.cmd \in {"OKAY", "WRTE"} => Named(ids, m.remote, m.local)}

WireFrames(ids) ==
  {m \in WireFrame :
     /\ m.cmd \in {"OKAY", "WRTE"} => Named(ids, m.remote, m.local)
     /\ m.more => m.cmd = "OKAY"}

Sent(p, cmd)  == {m \in DevFrame : m.cmd = cmd /\ m.peer = p}
Seen(p, cmd)  == {m \in SeenFrame : m.cmd = cmd /\ m.remote = p}
Wired(p, cmd) == {m \in WireFrame : m.cmd = cmd /\ m.remote = p}
Doubled(p)    == {m \in WireFrame : m.more /\ m.remote = p}

\* How many frames of stream p are under way: d is toDev, e is toHost and q the
\* write queue.
Flow(p, d, e, q) ==
  [opens  |-> Count(d, Sent(p, "OPEN")),
   writes |-> Count(d, Sent(p, "WRTE")),
   acks   |-> Count(d, Sent(p, "OKAY")),
   closes |-> Count(d, Sent(p, "CLSE")),
   oks    |-> Count(e, Seen(p, "OKAY")) + Count(q, Wired(p, "OKAY")),
   data   |-> Count(e, Seen(p, "WRTE")) + Count(q, Wired(p, "WRTE")),
   ends   |-> Count(e, Seen(p, "CLSE")) + Count(q, Wired(p, "CLSE")),
   more   |-> Count(q, Doubled(p))]

\* The host sees the announcement of a stream before its data.
InOrder(p, e, q) ==
  /\ \A k \in DOMAIN e : e[k] \in Seen(p, "WRTE") =>
       \E j \in DOMAIN e : j < k /\ e[j] \in Seen(p, "OKAY")
  /\ \A k \in DOMAIN q : q[k] \in Wired(p, "WRTE") =>
       \/ \E j \in DOMAIN e : e[j] \in Seen(p, "OKAY")
       \/ \E j \in DOMAIN q : j < k /\ q[j] \in Wired(p, "OKAY")

-----------------------------------------------------------------------------
(* The invariant of one stream *)

Asking(r) == r.st \in {"opening", "abandoned"}
Young(x)  == x.st \in {"connecting", "notify", "error"}
Alive(x)  == x.st = "open" \/ Young(x)

\* The service with id o, if there is one.
At(t, o) == IF o = 0 THEN Unused ELSE t[o]

\* Who asked for a stream: the OPEN, or what came of it, is under way.
AskingOK(f, r, o, x) ==
  /\ f.opens <= 1
  /\ f.opens = 1 => Asking(r) /\ f.ends = 0 /\ o = 0
  /\ r.st = "idle" => f.opens = 0 /\ f.ends = 0 /\ o = 0
  /\ o = 0 => f.writes + f.acks + f.closes + f.oks + f.data + f.more = 0
  /\ f.writes + f.acks > 0 => r.st \in {"open", "closed"}
  /\ f.closes > 0 => r.st = "closed"
  /\ Asking(r) => /\ f.oks <= 1 /\ x.q = {}
                  /\ f.opens = 1 \/ f.ends > 0 \/ Alive(x)
  /\ Asking(r) \/ r.st = "idle" => ~r.unacked

\* A stream the host has open: its service is open or its end is under way,
\* and an unanswered WRTE has one thing that will become its answer.
OpenOK(f, r, o, x) ==
  r.st = "open" =>
    /\ o # 0 /\ r.id = o
    /\ f.ends > 0 \/ x.st = "open"
    /\ f.writes + Cardinality(x.q) + f.oks <= (IF r.unacked THEN 1 ELSE 0)
    /\ r.unacked => \/ f.writes + Cardinality(x.q) + f.oks = 1
                    \/ f.ends > 0

\* A service: the host knows it, will hear of it, or closed it; and data of it
\* is under way, or acknowledged, while it waits for the acknowledgement.
ServiceOK(f, r, x) ==
  /\ Alive(x) => f.ends = 0
  /\ x.st = "open" => \/ r.st = "open"
                      \/ Asking(r) /\ f.oks > 0
                      \/ r.st = "closed" /\ f.closes > 0
  /\ Young(x) => Asking(r) /\ f.oks = 0 /\ f.data = 0
  /\ x.st = "open" /\ x.kind # "sync" /\ r.st \in {"opening", "open"} =>
       f.data + f.acks = IF x.ack THEN 1 ELSE 0
  /\ f.more > 0 => x.kind = "sync"

StreamOK(f, r, o, x) ==
  AskingOK(f, r, o, x) /\ OpenOK(f, r, o, x) /\ ServiceOK(f, r, x)

-----------------------------------------------------------------------------
(* The invariant *)

\* What a service is, whoever it belongs to.
Fit(r) ==
  /\ r \in Service /\ IsFiniteSet(r.q)
  /\ Alive(r) \/ r.st = "closing" => r.peer \in Peers
  /\ Young(r) => r.kind = "tcp" /\ ~r.ack /\ r.q = {}

Typed(ids, d, e, q, t, h, n) ==
  /\ ids \in IdTable /\ n \in Nat
  /\ \A p \in Peers : ids[p] = 0 \/ ids[p] < n
  /\ \A p, r \in Peers : ids[p] = ids[r] /\ ids[p] # 0 => p = r
  /\ d \in Seq(SentFrames(ids))
  /\ e \in Seq(SeenFrames(ids))
  /\ q \in Seq(WireFrames(ids))
  /\ t \in [Ids -> Service]
  /\ \A i \in Ids : Fit(t[i]) /\ (t[i].peer # 0 => ids[t[i].peer] = i)
  /\ h \in [Peers -> HostStream]
  /\ \A p \in Peers : h[p].id \in {0, ids[p]}

Session(ids, d, e, q, t, h, n) ==
  /\ Typed(ids, d, e, q, t, h, n)
  /\ \A p \in Peers :
       /\ StreamOK(Flow(p, d, e, q), h[p], ids[p], At(t, ids[p]))
       /\ h[p].st = "opening" => InOrder(p, e, q)

\* The inductive invariant, next to that of the connection.
Here(ids) ==
  /\ conn = "up"
  /\ Session(ids, toDev, toHost, wq, svc, hs, next_service_id)

HInv == \E ids \in IdTable : Here(ids)

-----------------------------------------------------------------------------
(* What a frame more or less makes of the counts *)

Flows == [opens : Nat, writes : Nat, acks : Nat, closes : Nat,
          oks : Nat, data : Nat, ends : Nat, more : Nat]

Mark(b) == IF b THEN 1 ELSE 0

\* g counts one frame to the device more than f; one to the host more.
InMore(f, g, cmd) ==
  /\ g.opens  = f.opens  + Mark(cmd = "OPEN")
  /\ g.writes = f.writes + Mark(cmd = "WRTE")
  /\ g.acks   = f.acks   + Mark(cmd = "OKAY")
  /\ g.closes = f.closes + Mark(cmd = "CLSE")

OutMore(f, g, cmd, more) ==
  /\ g.oks  = f.oks  + Mark(cmd = "OKAY")
  /\ g.data = f.data + Mark(cmd = "WRTE")
  /\ g.ends = f.ends + Mark(cmd = "CLSE")
  /\ g.more = f.more + Mark(more)

SameIn(f, g) ==
  g.opens = f.opens /\ g.writes = f.writes /\ g.acks = f.acks /\ g.closes = f.closes

SameOut(f, g) ==
  g.oks = f.oks /\ g.data = f.data /\ g.ends = f.ends /\ g.more = f.more

LEMMA InLess ==
  ASSUME NEW f \in Flows, NEW g \in Flows, NEW cmd, InMore(f, g, cmd)
  PROVE  /\ f.opens <= g.opens /\ f.writes <= g.writes
         /\ f.acks <= g.acks /\ f.closes <= g.closes
BY DEF InMore, Mark, Flows

LEMMA SameFlow ==
  ASSUME NEW p, NEW r, NEW d1, NEW e1, NEW q1, NEW d2, NEW e2, NEW q2,
         SameIn(Flow(p, d1, e1, q1), Flow(r, d2, e2, q2)),
         SameOut(Flow(p, d1, e1, q1), Flow(r, d2, e2, q2))
  PROVE  Flow(r, d2, e2, q2) = Flow(p, d1, e1, q1)
BY DEF Flow, SameIn, SameOut

LEMMA Members ==
  ASSUME NEW ids
  PROVE  /\ SentFrames(ids) \subseteq DevFrame
         /\ SeenFrames(ids) \subseteq SeenFrame
         /\ WireFrames(ids) \subseteq WireFrame
BY DEF SentFrames, SeenFrames, WireFrames

LEMMA FlowType ==
  ASSUME NEW ids, NEW d \in Seq(SentFrames(ids)), NEW e \in Seq(SeenFrames(ids)),
         NEW q \in Seq(WireFrames(ids)), NEW p
  PROVE  Flow(p, d, e, q) \in Flows
<1>1. \A M : Count(d, M) \in Nat /\ Count(e, M) \in Nat /\ Count(q, M) \in Nat
  BY CountType
<1>2. \A cmd : Count(e, Seen(p, cmd)) + Count(q, Wired(p, cmd)) \in Nat
  BY <1>1
<1> QED BY <1>1, <1>2 DEF Flow, Flows

LEMMA SendFlow ==
  ASSUME NEW ids, NEW d \in Seq(SentFrames(ids)), NEW x \in SentFrames(ids),
         NEW e, NEW q, NEW p
  PROVE  LET f == Flow(p, d, e, q)
             g == Flow(p, Append(d, x), e, q)
         IN /\ x.peer = p => InMore(f, g, x.cmd) /\ SameOut(f, g)
            /\ x.peer # p \/ x.cmd = "CNXN" => g = f
<1>1. \A M : Count(Append(d, x), M) = Count(d, M) + Mark(x \in M)
  BY CountAppend DEF Mark
<1>2. \A cmd : x \in Sent(p, cmd) <=> x.cmd = cmd /\ x.peer = p
  BY Members DEF Sent
<1>3. \A M : Count(d, M) \in Nat
  BY CountType
<1>4. x.peer = p => InMore(Flow(p, d, e, q), Flow(p, Append(d, x), e, q), x.cmd)
  BY <1>1, <1>2 DEF Flow, InMore, Mark
<1>5. SameOut(Flow(p, d, e, q), Flow(p, Append(d, x), e, q))
  BY DEF Flow, SameOut
<1>6. ASSUME x.peer # p \/ x.cmd = "CNXN"
      PROVE  SameIn(Flow(p, d, e, q), Flow(p, Append(d, x), e, q))
  BY <1>1, <1>2, <1>3, <1>6 DEF Flow, SameIn, Mark
<1> QED BY <1>4, <1>5, <1>6, SameFlow

LEMMA ReadFlow ==
  ASSUME NEW ids, NEW d \in Seq(SentFrames(ids)), d # <<>>, NEW e, NEW q, NEW p
  PROVE  LET f == Flow(p, Tail(d), e, q)
             g == Flow(p, d, e, q)
         IN /\ Head(d).peer = p => InMore(f, g, Head(d).cmd) /\ SameOut(f, g)
            /\ Head(d).peer # p \/ Head(d).cmd = "CNXN" => f = g
            /\ Tail(d) \in Seq(SentFrames(ids)) /\ Head(d) \in SentFrames(ids)
<1> DEFINE x == Head(d)
<1>1. /\ \A M : Count(d, M) = Count(Tail(d), M) + Mark(x \in M)
      /\ Tail(d) \in Seq(SentFrames(ids)) /\ x \in SentFrames(ids)
  BY CountTail DEF Mark
<1> HIDE DEF x
<1>2. \A cmd : x \in Sent(p, cmd) <=> x.cmd = cmd /\ x.peer = p
  BY <1>1, Members DEF Sent
<1>3. \A M : Count(Tail(d), M) \in Nat
  BY <1>1, CountType
<1>4. x.peer = p => InMore(Flow(p, Tail(d), e, q), Flow(p, d, e, q), x.cmd)
  BY <1>1, <1>2 DEF Flow, InMore, Mark
<1>5. SameOut(Flow(p, Tail(d), e, q), Flow(p, d, e, q))
  BY DEF Flow, SameOut
<1>6. ASSUME x.peer # p \/ x.cmd = "CNXN"
      PROVE  SameIn(Flow(p, Tail(d), e, q), Flow(p, d, e, q))
  BY <1>1, <1>2, <1>3, <1>6 DEF Flow, SameIn, Mark
<1> QED BY <1>1, <1>4, <1>5, <1>6, SameFlow DEF x

LEMMA QueueFlow ==
  ASSUME NEW ids, NEW d, NEW e \in Seq(SeenFrames(ids)),
         NEW q \in Seq(WireFrames(ids)), NEW x \in WireFrames(ids), NEW p
  PROVE  LET f == Flow(p, d, e, q)
             g == Flow(p, d, e, Append(q, x))
         IN /\ x.remote = p => OutMore(f, g, x.cmd, x.more) /\ SameIn(f, g)
            /\ x.remote # p \/ x.cmd \in {"CNXN", "AUTH"} => g = f
<1>1. \A M : Count(Append(q, x), M) = Count(q, M) + Mark(x \in M)
  BY CountAppend DEF Mark
<1>2. /\ \A cmd : x \in Wired(p, cmd) <=> x.cmd = cmd /\ x.remote = p
      /\ x \in Doubled(p) <=> x.more /\ x.remote = p
      /\ x.more => x.cmd = "OKAY"
      /\ x.more \in BOOLEAN
  BY Members DEF Wired, Doubled, WireFrames, WireFrame
<1>3. \A M : Count(q, M) \in Nat /\ Count(e, M) \in Nat
  BY CountType
<1>7. \A cmd : Count(e, Seen(p, cmd)) + Count(Append(q, x), Wired(p, cmd))
               = Count(e, Seen(p, cmd)) + Count(q, Wired(p, cmd))
                 + Mark(x.cmd = cmd /\ x.remote = p)
  <2> TAKE cmd
  <2>1. Count(Append(q, x), Wired(p, cmd)) = Count(q, Wired(p, cmd))
                                             + Mark(x.cmd = cmd /\ x.remote = p)
    BY <1>1, <1>2 DEF Mark
  <2>2. Mark(x.cmd = cmd /\ x.remote = p) \in Nat
    BY DEF Mark
  <2>3. Count(q, Wired(p, cmd)) \in Nat /\ Count(e, Seen(p, cmd)) \in Nat
    BY <1>3
  <2> QED BY <2>1, <2>2, <2>3
<1>8. Count(Append(q, x), Doubled(p)) = Count(q, Doubled(p)) + Mark(x.more /\ x.remote = p)
  BY <1>1, <1>2 DEF Mark
<1>9. \A cmd : Count(e, Seen(p, cmd)) + Count(q, Wired(p, cmd)) \in Nat
  BY <1>3
<1>4. x.remote = p => OutMore(Flow(p, d, e, q), Flow(p, d, e, Append(q, x)),
                              x.cmd, x.more)
  BY <1>7, <1>8 DEF Flow, OutMore, Mark
<1>5. SameIn(Flow(p, d, e, q), Flow(p, d, e, Append(q, x)))
  BY DEF Flow, SameIn
<1>6. ASSUME x.remote # p \/ x.cmd \in {"CNXN", "AUTH"}
      PROVE  SameOut(Flow(p, d, e, q), Flow(p, d, e, Append(q, x)))
  <2>1. ~(x.more /\ x.remote = p)
    BY <1>2, <1>6
  <2>2. ASSUME NEW cmd \in {"OKAY", "WRTE", "CLSE"}
        PROVE  Count(e, Seen(p, cmd)) + Count(Append(q, x), Wired(p, cmd))
               = Count(e, Seen(p, cmd)) + Count(q, Wired(p, cmd))
    <3>1. ~(x.cmd = cmd /\ x.remote = p)
      BY <1>6
    <3> QED BY <1>7, <1>9, <3>1 DEF Mark
  <2>3. Count(Append(q, x), Doubled(p)) = Count(q, Doubled(p))
    BY <1>3, <1>8, <2>1 DEF Mark
  <2> QED BY <2>2, <2>3 DEF Flow, SameOut
<1> QED BY <1>4, <1>5, <1>6, SameFlow

LEMMA HearFlow ==
  ASSUME NEW ids, NEW d, NEW e \in Seq(SeenFrames(ids)), e # <<>>,
         NEW q \in Seq(WireFrames(ids)), NEW p
  PROVE  LET f == Flow(p, d, Tail(e), q)
             g == Flow(p, d, e, q)
         IN /\ Head(e).remote = p => OutMore(f, g, Head(e).cmd, FALSE) /\ SameIn(f, g)
            /\ Head(e).remote # p \/ Head(e).cmd \in {"CNXN", "AUTH"} => f = g
            /\ Tail(e) \in Seq(SeenFrames(ids)) /\ Head(e) \in SeenFrames(ids)
<1> DEFINE x == Head(e)
<1>1. /\ \A M : Count(e, M) = Count(Tail(e), M) + Mark(x \in M)
      /\ Tail(e) \in Seq(SeenFrames(ids)) /\ x \in SeenFrames(ids)
  BY CountTail DEF Mark
<1> HIDE DEF x
<1>2. \A cmd : x \in Seen(p, cmd) <=> x.cmd = cmd /\ x.remote = p
  BY <1>1, Members DEF Seen
<1>3. \A M : Count(q, M) \in Nat /\ Count(Tail(e), M) \in Nat
  BY <1>1, CountType
<1>7. \A cmd : Count(e, Seen(p, cmd)) + Count(q, Wired(p, cmd))
               = Count(Tail(e), Seen(p, cmd)) + Count(q, Wired(p, cmd))
                 + Mark(x.cmd = cmd /\ x.remote = p)
  <2> TAKE cmd
  <2>1. Count(e, Seen(p, cmd)) = Count(Tail(e), Seen(p, cmd))
                                 + Mark(x.cmd = cmd /\ x.remote = p)
    BY <1>1, <1>2 DEF Mark
  <2>2. Mark(x.cmd = cmd /\ x.remote = p) \in Nat
    BY DEF Mark
  <2>3. Count(q, Wired(p, cmd)) \in Nat /\ Count(Tail(e), Seen(p, cmd)) \in Nat
    BY <1>3
  <2> QED BY <2>1, <2>2, <2>3
<1>8. /\ \A cmd : Count(Tail(e), Seen(p, cmd)) + Count(q, Wired(p, cmd)) \in Nat
      /\ Count(q, Doubled(p)) \in Nat
  BY <1>3
<1>4. x.remote = p => OutMore(Flow(p, d, Tail(e), q), Flow(p, d, e, q), x.cmd, FALSE)
  BY <1>7, <1>8 DEF Flow, OutMore, Mark
<1>5. SameIn(Flow(p, d, Tail(e), q), Flow(p, d, e, q))
  BY DEF Flow, SameIn
<1>6. ASSUME x.remote # p \/ x.cmd \in {"CNXN", "AUTH"}
      PROVE  SameOut(Flow(p, d, Tail(e), q), Flow(p, d, e, q))
  <2>1. ASSUME NEW cmd \in {"OKAY", "WRTE", "CLSE"}
        PROVE  Count(e, Seen(p, cmd)) + Count(q, Wired(p, cmd))
               = Count(Tail(e), Seen(p, cmd)) + Count(q, Wired(p, cmd))
    <3>1. ~(x.cmd = cmd /\ x.remote = p)
      BY <1>6
    <3> QED BY <1>7, <1>8, <3>1 DEF Mark
  <2> QED BY <2>1 DEF Flow, SameOut
<1>9. x.remote # p \/ x.cmd \in {"CNXN", "AUTH"} =>
        Flow(p, d, Tail(e), q) = Flow(p, d, e, q)
  BY <1>5, <1>6, SameFlow
<1> QED BY <1>1, <1>4, <1>5, <1>9 DEF x

\* The host sees a frame of another stream.
LEMMA HearOther ==
  ASSUME NEW ids, NEW d, NEW e \in Seq(SeenFrames(ids)), e # <<>>,
         NEW q \in Seq(WireFrames(ids)), NEW p,
         Head(e).remote # p \/ Head(e).cmd \in {"CNXN", "AUTH"}
  PROVE  Flow(p, d, Tail(e), q) = Flow(p, d, e, q)
<1> DEFINE x == Head(e)
<1>1. /\ \A M : Count(e, M) = Count(Tail(e), M) + Mark(x \in M)
      /\ Tail(e) \in Seq(SeenFrames(ids))
      /\ x.remote # p \/ x.cmd \in {"CNXN", "AUTH"}
  BY CountTail DEF Mark
<1> HIDE DEF x
<1>2. \A cmd \in {"OKAY", "WRTE", "CLSE"} : x \notin Seen(p, cmd)
  BY <1>1 DEF Seen
<1>3. \A M : Count(Tail(e), M) \in Nat
  BY <1>1, CountType
<1>4. \A cmd \in {"OKAY", "WRTE", "CLSE"} :
        Count(e, Seen(p, cmd)) = Count(Tail(e), Seen(p, cmd))
  BY <1>1, <1>2, <1>3 DEF Mark
<1> QED BY <1>4 DEF Flow

\* What was written to the host is under way still.
LEMMA WriteFlow ==
  ASSUME NEW ids, NEW d, NEW e \in Seq(SeenFrames(ids)),
         NEW q \in Seq(WireFrames(ids)), q # <<>>, NEW p,
         NEW y \in SeenFrames(ids),
         y.cmd = Head(q).cmd, y.remote = Head(q).remote
  PROVE  LET f == Flow(p, d, e, q)
             g == Flow(p, d, Append(e, y), Tail(q))
         IN /\ g.oks = f.oks /\ g.data = f.data /\ g.ends = f.ends /\ SameIn(f, g)
            /\ f.more = g.more + Mark(Head(q).more /\ Head(q).remote = p)
            /\ Tail(q) \in Seq(WireFrames(ids)) /\ Head(q) \in WireFrames(ids)
<1> DEFINE x == Head(q)
<1>1. /\ \A M : Count(q, M) = Count(Tail(q), M) + Mark(x \in M)
      /\ Tail(q) \in Seq(WireFrames(ids)) /\ x \in WireFrames(ids)
  BY CountTail DEF Mark
<1>2. \A M : Count(Append(e, y), M) = Count(e, M) + Mark(y \in M)
  BY CountAppend DEF Mark
<1>3. y.cmd = x.cmd /\ y.remote = x.remote
  OBVIOUS
<1> HIDE DEF x
<1>4. \A cmd : y \in Seen(p, cmd) <=> x \in Wired(p, cmd)
  BY <1>1, <1>3, Members DEF Seen, Wired
<1>5. x \in Doubled(p) <=> x.more /\ x.remote = p
  BY <1>1, Members DEF Doubled
<1>6. \A M : /\ Count(q, M) \in Nat /\ Count(e, M) \in Nat
             /\ Count(Tail(q), M) \in Nat /\ Count(Append(e, y), M) \in Nat
  BY <1>1, CountType, AppendProperties
<1>7. \A cmd : Count(Append(e, y), Seen(p, cmd)) + Count(Tail(q), Wired(p, cmd))
               = Count(e, Seen(p, cmd)) + Count(q, Wired(p, cmd))
  <2> TAKE cmd
  <2>1. /\ Count(Append(e, y), Seen(p, cmd))
           = Count(e, Seen(p, cmd)) + Mark(x \in Wired(p, cmd))
        /\ Count(q, Wired(p, cmd))
           = Count(Tail(q), Wired(p, cmd)) + Mark(x \in Wired(p, cmd))
    BY <1>1, <1>2, <1>4 DEF Mark
  <2>2. Mark(x \in Wired(p, cmd)) \in Nat
    BY DEF Mark
  <2> QED BY <1>6, <2>1, <2>2
<1>8. Count(q, Doubled(p)) = Count(Tail(q), Doubled(p)) + Mark(x.more /\ x.remote = p)
  BY <1>1, <1>5 DEF Mark
<1> QED BY <1>1, <1>7, <1>8 DEF Flow, SameIn, x
-----------------------------------------------------------------------------
(* The order of what the host sees *)

LEMMA Announced ==
  ASSUME NEW ids, NEW d, NEW e \in Seq(SeenFrames(ids)),
         NEW q \in Seq(WireFrames(ids)), NEW p, Flow(p, d, e, q).oks > 0
  PROVE  \/ \E k \in DOMAIN e : e[k] \in Seen(p, "OKAY")
         \/ \E k \in DOMAIN q : q[k] \in Wired(p, "OKAY")
<1>1. Count(e, Seen(p, "OKAY")) \in Nat /\ Count(q, Wired(p, "OKAY")) \in Nat
  BY CountType
<1>2. Flow(p, d, e, q).oks = Count(e, Seen(p, "OKAY")) + Count(q, Wired(p, "OKAY"))
  BY DEF Flow
<1>3. Count(e, Seen(p, "OKAY")) > 0 \/ Count(q, Wired(p, "OKAY")) > 0
  BY <1>1, <1>2
<1> QED BY <1>3, CountSome

LEMMA OrderQueue ==
  ASSUME NEW ids, NEW d, NEW e \in Seq(SeenFrames(ids)),
         NEW q \in Seq(WireFrames(ids)), NEW x \in WireFrames(ids), NEW p,
         InOrder(p, e, q),
         x.cmd = "WRTE" /\ x.remote = p => Flow(p, d, e, q).oks > 0
  PROVE  InOrder(p, e, Append(q, x))
<1> DEFINE u == Append(q, x)
           n == Len(q) + 1
<1>1. /\ Len(q) \in Nat /\ DOMAIN q = 1..Len(q) /\ DOMAIN u = 1..n
      /\ u[n] = x /\ \A k \in 1..Len(q) : u[k] = q[k]
  BY AppendProperties, LenProperties
<1>2. \A k \in 1..n : k \in 1..Len(q) \/ k = n
  BY <1>1
<1>3. \A k \in 1..Len(q) : k \in 1..n /\ k < n
  BY <1>1
<1> HIDE DEF u, n
<1>4. ASSUME NEW k \in DOMAIN u, u[k] \in Wired(p, "WRTE")
      PROVE  \/ \E j \in DOMAIN e : e[j] \in Seen(p, "OKAY")
             \/ \E j \in DOMAIN u : j < k /\ u[j] \in Wired(p, "OKAY")
  <2>1. CASE k \in 1..Len(q)
    BY <1>1, <1>3, <1>4, <2>1 DEF InOrder
  <2>2. CASE k = n
    <3>1. x.cmd = "WRTE" /\ x.remote = p
      BY <1>1, <1>4, <2>2 DEF Wired
    <3>2. \/ \E j \in DOMAIN e : e[j] \in Seen(p, "OKAY")
          \/ \E j \in DOMAIN q : q[j] \in Wired(p, "OKAY")
      BY <3>1, Announced
    <3> QED BY <1>1, <1>3, <2>2, <3>2
  <2> QED BY <1>1, <1>2, <2>1, <2>2
<1>5. \A k \in DOMAIN e : e[k] \in Seen(p, "WRTE") =>
        \E j \in DOMAIN e : j < k /\ e[j] \in Seen(p, "OKAY")
  BY DEF InOrder
<1> QED BY <1>4, <1>5 DEF InOrder, u

LEMMA OrderHear ==
  ASSUME NEW ids, NEW e \in Seq(SeenFrames(ids)), e # <<>>,
         NEW q \in Seq(WireFrames(ids)), NEW p, InOrder(p, e, q)
  PROVE  /\ Head(e) \notin Seen(p, "WRTE")
         /\ Head(e) \notin Seen(p, "OKAY") => InOrder(p, Tail(e), q)
<1> DEFINE u == Tail(e)
<1>1. /\ Len(e) \in Nat /\ Len(e) >= 1 /\ DOMAIN e = 1..Len(e) /\ Head(e) = e[1]
      /\ DOMAIN u = 1..(Len(e) - 1)
      /\ \A k \in 1..(Len(e) - 1) : u[k] = e[k + 1]
  BY HeadTailProperties, LenProperties
<1> HIDE DEF u
<1>2. \A k \in 1..(Len(e) - 1) : k + 1 \in 1..Len(e)
  BY <1>1
<1>3. \A k \in 1..Len(e) : k = 1 \/ (k - 1 \in 1..(Len(e) - 1) /\ (k - 1) + 1 = k)
  BY <1>1
<1>4. 1 \in 1..Len(e) /\ \A j \in 1..Len(e) : ~(j < 1)
  BY <1>1
<1>5. Head(e) \notin Seen(p, "WRTE")
  BY <1>1, <1>4 DEF InOrder
<1>6. ASSUME Head(e) \notin Seen(p, "OKAY")
      PROVE  InOrder(p, u, q)
  <2>1. \A j \in 1..Len(e) : e[j] \in Seen(p, "OKAY") =>
          j - 1 \in 1..(Len(e) - 1) /\ u[j - 1] = e[j]
    BY <1>1, <1>3, <1>6
  <2>2. ASSUME NEW k \in DOMAIN u, u[k] \in Seen(p, "WRTE")
        PROVE  \E j \in DOMAIN u : j < k /\ u[j] \in Seen(p, "OKAY")
    <3>1. k + 1 \in DOMAIN e /\ e[k + 1] \in Seen(p, "WRTE")
      BY <1>1, <1>2, <2>2
    <3>2. PICK j \in DOMAIN e : j < k + 1 /\ e[j] \in Seen(p, "OKAY")
      BY <3>1 DEF InOrder
    <3>3. j - 1 \in DOMAIN u /\ u[j - 1] \in Seen(p, "OKAY")
      BY <1>1, <2>1, <3>2
    <3>4. j - 1 < k
      BY <1>1, <3>2
    <3> QED BY <3>3, <3>4
  <2>3. ASSUME NEW j \in DOMAIN e, e[j] \in Seen(p, "OKAY")
        PROVE  \E k \in DOMAIN u : u[k] \in Seen(p, "OKAY")
    BY <1>1, <2>1, <2>3
  <2> QED BY <2>2, <2>3 DEF InOrder
<1> QED BY <1>5, <1>6 DEF u

LEMMA OrderWrite ==
  ASSUME NEW ids, NEW e \in Seq(SeenFrames(ids)),
         NEW q \in Seq(WireFrames(ids)), q # <<>>, NEW p, InOrder(p, e, q),
         NEW y \in SeenFrames(ids),
         y.cmd = Head(q).cmd, y.remote = Head(q).remote
  PROVE  InOrder(p, Append(e, y), Tail(q))
<1> DEFINE u == Append(e, y)
           v == Tail(q)
           n == Len(e) + 1
<1>1. /\ Len(e) \in Nat /\ DOMAIN e = 1..Len(e) /\ DOMAIN u = 1..n
      /\ u[n] = y /\ \A k \in 1..Len(e) : u[k] = e[k]
  BY AppendProperties, LenProperties
<1>2. /\ Len(q) \in Nat /\ Len(q) >= 1 /\ DOMAIN q = 1..Len(q) /\ Head(q) = q[1]
      /\ DOMAIN v = 1..(Len(q) - 1)
      /\ \A k \in 1..(Len(q) - 1) : v[k] = q[k + 1]
      /\ Head(q) \in WireFrames(ids)
  BY HeadTailProperties, LenProperties
<1>3. \A cmd : y \in Seen(p, cmd) <=> q[1] \in Wired(p, cmd)
  BY <1>2, Members DEF Seen, Wired
<1> HIDE DEF u, v, n
<1>4. /\ \A k \in 1..n : k \in 1..Len(e) \/ k = n
      /\ \A k \in 1..Len(e) : k \in 1..n /\ k < n
      /\ n \in 1..n
  BY <1>1 DEF n
<1>5. /\ \A k \in 1..(Len(q) - 1) : k + 1 \in 1..Len(q)
      /\ \A k \in 1..Len(q) : k = 1 \/ (k - 1 \in 1..(Len(q) - 1) /\ (k - 1) + 1 = k)
      /\ 1 \in 1..Len(q) /\ \A j \in 1..Len(q) : ~(j < 1)
  BY <1>2
<1>6. ASSUME NEW j \in DOMAIN e, e[j] \in Seen(p, "OKAY")
      PROVE  \E k \in DOMAIN u : u[k] \in Seen(p, "OKAY")
  BY <1>1, <1>4, <1>6
<1>7. ASSUME NEW k \in DOMAIN u, u[k] \in Seen(p, "WRTE")
      PROVE  \E j \in DOMAIN u : j < k /\ u[j] \in Seen(p, "OKAY")
  <2>1. CASE k \in 1..Len(e)
    BY <1>1, <1>4, <1>7, <2>1 DEF InOrder
  <2>2. CASE k = n
    <3>1. q[1] \in Wired(p, "WRTE")
      BY <1>1, <1>3, <1>7, <2>2
    <3>2. PICK j \in DOMAIN e : e[j] \in Seen(p, "OKAY")
      BY <1>2, <1>5, <3>1 DEF InOrder
    <3> QED BY <1>1, <1>4, <2>2, <3>2
  <2> QED BY <1>1, <1>4, <2>1, <2>2
<1>8. ASSUME NEW k \in DOMAIN v, v[k] \in Wired(p, "WRTE")
      PROVE  \/ \E j \in DOMAIN u : u[j] \in Seen(p, "OKAY")
             \/ \E j \in DOMAIN v : j < k /\ v[j] \in Wired(p, "OKAY")
  <2>1. k + 1 \in DOMAIN q /\ q[k + 1] \in Wired(p, "WRTE")
    BY <1>2, <1>5, <1>8
  <2>2. \/ \E j \in DOMAIN e : e[j] \in Seen(p, "OKAY")
        \/ \E j \in DOMAIN q : j < k + 1 /\ q[j] \in Wired(p, "OKAY")
    BY <2>1 DEF InOrder
  <2>3. ASSUME NEW j \in DOMAIN q, j < k + 1, q[j] \in Wired(p, "OKAY"), j # 1
        PROVE  \E i \in DOMAIN v : i < k /\ v[i] \in Wired(p, "OKAY")
    <3>1. j - 1 \in DOMAIN v /\ v[j - 1] = q[j]
      BY <1>2, <1>5, <2>3
    <3>2. j - 1 < k
      BY <1>2, <2>3
    <3> QED BY <2>3, <3>1, <3>2
  <2>4. ASSUME q[1] \in Wired(p, "OKAY")
        PROVE  \E j \in DOMAIN u : u[j] \in Seen(p, "OKAY")
    BY <1>1, <1>3, <1>4, <2>4
  <2> QED BY <1>6, <2>2, <2>3, <2>4
<1> QED BY <1>7, <1>8 DEF InOrder, u, v
-----------------------------------------------------------------------------
(* One stream at a time *)

LEMMA Owner ==
  ASSUME NEW ids, NEW d, NEW e, NEW q, NEW t, NEW h, NEW n,
         Typed(ids, d, e, q, t, h, n), NEW i \in Ids, t[i].peer \in Peers
  PROVE  ids[t[i].peer] = i /\ i # 0 /\ At(t, ids[t[i].peer]) = t[i]
<1>1. t[i].peer # 0 /\ i # 0
  BY ServiceTableAssumption DEF Ids
<1> QED BY <1>1 DEF Typed, At

\* A service that belongs to a stream of the host is described with it.
LEMMA Stream ==
  ASSUME NEW ids, NEW d, NEW e, NEW q, NEW t, NEW h, NEW n,
         Session(ids, d, e, q, t, h, n), NEW p \in Peers
  PROVE  /\ StreamOK(Flow(p, d, e, q), h[p], ids[p], At(t, ids[p]))
         /\ h[p].st = "opening" => InOrder(p, e, q)
         /\ Flow(p, d, e, q) \in Flows
         /\ h[p] \in HostStream
         /\ ids[p] \in Ids \cup {0}
         /\ Fit(At(t, ids[p]))
         /\ ids[p] # 0 => At(t, ids[p]) = t[ids[p]]
         /\ At(t, ids[p]).peer \in {0, p}
<1>1. Flow(p, d, e, q) \in Flows
  BY FlowType DEF Session, Typed
<1>2. h[p] \in HostStream /\ ids[p] \in Ids \cup {0}
  BY DEF Session, Typed, IdTable
<1>3. Fit(Unused)
  BY FS_EmptySet, IdsAreNat DEF Fit, Unused, Service, Alive, Young
<1>4. Fit(At(t, ids[p]))
  BY <1>2, <1>3 DEF Session, Typed, At
<1>5. At(t, ids[p]).peer \in {0, p}
  <2>1. CASE ids[p] = 0
    BY <2>1 DEF At, Unused
  <2>2. ASSUME ids[p] # 0, t[ids[p]].peer # 0
        PROVE  t[ids[p]].peer = p
    <3>1. ids[t[ids[p]].peer] = ids[p]
      BY <1>2, <2>2 DEF Session, Typed
    <3>2. t[ids[p]].peer \in Peers
      BY <1>2, <2>2 DEF Session, Typed, Service
    <3> QED BY <2>2, <3>1, <3>2 DEF Session, Typed
  <2> QED BY <2>1, <2>2 DEF At
<1> QED BY <1>1, <1>2, <1>4, <1>5 DEF Session, At

\* What does not touch the other streams is judged by the one it is about.
LEMMA OneStream ==
  ASSUME NEW ids, NEW d, NEW e, NEW q, NEW t, NEW h, NEW n,
         Session(ids, d, e, q, t, h, n),
         NEW d2, NEW e2, NEW q2, NEW t2, NEW h2,
         Typed(ids, d2, e2, q2, t2, h2, n),
         NEW p,
         \A r \in Peers \ {p} :
           /\ Flow(r, d2, e2, q2) = Flow(r, d, e, q)
           /\ h2[r] = h[r] /\ At(t2, ids[r]) = At(t, ids[r])
           /\ InOrder(r, e, q) => InOrder(r, e2, q2),
         p \in Peers =>
           /\ StreamOK(Flow(p, d2, e2, q2), h2[p], ids[p], At(t2, ids[p]))
           /\ h2[p].st = "opening" => InOrder(p, e2, q2)
  PROVE  Session(ids, d2, e2, q2, t2, h2, n)
<1>1. ASSUME NEW r \in Peers, r # p
      PROVE  /\ StreamOK(Flow(r, d2, e2, q2), h2[r], ids[r], At(t2, ids[r]))
             /\ h2[r].st = "opening" => InOrder(r, e2, q2)
  <2>1. r \in Peers \ {p}
    BY <1>1
  <2>2. /\ StreamOK(Flow(r, d, e, q), h[r], ids[r], At(t, ids[r]))
        /\ h[r].st = "opening" => InOrder(r, e, q)
    BY DEF Session
  <2>3. /\ Flow(r, d2, e2, q2) = Flow(r, d, e, q)
        /\ h2[r] = h[r] /\ At(t2, ids[r]) = At(t, ids[r])
        /\ InOrder(r, e, q) => InOrder(r, e2, q2)
    BY <2>1
  <2> QED BY <2>2, <2>3
<1> QED BY <1>1 DEF Session

\* The queue becomes k, by a frame of stream p, that is no data before the
\* announcement: f counts the frames of p, r is the host's end.
Speaks(ids, p, f, r, q, k) ==
  \/ k = q
  \/ \E x \in WireFrames(ids) :
       /\ x.remote = p /\ k = Append(q, x)
       /\ x.cmd = "WRTE" /\ r.st = "opening" => f.oks > 0

\* The services become u, by a change of the one of stream p.
Serves(ids, p, t, u) ==
  \/ u = t
  \/ \E y : /\ ids[p] # 0 /\ Fit(y) /\ y.peer \in {0, p}
            /\ u = [t EXCEPT ![ids[p]] = y]

\* The device does something about stream p: reads a frame, changes the
\* service, puts a frame into the queue, or several of these.
LEMMA DeviceMove ==
  ASSUME NEW ids, NEW d, NEW e, NEW q, NEW t, NEW h, NEW n,
         Session(ids, d, e, q, t, h, n), NEW p \in Peers,
         NEW d2, NEW q2, NEW t2,
         \/ d2 = d
         \/ d # <<>> /\ d2 = Tail(d) /\ Head(d).peer = p,
         Speaks(ids, p, Flow(p, d, e, q), h[p], q, q2), Serves(ids, p, t, t2),
         StreamOK(Flow(p, d2, e, q2), h[p], ids[p], At(t2, ids[p]))
  PROVE  Session(ids, d2, e, q2, t2, h, n)
<1>1. /\ ids \in IdTable
      /\ d \in Seq(SentFrames(ids)) /\ e \in Seq(SeenFrames(ids))
      /\ q \in Seq(WireFrames(ids)) /\ t \in [Ids -> Service]
  BY DEF Session, Typed
<1>2. /\ d2 \in Seq(SentFrames(ids))
      /\ \A r \in Peers \ {p} : Flow(r, d2, e, q) = Flow(r, d, e, q)
  <2>1. CASE d2 = d
    BY <1>1, <2>1
  <2>2. CASE d # <<>> /\ d2 = Tail(d) /\ Head(d).peer = p
    <3>1. d2 \in Seq(SentFrames(ids))
      BY <1>1, <2>2, ReadFlow
    <3>2. ASSUME NEW r \in Peers, r # p PROVE Flow(r, d2, e, q) = Flow(r, d, e, q)
      <4>1. Head(d).peer # r
        BY <2>2, <3>2
      <4> QED BY <1>1, <2>2, <4>1, ReadFlow
    <3> QED BY <3>1, <3>2
  <2> QED BY <2>1, <2>2
<1>3. /\ q2 \in Seq(WireFrames(ids))
      /\ \A r \in Peers \ {p} : Flow(r, d2, e, q2) = Flow(r, d2, e, q)
  <2>1. CASE q2 = q
    BY <1>1, <2>1
  <2>2. CASE q2 # q
    <3>1. PICK x \in WireFrames(ids) : x.remote = p /\ q2 = Append(q, x)
      BY <2>2 DEF Speaks
    <3> QED BY <1>1, <3>1, QueueFlow, AppendProperties
  <2> QED BY <2>1, <2>2
<1>4. \A r \in Peers : InOrder(r, e, q) /\ (r = p => h[p].st = "opening")
                         => InOrder(r, e, q2)
  <2>1. CASE q2 = q
    BY <2>1
  <2>2. CASE q2 # q
    <3>1. PICK x \in WireFrames(ids) :
            /\ x.remote = p /\ q2 = Append(q, x)
            /\ x.cmd = "WRTE" /\ h[p].st = "opening" => Flow(p, d, e, q).oks > 0
      BY <2>2 DEF Speaks
    <3>2. ASSUME NEW r \in Peers, InOrder(r, e, q), r = p => h[p].st = "opening"
          PROVE  InOrder(r, e, q2)
      <4>1. x.cmd = "WRTE" /\ x.remote = r => Flow(r, d, e, q).oks > 0
        BY <3>1, <3>2
      <4> QED BY <1>1, <3>1, <3>2, <4>1, OrderQueue
    <3> QED BY <3>2
  <2> QED BY <2>1, <2>2
<1>5. /\ t2 \in [Ids -> Service]
      /\ \A i \in Ids : Fit(t2[i]) /\ (t2[i].peer # 0 => ids[t2[i].peer] = i)
      /\ \A r \in Peers \ {p} : At(t2, ids[r]) = At(t, ids[r])
  <2>1. CASE t2 = t
    BY <2>1 DEF Session, Typed
  <2>2. CASE t2 # t
    <3>1. PICK y : /\ ids[p] # 0 /\ Fit(y) /\ y.peer \in {0, p}
                   /\ t2 = [t EXCEPT ![ids[p]] = y]
      BY <2>2 DEF Serves
    <3>2. y \in Service /\ ids[p] \in Ids
      BY <1>1, <3>1 DEF Fit, IdTable
    <3>3. \A i \in Ids : t2[i] = IF i = ids[p] THEN y ELSE t[i]
      BY <1>1, <3>1
    <3>4. \A r \in Peers \ {p} : ids[r] # ids[p] \/ ids[r] = 0
      BY <3>1 DEF Session, Typed
    <3>5. \A r \in Peers \ {p} : At(t2, ids[r]) = At(t, ids[r])
      BY <1>1, <3>3, <3>4 DEF At, IdTable
    <3>6. \A i \in Ids : Fit(t2[i]) /\ (t2[i].peer # 0 => ids[t2[i].peer] = i)
      BY <3>1, <3>3 DEF Session, Typed
    <3> QED BY <1>1, <3>1, <3>2, <3>5, <3>6
  <2> QED BY <2>1, <2>2
<1>6. Typed(ids, d2, e, q2, t2, h, n)
  BY <1>2, <1>3, <1>5 DEF Session, Typed
<1>7. h[p].st = "opening" => InOrder(p, e, q2)
  BY <1>4 DEF Session
<1>8. \A r \in Peers \ {p} : /\ Flow(r, d2, e, q2) = Flow(r, d, e, q)
                             /\ h[r] = h[r] /\ At(t2, ids[r]) = At(t, ids[r])
                             /\ InOrder(r, e, q) => InOrder(r, e, q2)
  BY <1>2, <1>3, <1>4, <1>5
<1> QED BY <1>6, <1>7, <1>8, OneStream
\* With a frame for the host, and without.
LEMMA SendMove ==
  ASSUME NEW ids, NEW d, NEW e, NEW q, NEW t, NEW h, NEW n,
         Session(ids, d, e, q, t, h, n), NEW p \in Peers, NEW d2,
         d2 = d \/ (d # <<>> /\ d2 = Tail(d) /\ Head(d).peer = p),
         NEW x \in WireFrames(ids), x.remote = p,
         x.cmd = "WRTE" /\ h[p].st = "opening" => Flow(p, d, e, q).oks > 0,
         ids[p] # 0, NEW y, Fit(y), y.peer \in {0, p},
         StreamOK(Flow(p, d2, e, Append(q, x)), h[p], ids[p], y)
  PROVE  Session(ids, d2, e, Append(q, x), [t EXCEPT ![ids[p]] = y], h, n)
<1> DEFINE t2 == [t EXCEPT ![ids[p]] = y]
           q2 == Append(q, x)
<1>1. Speaks(ids, p, Flow(p, d, e, q), h[p], q, q2)
  BY DEF Speaks
<1>2. Serves(ids, p, t, t2)
  BY DEF Serves
<1>3. At(t2, ids[p]) = y
  BY DEF At, Session, Typed, IdTable
<1> HIDE DEF t2, q2
<1>4. StreamOK(Flow(p, d2, e, q2), h[p], ids[p], At(t2, ids[p]))
  BY <1>3 DEF q2
<1>5. Session(ids, d2, e, q2, t2, h, n)
  BY <1>1, <1>2, <1>4, DeviceMove
<1> QED BY <1>5 DEF q2, t2

LEMMA SilentMove ==
  ASSUME NEW ids, NEW d, NEW e, NEW q, NEW t, NEW h, NEW n,
         Session(ids, d, e, q, t, h, n), NEW p \in Peers, NEW d2,
         d2 = d \/ (d # <<>> /\ d2 = Tail(d) /\ Head(d).peer = p),
         ids[p] # 0, NEW y, Fit(y), y.peer \in {0, p},
         StreamOK(Flow(p, d2, e, q), h[p], ids[p], y)
  PROVE  Session(ids, d2, e, q, [t EXCEPT ![ids[p]] = y], h, n)
<1> DEFINE t2 == [t EXCEPT ![ids[p]] = y]
<1>1. Serves(ids, p, t, t2) /\ Speaks(ids, p, Flow(p, d, e, q), h[p], q, q)
  BY DEF Serves, Speaks
<1>2. At(t2, ids[p]) = y
  BY DEF At, Session, Typed, IdTable
<1> HIDE DEF t2
<1>3. StreamOK(Flow(p, d2, e, q), h[p], ids[p], At(t2, ids[p]))
  BY <1>2
<1>4. Session(ids, d2, e, q, t2, h, n)
  BY <1>1, <1>3, DeviceMove
<1> QED BY <1>4 DEF t2

LEMMA Queues ==
  ASSUME NEW ids, NEW d, NEW e, NEW q, NEW t, NEW h, NEW n,
         Session(ids, d, e, q, t, h, n), NEW p \in Peers,
         NEW x \in WireFrames(ids), x.remote = p
  PROVE  LET f == Flow(p, d, e, q)
             g == Flow(p, d, e, Append(q, x))
         IN g \in Flows /\ OutMore(f, g, x.cmd, x.more) /\ SameIn(f, g)
<1>1. /\ d \in Seq(SentFrames(ids)) /\ e \in Seq(SeenFrames(ids))
      /\ q \in Seq(WireFrames(ids))
  BY DEF Session, Typed
<1>2. Append(q, x) \in Seq(WireFrames(ids))
  BY <1>1, AppendProperties
<1> QED BY <1>1, <1>2, FlowType, QueueFlow

LEMMA Reads ==
  ASSUME NEW ids, NEW d, NEW e, NEW q, NEW t, NEW h, NEW n,
         Session(ids, d, e, q, t, h, n), NEW p \in Peers,
         d # <<>>, Head(d).peer = p
  PROVE  LET f == Flow(p, Tail(d), e, q)
             g == Flow(p, d, e, q)
         IN f \in Flows /\ InMore(f, g, Head(d).cmd) /\ SameOut(f, g)
<1>1. /\ d \in Seq(SentFrames(ids)) /\ e \in Seq(SeenFrames(ids))
      /\ q \in Seq(WireFrames(ids))
  BY DEF Session, Typed
<1>2. Tail(d) \in Seq(SentFrames(ids))
  BY <1>1, ReadFlow
<1> QED BY <1>1, <1>2, FlowType, ReadFlow

LEMMA Answers ==
  ASSUME NEW ids, NEW d, NEW e, NEW q, NEW t, NEW h, NEW n,
         Session(ids, d, e, q, t, h, n), NEW p \in Peers,
         d # <<>>, Head(d).peer = p,
         NEW x \in WireFrames(ids), x.remote = p
  PROVE  LET f == Flow(p, d, e, q)
             g == Flow(p, Tail(d), e, Append(q, x))
         IN g \in Flows /\ InMore(g, f, Head(d).cmd) /\ OutMore(f, g, x.cmd, x.more)
<1>1. /\ d \in Seq(SentFrames(ids)) /\ e \in Seq(SeenFrames(ids))
      /\ q \in Seq(WireFrames(ids))
  BY DEF Session, Typed
<1>2. Tail(d) \in Seq(SentFrames(ids)) /\ Append(q, x) \in Seq(WireFrames(ids))
  BY <1>1, ReadFlow, AppendProperties
<1> DEFINE f == Flow(p, d, e, q)
           g == Flow(p, Tail(d), e, Append(q, x))
           k == Flow(p, Tail(d), e, q)
<1>3. InMore(k, f, Head(d).cmd) /\ SameOut(k, f)
  BY <1>1, ReadFlow
<1>4. OutMore(k, g, x.cmd, x.more) /\ SameIn(k, g)
  BY <1>1, <1>2, QueueFlow
<1>5. g \in Flows
  BY <1>1, <1>2, FlowType
<1> HIDE DEF f, g, k
<1>6. InMore(g, f, Head(d).cmd) /\ OutMore(f, g, x.cmd, x.more)
  BY <1>3, <1>4 DEF InMore, OutMore, SameIn, SameOut
<1> QED BY <1>5, <1>6 DEF f, g

-----------------------------------------------------------------------------
(* Releasing a frame *)

\* Only the reading differs.
Alike(t, u) ==
  \A i \in Ids : /\ u[i].kind = t[i].kind /\ u[i].st = t[i].st
                 /\ u[i].peer = t[i].peer /\ u[i].q = t[i].q /\ u[i].ack = t[i].ack

LEMMA AlikeSession ==
  ASSUME NEW ids, NEW d, NEW e, NEW q, NEW t, NEW h, NEW n,
         Session(ids, d, e, q, t, h, n),
         NEW u \in [Ids -> Service], Alike(t, u)
  PROVE  Session(ids, d, e, q, u, h, n)
<1>1. Typed(ids, d, e, q, u, h, n)
  BY DEF Session, Typed, Alike, Fit, Alive, Young
<1>2. ASSUME NEW p \in Peers
      PROVE  StreamOK(Flow(p, d, e, q), h[p], ids[p], At(u, ids[p]))
  <2> DEFINE f == Flow(p, d, e, q)
             r == h[p]
             o == ids[p]
             x == At(t, o)
             y == At(u, o)
  <2>1. o \in Ids \cup {0} /\ StreamOK(f, r, o, x)
    BY Stream
  <2>2. /\ y.kind = x.kind /\ y.st = x.st /\ y.q = x.q /\ y.ack = x.ack
    BY <2>1 DEF Alike, At
  <2> HIDE DEF f, r, o, x, y
  <2>3. AskingOK(f, r, o, y)
    BY <2>1, <2>2 DEF StreamOK, AskingOK, Alive, Young
  <2>4. OpenOK(f, r, o, y)
    BY <2>1, <2>2 DEF StreamOK, OpenOK
  <2>5. ServiceOK(f, r, y)
    BY <2>1, <2>2 DEF StreamOK, ServiceOK, Alive, Young
  <2> QED BY <2>3, <2>4, <2>5 DEF StreamOK, f, r, o, y
<1> QED BY <1>1, <1>2 DEF Session

LEMMA ResumeAlike ==
  ASSUME NEW t \in [Ids -> Service]
  PROVE  Resume(t) \in [Ids -> Service] /\ Alike(t, Resume(t))
<1>1. \A i \in Ids : t[i] \in Service
  OBVIOUS
<1>2. \A r \in Service : [r EXCEPT !.rd = TRUE] \in Service
  BY DEF Service
<1> QED BY <1>1, <1>2 DEF Alike, Resume, Service

\* The host is told of a connection, or of its failure.
LEMMA TellSession ==
  ASSUME NEW ids, NEW d, NEW e, NEW q, NEW t, NEW h, NEW n,
         Session(ids, d, e, q, t, h, n),
         NEW i \in Ids, t[i].st \in {"notify", "error"}, NEW f \in Frames
  PROVE  Session(ids, d, e, Append(q, GrantHeader(t, i, f)),
                 [t EXCEPT ![i] = Granted(@)], h, n)
<1> DEFINE p == t[i].peer
           x == t[i]
           y == Granted(x)
           m == GrantHeader(t, i, f)
<1>1. /\ t \in [Ids -> Service] /\ Fit(x) /\ p \in Peers
      /\ Young(x) /\ Alive(x)
  BY DEF Session, Typed, Fit, Alive, Young
<1>2. ids[p] = i /\ i # 0 /\ At(t, ids[p]) = x
  BY <1>1, Owner DEF Session
<1>3. m \in WireFrames(ids) /\ m.remote = p
  <2>1. m \in WireFrame
    BY <1>1, GrantHeaderType DEF Session, Typed
  <2> QED BY <1>1, <1>2, <2>1 DEF WireFrames, GrantHeader, Header, Named
<1>4. Fit(y) /\ y.peer \in {0, p}
  <2>1. y \in Service
    BY <1>1, GrantedType DEF Fit
  <2> QED BY <1>1, <2>1, FS_EmptySet DEF Granted, Freed, Unused, Fit, Alive, Young
<1>5. [t EXCEPT ![i] = Granted(@)] = [t EXCEPT ![i] = y]
  BY <1>1
<1>7. StreamOK(Flow(p, d, e, Append(q, m)), h[p], ids[p], y)
  <2> DEFINE g == Flow(p, d, e, q)
             k == Flow(p, d, e, Append(q, m))
             r == h[p]
             o == ids[p]
  <2>1. /\ StreamOK(g, r, o, x) /\ g \in Flows
    BY <1>1, <1>2, Stream
  <2>2. k \in Flows /\ OutMore(g, k, m.cmd, m.more) /\ SameIn(g, k)
    BY <1>1, <1>3, Queues
  <2>3. o # 0 /\ Fit(x) /\ x.st \in {"notify", "error"}
    BY <1>1, <1>2
  <2>4. /\ m.more = FALSE
        /\ m.cmd = IF x.st = "notify" THEN "OKAY" ELSE "CLSE"
    BY DEF GrantHeader, Header
  <2> HIDE DEF g, k, r, o, x, m
  <2>5. ServiceOK(k, r, y)
    BY <2>1, <2>2, <2>3, <2>4 DEF StreamOK, AskingOK, ServiceOK, Flows, OutMore, SameIn,
       Mark, Fit, Asking, Alive, Young, Granted, Freed, Unused
  <2>6. AskingOK(k, r, o, y)
    BY <2>1, <2>2, <2>3, <2>4 DEF StreamOK, AskingOK, ServiceOK, Flows, OutMore, SameIn,
       Mark, Fit, Asking, Alive, Young, Granted, Freed, Unused
  <2>7. OpenOK(k, r, o, y)
    BY <2>1, <2>3 DEF StreamOK, ServiceOK, OpenOK, Asking, Young
  <2> QED BY <2>5, <2>6, <2>7 DEF StreamOK, k, r, o
<1>8. m.cmd # "WRTE"
  BY DEF GrantHeader, Header
<1> HIDE DEF p, x, y, m
<1>9. Session(ids, d, e, Append(q, m), [t EXCEPT ![ids[p]] = y], h, n)
  BY <1>1, <1>2, <1>3, <1>4, <1>7, <1>8, SendMove
<1> QED BY <1>2, <1>5, <1>9 DEF m

\* Releasing a frame changes the readers, and tells what was not told yet.
LEMMA ReleaseSession ==
  ASSUME NEW ids, NEW d, NEW e, NEW q, NEW t, NEW h, NEW n,
         Session(ids, d, e, q, t, h, n),
         NEW f \in Frames, Release(f, t, q), conn = "up"
  PROVE  Session(ids, d, e, wq', svc', h, n)
<1>1. t \in [Ids -> Service]
  BY DEF Session, Typed
<1>2. Session(ids, d, e, q, Resume(t), h, n)
  BY <1>1, ResumeAlike, AlikeSession
<1>3. CASE ReleaseQuietly(f, t, q)
  BY <1>3 DEF ReleaseQuietly
<1>4. ~ReleaseAborts(f, t, q)
  BY DEF ReleaseAborts, KickAborts
<1>5. CASE ReleaseAndResume(f, t, q)
  BY <1>2, <1>5 DEF ReleaseAndResume
<1>6. CASE ReleaseAndGrant(f, t, q)
  <2>1. PICK i \in Newest(NeedFrame(t)) :
          /\ svc' = [Resume(t) EXCEPT ![i] = Granted(@)]
          /\ wq' = Append(q, GrantHeader(t, i, f))
    BY <1>6 DEF ReleaseAndGrant
  <2>2. i \in Ids /\ t[i].st \in {"notify", "error"}
    BY <2>1 DEF Newest, NeedFrame
  <2>3. Resume(t)[i] = t[i]
    BY <2>2 DEF Resume, MayRead
  <2>4. GrantHeader(Resume(t), i, f) = GrantHeader(t, i, f)
    BY <2>3 DEF GrantHeader
  <2> QED BY <1>2, <2>1, <2>2, <2>3, <2>4, TellSession
<1> QED BY <1>3, <1>4, <1>5, <1>6 DEF Release
-----------------------------------------------------------------------------
(* What a step makes of the stream: f and g count its frames before and      *)
(* after, r is the host's end, x and y the service before and after          *)

\* A service that is gone: the host hears of it or closed the stream itself.
LEMMA GoneOK ==
  ASSUME NEW f \in Flows, NEW r \in HostStream, NEW o, NEW x,
         StreamOK(f, r, o, x), o # 0, ~Alive(x)
  PROVE  f.ends > 0 \/ r.st = "closed"
BY DEF StreamOK, AskingOK, OpenOK, Alive, Flows, HostStream, Asking

LEMMA EndedOK ==
  ASSUME NEW f \in Flows, NEW g \in Flows, NEW r \in HostStream, NEW o, NEW x,
         StreamOK(f, r, o, x), o # 0, Fit(x),
         NEW y, ~Alive(y), IsFiniteSet(y.q), y.q \subseteq x.q, y.kind \in {x.kind, "sync"},
         g.opens = f.opens, g.writes <= f.writes, g.acks <= f.acks,
         g.closes <= f.closes, g.oks = f.oks, g.data = f.data, g.more = f.more,
         g.ends >= f.ends, g.ends > 0 \/ r.st = "closed"
  PROVE  StreamOK(g, r, o, y)
<1>1. /\ Cardinality(y.q) <= Cardinality(x.q)
      /\ Cardinality(y.q) \in Nat /\ Cardinality(x.q) \in Nat
  BY FS_Subset, FS_CardinalityType DEF Fit
<1>2. AskingOK(g, r, o, y)
  <2>1. f.opens = 0
    BY DEF StreamOK, AskingOK, Flows
  <2>2. x.q = {} => y.q = {}
    OBVIOUS
  <2> QED BY <2>1, <2>2 DEF StreamOK, AskingOK, Flows, Asking, HostStream
<1>3. OpenOK(g, r, o, y)
  BY <1>1 DEF StreamOK, OpenOK, Flows
<1>4. ServiceOK(g, r, y)
  BY DEF StreamOK, ServiceOK, Flows, Alive, Young
<1> QED BY <1>2, <1>3, <1>4 DEF StreamOK

\* The file service answers a WRTE, perhaps with data behind.
LEMMA WriteAnsweredOK ==
  ASSUME NEW f \in Flows, NEW g \in Flows, NEW r \in HostStream, NEW o, NEW x,
         StreamOK(f, r, o, x), Fit(x), x.st = "open", x.kind = "sync",
         NEW more \in BOOLEAN,
         InMore(g, f, "WRTE"), OutMore(f, g, "OKAY", more)
  PROVE  StreamOK(g, r, o, x)
<1>1. /\ f.opens = g.opens /\ f.writes = g.writes + 1 /\ f.acks = g.acks
      /\ f.closes = g.closes /\ g.oks = f.oks + 1 /\ g.data = f.data
      /\ g.ends = f.ends /\ g.more \in {f.more, f.more + 1}
  BY DEF InMore, OutMore, Mark, Flows
<1>2. Cardinality(x.q) \in Nat
  BY FS_CardinalityType DEF Fit
<1>3. r.st \in {"open", "closed"} /\ o # 0
  BY <1>1 DEF StreamOK, AskingOK, Flows
<1>4. AskingOK(g, r, o, x)
  BY <1>1, <1>3 DEF StreamOK, AskingOK, Flows, Asking, HostStream
<1>5. OpenOK(g, r, o, x)
  BY <1>1, <1>2 DEF StreamOK, OpenOK, Flows
<1>6. ServiceOK(g, r, x)
  BY <1>1, <1>3 DEF StreamOK, ServiceOK, Flows, Alive, Young, Asking
<1> QED BY <1>4, <1>5, <1>6 DEF StreamOK

\* A stream keeps the frame until it is written.
LEMMA WriteTakenOK ==
  ASSUME NEW f \in Flows, NEW g \in Flows, NEW r \in HostStream, NEW o, NEW x,
         StreamOK(f, r, o, x), Fit(x), x.st = "open",
         NEW b, b \notin x.q,
         InMore(g, f, "WRTE"), SameOut(f, g)
  PROVE  StreamOK(g, r, o, [x EXCEPT !.q = @ \cup {b}])
<1> DEFINE y == [x EXCEPT !.q = @ \cup {b}]
<1>1. /\ f.opens = g.opens /\ f.writes = g.writes + 1 /\ f.acks = g.acks
      /\ f.closes = g.closes /\ g.oks = f.oks /\ g.data = f.data
      /\ g.ends = f.ends /\ g.more = f.more
  BY DEF InMore, SameOut, Mark, Flows
<1>2. /\ y.q = x.q \cup {b} /\ y.st = x.st /\ y.kind = x.kind /\ y.ack = x.ack
  BY DEF Fit, Service
<1>3. /\ Cardinality(x.q) \in Nat
      /\ Cardinality(y.q) = Cardinality(x.q) + 1
  <2>1. IsFiniteSet(x.q)
    BY DEF Fit
  <2>2. Cardinality(x.q \cup {b}) = Cardinality(x.q) + 1
    BY <2>1, FS_AddElement
  <2> QED BY <1>2, <2>1, <2>2, FS_CardinalityType
<1> HIDE DEF y
<1>4. r.st \in {"open", "closed"} /\ o # 0
  BY <1>1 DEF StreamOK, AskingOK, Flows
<1>5. AskingOK(g, r, o, y)
  BY <1>1, <1>4 DEF StreamOK, AskingOK, Flows, Asking, HostStream
<1>6. OpenOK(g, r, o, y)
  BY <1>1, <1>2, <1>3 DEF StreamOK, OpenOK, Flows
<1>7. ServiceOK(g, r, y)
  BY <1>1, <1>2, <1>4 DEF StreamOK, ServiceOK, Flows, Alive, Young, Asking
<1> QED BY <1>5, <1>6, <1>7 DEF StreamOK, y

\* libuv is done with the frame: it becomes the answer.
LEMMA WrittenOK ==
  ASSUME NEW f \in Flows, NEW g \in Flows, NEW r \in HostStream, NEW o, NEW x,
         StreamOK(f, r, o, x), Fit(x), o # 0, NEW b \in x.q,
         SameIn(f, g), OutMore(f, g, "OKAY", FALSE)
  PROVE  StreamOK(g, r, o, [x EXCEPT !.q = @ \ {b}])
<1> DEFINE y == [x EXCEPT !.q = @ \ {b}]
<1>1. /\ f.opens = g.opens /\ f.writes = g.writes /\ f.acks = g.acks
      /\ f.closes = g.closes /\ g.oks = f.oks + 1 /\ g.data = f.data
      /\ g.ends = f.ends /\ g.more = f.more
  BY DEF SameIn, OutMore, Mark, Flows
<1>2. /\ y.q = x.q \ {b} /\ y.st = x.st /\ y.kind = x.kind /\ y.ack = x.ack
  BY DEF Fit, Service
<1>3. /\ Cardinality(x.q) \in Nat /\ Cardinality(y.q) \in Nat
      /\ Cardinality(x.q) = Cardinality(y.q) + 1
  <2>1. IsFiniteSet(x.q) /\ IsFiniteSet(y.q)
    BY <1>2, FS_Subset DEF Fit
  <2>2. Cardinality(y.q) = Cardinality(x.q) - 1
    BY <1>2, <2>1, FS_RemoveElement
  <2> QED BY <2>1, <2>2, FS_CardinalityType
<1> HIDE DEF y
<1>4. r.st \in {"open", "closed"} /\ ~Young(x)
  BY DEF StreamOK, AskingOK, HostStream, Asking, Fit
<1>5. AskingOK(g, r, o, y)
  BY <1>1, <1>4 DEF StreamOK, AskingOK, Flows, Asking, HostStream
<1>6. OpenOK(g, r, o, y)
  BY <1>1, <1>2, <1>3 DEF StreamOK, OpenOK, Flows
<1>7. ServiceOK(g, r, y)
  BY <1>1, <1>2, <1>4 DEF StreamOK, ServiceOK, Flows, Alive, Young, Asking
<1> QED BY <1>5, <1>6, <1>7 DEF StreamOK, y

\* The file service answers an acknowledgement with data.
LEMMA AckAnsweredOK ==
  ASSUME NEW f \in Flows, NEW g \in Flows, NEW r \in HostStream, NEW o, NEW x,
         StreamOK(f, r, o, x), Fit(x), x.st = "open", x.kind = "sync",
         InMore(g, f, "OKAY"), OutMore(f, g, "WRTE", FALSE) \/ SameOut(f, g)
  PROVE  StreamOK(g, r, o, x)
<1>1. /\ f.opens = g.opens /\ f.writes = g.writes /\ f.acks = g.acks + 1
      /\ f.closes = g.closes /\ g.oks = f.oks /\ g.data \in {f.data, f.data + 1}
      /\ g.ends = f.ends /\ g.more = f.more
  BY DEF InMore, OutMore, SameOut, Mark, Flows
<1>2. Cardinality(x.q) \in Nat
  BY FS_CardinalityType DEF Fit
<1>3. r.st \in {"open", "closed"} /\ o # 0
  BY <1>1 DEF StreamOK, AskingOK, Flows
<1>4. AskingOK(g, r, o, x)
  BY <1>1, <1>3 DEF StreamOK, AskingOK, Flows, Asking, HostStream
<1>5. OpenOK(g, r, o, x)
  BY <1>1, <1>2 DEF StreamOK, OpenOK, Flows
<1>6. ServiceOK(g, r, x)
  BY <1>1, <1>3 DEF StreamOK, ServiceOK, Flows, Alive, Young, Asking
<1> QED BY <1>4, <1>5, <1>6 DEF StreamOK

\* A stream waits no longer.
LEMMA AckedOK ==
  ASSUME NEW f \in Flows, NEW g \in Flows, NEW r \in HostStream, NEW o, NEW x,
         StreamOK(f, r, o, x), Fit(x), x.st = "open", x.kind # "sync",
         InMore(g, f, "OKAY"), SameOut(f, g)
  PROVE  StreamOK(g, r, o, Acked(x))
<1> DEFINE y == Acked(x)
<1>1. /\ f.opens = g.opens /\ f.writes = g.writes /\ f.acks = g.acks + 1
      /\ f.closes = g.closes /\ g.oks = f.oks /\ g.data = f.data
      /\ g.ends = f.ends /\ g.more = f.more
  BY DEF InMore, SameOut, Mark, Flows
<1>2. y.q = x.q /\ y.st = x.st /\ y.kind = x.kind
  BY DEF Fit, Service, Acked
<1>3. x.ack \in BOOLEAN /\ (r.st = "open" => x.ack /\ ~y.ack)
  <2>1. x.ack \in BOOLEAN
    BY DEF Fit, Service
  <2>2. r.st = "open" => x.ack
    BY <1>1, <2>1 DEF StreamOK, ServiceOK, Flows
  <2>3. x.ack => ~y.ack
    BY DEF Acked, Fit, Service
  <2> QED BY <2>1, <2>2, <2>3
<1> HIDE DEF y
<1>4. r.st \in {"open", "closed"} /\ o # 0
  BY <1>1 DEF StreamOK, AskingOK, Flows
<1>5. AskingOK(g, r, o, y)
  BY <1>1, <1>4 DEF StreamOK, AskingOK, Flows, Asking, HostStream
<1>6. OpenOK(g, r, o, y)
  BY <1>1, <1>2 DEF StreamOK, OpenOK, Flows
<1>7. ServiceOK(g, r, y)
  BY <1>1, <1>2, <1>3, <1>4 DEF StreamOK, ServiceOK, Flows, Alive, Young, Asking
<1> QED BY <1>5, <1>6, <1>7 DEF StreamOK, y

\* A stream sends data, and waits for the acknowledgement.
LEMMA DataOK ==
  ASSUME NEW f \in Flows, NEW g \in Flows, NEW r \in HostStream, NEW o, NEW x,
         StreamOK(f, r, o, x), Fit(x), x.st = "open", ~x.ack, o # 0,
         SameIn(f, g), OutMore(f, g, "WRTE", FALSE)
  PROVE  StreamOK(g, r, o, [x EXCEPT !.rd = FALSE, !.ack = TRUE])
<1> DEFINE y == [x EXCEPT !.rd = FALSE, !.ack = TRUE]
<1>1. /\ f.opens = g.opens /\ f.writes = g.writes /\ f.acks = g.acks
      /\ f.closes = g.closes /\ g.oks = f.oks /\ g.data = f.data + 1
      /\ g.ends = f.ends /\ g.more = f.more
  BY DEF SameIn, OutMore, Mark, Flows
<1>2. y.q = x.q /\ y.st = x.st /\ y.kind = x.kind /\ y.ack = TRUE
  BY DEF Fit, Service
<1>3. x.ack = FALSE
  BY DEF Fit, Service
<1> HIDE DEF y
<1>5. AskingOK(g, r, o, y)
  BY <1>1, <1>2 DEF StreamOK, AskingOK, Flows, Asking, HostStream, Alive
<1>6. OpenOK(g, r, o, y)
  BY <1>1, <1>2 DEF StreamOK, OpenOK, Flows
<1>7. ServiceOK(g, r, y)
  BY <1>1, <1>2, <1>3 DEF StreamOK, ServiceOK, Flows, Alive, Young, Asking
<1> QED BY <1>5, <1>6, <1>7 DEF StreamOK, y

\* An OPEN is refused, or followed.
LEMMA RefusedOK ==
  ASSUME NEW f \in Flows, NEW g \in Flows, NEW r \in HostStream, NEW o, NEW x,
         StreamOK(f, r, o, x), o = 0 => x = Unused,
         InMore(g, f, "OPEN"), OutMore(f, g, "CLSE", FALSE)
  PROVE  StreamOK(g, r, o, x)
<1>1. /\ f.opens = g.opens + 1 /\ f.writes = g.writes /\ f.acks = g.acks
      /\ f.closes = g.closes /\ g.oks = f.oks /\ g.data = f.data
      /\ g.ends = f.ends + 1 /\ g.more = f.more
  BY DEF InMore, OutMore, Mark, Flows
<1>2. /\ f.opens = 1 /\ g.opens = 0 /\ Asking(r) /\ o = 0 /\ x = Unused
  BY <1>1 DEF StreamOK, AskingOK, Flows
<1>3. x.st = "unused" /\ x.q = {}
  BY <1>2 DEF Unused
<1>5. AskingOK(g, r, o, x)
  BY <1>1, <1>2, <1>3 DEF StreamOK, AskingOK, Flows, Asking, HostStream
<1>6. OpenOK(g, r, o, x)
  BY <1>2 DEF OpenOK, Asking
<1>7. ServiceOK(g, r, x)
  BY <1>1, <1>2, <1>3 DEF StreamOK, ServiceOK, Flows, Alive, Young, Asking
<1> QED BY <1>5, <1>6, <1>7 DEF StreamOK

LEMMA OpenedOK ==
  ASSUME NEW f \in Flows, NEW g \in Flows, NEW r \in HostStream, NEW o, NEW x,
         StreamOK(f, r, o, x),
         NEW i, i # 0, NEW p, NEW kind,
         InMore(g, f, "OPEN"),
         IF kind = "tcp" THEN SameOut(f, g) ELSE OutMore(f, g, "OKAY", FALSE)
  PROVE  StreamOK(g, r, i, Opened(kind, p))
<1> DEFINE y == Opened(kind, p)
<1>1. /\ f.opens = g.opens + 1 /\ f.writes = g.writes /\ f.acks = g.acks
      /\ f.closes = g.closes /\ g.data = f.data
      /\ g.oks = f.oks + (IF kind = "tcp" THEN 0 ELSE 1)
      /\ g.ends = f.ends /\ g.more = f.more
  BY DEF InMore, OutMore, SameOut, Mark, Flows
<1>2. /\ f.opens = 1 /\ g.opens = 0 /\ Asking(r) /\ o = 0
      /\ f.writes + f.acks + f.closes + f.oks + f.data + f.more = 0
      /\ f.ends = 0
  BY <1>1 DEF StreamOK, AskingOK, Flows
<1>3. /\ f.writes = 0 /\ f.acks = 0 /\ f.closes = 0 /\ f.oks = 0 /\ f.data = 0
      /\ f.more = 0
  BY <1>2 DEF Flows
<1>4. /\ y.q = {} /\ y.kind = kind /\ y.ack = FALSE
      /\ y.st = IF kind = "tcp" THEN "connecting" ELSE "open"
  BY DEF Opened, Unused
<1> HIDE DEF y
<1>5. AskingOK(g, r, i, y)
  BY <1>1, <1>2, <1>3, <1>4 DEF StreamOK, AskingOK, Flows, Asking, HostStream, Alive, Young
<1>6. OpenOK(g, r, i, y)
  BY <1>2 DEF OpenOK, Asking
<1>7. ServiceOK(g, r, y)
  BY <1>1, <1>2, <1>3, <1>4 DEF ServiceOK, Flows, Alive, Young, Asking
<1> QED BY <1>5, <1>6, <1>7 DEF StreamOK, y
-----------------------------------------------------------------------------
(* The end of a service *)

LEMMA FreedEnds ==
  ASSUME NEW r, Fit(r)
  PROVE  /\ Fit(Freed(r)) /\ ~Alive(Freed(r)) /\ Freed(r).peer = 0
         /\ Freed(r).q = {} /\ Freed(r).kind = "sync"
<1>1. Freed(r) \in Service
  BY FreedType DEF Fit
<1> QED BY <1>1, FS_EmptySet DEF Fit, Freed, Unused, Alive, Young

LEMMA OnCloseEnds ==
  ASSUME NEW r, Fit(r), Alive(r)
  PROVE  LET y == OnClose(r)
         IN /\ Fit(y) /\ ~Alive(y) /\ y.peer \in {0, r.peer}
            /\ y.q \subseteq r.q /\ y.kind \in {r.kind, "sync"}
<1>1. OnClose(r) \in Service /\ r \in Service /\ r.peer \in Peers
  BY OnCloseType DEF Fit
<1>2. CASE OnClose(r) = Freed(r)
  BY <1>2, FreedEnds
<1>3. CASE OnClose(r) # Freed(r)
  <2>1. OnClose(r) = [r EXCEPT !.st = "closing", !.rd = FALSE]
    BY <1>3 DEF OnClose
  <2>2. /\ OnClose(r).st = "closing" /\ OnClose(r).q = r.q
        /\ OnClose(r).peer = r.peer /\ OnClose(r).kind = r.kind
    BY <1>1, <2>1 DEF Service
  <2> QED BY <1>1, <2>2 DEF Fit, Alive, Young
<1> QED BY <1>2, <1>3

\* The service of stream p ends, or has ended, and the host is told so.
LEMMA EndMove ==
  ASSUME NEW ids, NEW d, NEW e, NEW q, NEW t, NEW h, NEW n,
         Session(ids, d, e, q, t, h, n), NEW p \in Peers, ids[p] # 0,
         NEW d2, d2 = d \/ (d # <<>> /\ d2 = Tail(d) /\ Head(d).peer = p),
         NEW x \in WireFrames(ids), x.remote = p, x.cmd = "CLSE", x.more = FALSE,
         NEW y, Fit(y), ~Alive(y), y.peer \in {0, p},
         y.q \subseteq t[ids[p]].q, y.kind \in {t[ids[p]].kind, "sync"}
  PROVE  Session(ids, d2, e, Append(q, x), [t EXCEPT ![ids[p]] = y], h, n)
<1> DEFINE f == Flow(p, d, e, q)
           g == Flow(p, d2, e, Append(q, x))
           r == h[p]
           o == ids[p]
           z == t[ids[p]]
<1>1. /\ StreamOK(f, r, o, z) /\ f \in Flows /\ r \in HostStream /\ Fit(z)
      /\ o # 0
  BY Stream
<1>2. /\ g \in Flows
      /\ g.oks = f.oks /\ g.data = f.data /\ g.more = f.more /\ g.ends = f.ends + 1
      /\ g.writes <= f.writes /\ g.acks <= f.acks /\ g.closes <= f.closes
      /\ g.opens <= f.opens
  <2>1. CASE d2 = d
    <3>1. g \in Flows /\ OutMore(f, g, x.cmd, x.more) /\ SameIn(f, g)
      BY <2>1, Queues
    <3> HIDE DEF f, g
    <3> QED BY <1>1, <3>1 DEF OutMore, SameIn, Mark, Flows
  <2>2. CASE d # <<>> /\ d2 = Tail(d) /\ Head(d).peer = p
    <3>1. g \in Flows /\ InMore(g, f, Head(d).cmd) /\ OutMore(f, g, x.cmd, x.more)
      BY <2>2, Answers
    <3> HIDE DEF f, g
    <3>2. g.oks = f.oks /\ g.data = f.data /\ g.more = f.more /\ g.ends = f.ends + 1
      BY <1>1, <3>1 DEF OutMore, Mark, Flows
    <3>4. /\ g.writes <= f.writes /\ g.acks <= f.acks /\ g.closes <= f.closes
          /\ g.opens <= f.opens
      BY <1>1, <3>1, InLess
    <3> QED BY <3>1, <3>2, <3>4
  <2> QED BY <2>1, <2>2
<1> HIDE DEF f, g, r, o, z
<1>3. f.opens = 0 /\ g.opens = 0
  BY <1>1, <1>2 DEF StreamOK, AskingOK, Flows
<1>4. g.ends >= f.ends /\ g.ends > 0
  BY <1>1, <1>2 DEF Flows
<1>5. IsFiniteSet(y.q) /\ y.q \subseteq z.q /\ y.kind \in {z.kind, "sync"}
  BY DEF Fit, z
<1>6. StreamOK(g, r, o, y)
  BY <1>1, <1>2, <1>3, <1>4, <1>5, EndedOK
<1> QED BY <1>6, SendMove DEF g, r, o

\* It ends, or has ended, and the host knows or is told already.
LEMMA FadeMove ==
  ASSUME NEW ids, NEW d, NEW e, NEW q, NEW t, NEW h, NEW n,
         Session(ids, d, e, q, t, h, n), NEW p \in Peers, ids[p] # 0,
         NEW d2, d2 = d \/ (d # <<>> /\ d2 = Tail(d) /\ Head(d).peer = p),
         h[p].st = "closed" \/ ~Alive(t[ids[p]]),
         NEW y, Fit(y), ~Alive(y), y.peer \in {0, p},
         y.q \subseteq t[ids[p]].q, y.kind \in {t[ids[p]].kind, "sync"}
  PROVE  Session(ids, d2, e, q, [t EXCEPT ![ids[p]] = y], h, n)
<1> DEFINE f == Flow(p, d, e, q)
           g == Flow(p, d2, e, q)
           r == h[p]
           o == ids[p]
           z == t[ids[p]]
<1>1. /\ StreamOK(f, r, o, z) /\ f \in Flows /\ r \in HostStream /\ Fit(z)
      /\ o # 0
  BY Stream
<1>2. /\ g \in Flows
      /\ g.oks = f.oks /\ g.data = f.data /\ g.more = f.more /\ g.ends = f.ends
      /\ g.writes <= f.writes /\ g.acks <= f.acks /\ g.closes <= f.closes
      /\ g.opens <= f.opens
  <2>1. CASE d2 = d
    BY <1>1, <2>1 DEF Flows
  <2>2. CASE d # <<>> /\ d2 = Tail(d) /\ Head(d).peer = p
    <3>1. g \in Flows /\ InMore(g, f, Head(d).cmd) /\ SameOut(g, f)
      BY <2>2, Reads
    <3> HIDE DEF f, g
    <3> QED BY <1>1, <3>1, InLess DEF SameOut
  <2> QED BY <2>1, <2>2
<1> HIDE DEF f, g, r, o, z
<1>3. f.opens = 0 /\ g.opens = 0
  BY <1>1, <1>2 DEF StreamOK, AskingOK, Flows
<1>4. g.ends >= f.ends /\ (g.ends > 0 \/ r.st = "closed")
  BY <1>1, <1>2, GoneOK DEF Flows, r, z
<1>5. IsFiniteSet(y.q) /\ y.q \subseteq z.q /\ y.kind \in {z.kind, "sync"}
  BY DEF Fit, z
<1>6. StreamOK(g, r, o, y)
  BY <1>1, <1>2, <1>3, <1>4, <1>5, EndedOK
<1> QED BY <1>6, SilentMove DEF g, r, o

-----------------------------------------------------------------------------
(* The device processes a frame that names a stream *)

\* Such a frame is for a stream that the host has, or had, open.
LEMMA NamedFrame ==
  ASSUME NEW ids, Here(ids), toDev # <<>>,
         Head(toDev).cmd \in {"WRTE", "OKAY", "CLSE"}
  PROVE  LET p == Head(toDev).peer
             i == Head(toDev).id
         IN /\ p \in Peers /\ i \in Ids /\ i # 0 /\ ids[p] = i
            /\ Fit(svc[i]) /\ svc[i].peer \in {0, p}
            /\ hs[p].st \in {"open", "closed"}
            /\ Head(toDev).cmd = "CLSE" => hs[p].st = "closed"
            /\ Alive(svc[i]) <=> svc[i].st = "open"
<1> DEFINE p == Head(toDev).peer
           i == Head(toDev).id
           f == Flow(p, toDev, toHost, wq)
           k == Flow(p, Tail(toDev), toHost, wq)
           r == hs[p]
           x == svc[i]
<1>1. Session(ids, toDev, toHost, wq, svc, hs, next_service_id)
  BY DEF Here
<1>2. Head(toDev) \in SentFrames(ids)
  BY <1>1, ReadFlow DEF Session, Typed
<1>3. p \in Peers /\ i \in Ids /\ ids[p] = i
  BY <1>2 DEF SentFrames, Named
<1>4. i # 0
  BY <1>3 DEF Ids
<1>5. /\ StreamOK(f, r, i, x) /\ f \in Flows /\ r \in HostStream /\ Fit(x)
      /\ x.peer \in {0, p}
  BY <1>1, <1>3, <1>4, Stream
<1>6. k \in Flows /\ InMore(k, f, Head(toDev).cmd)
  BY <1>1, <1>3, Reads
<1> HIDE DEF p, i, f, k, r, x
<1>7. f.writes + f.acks > 0 \/ (f.closes > 0 /\ Head(toDev).cmd = "CLSE")
  BY <1>6 DEF InMore, Mark, Flows
<1>8. Head(toDev).cmd = "CLSE" => f.closes > 0
  BY <1>6 DEF InMore, Mark, Flows
<1>9. r.st \in {"open", "closed"} /\ (f.closes > 0 => r.st = "closed")
  BY <1>5, <1>7 DEF StreamOK, AskingOK
<1>10. Alive(x) <=> x.st = "open"
  BY <1>5, <1>9 DEF StreamOK, ServiceOK, Asking, Alive
<1> QED BY <1>3, <1>4, <1>5, <1>8, <1>9, <1>10 DEF p, i, r, x

\* It is found if it is still open.
LEMMA FindNamed ==
  ASSUME NEW i \in Ids, NEW p \in Peers, svc[i].peer \in {0, p}, Fit(svc[i]),
         Alive(svc[i]) <=> svc[i].st = "open", NEW k \in {0, p}
  PROVE  /\ \A j \in Find(svc, i, k) : j = i /\ svc[i].st = "open" /\ svc[i].peer = p
         /\ Find(svc, i, k) = {} => svc[i].st # "open"
<1> DEFINE S == {j \in Registered(svc) : IdOf(svc, j) = i /\ k \in {0, svc[j].peer}}
<1>1. \A j \in S : j = i /\ svc[i].st = "open" /\ svc[i].peer = p
  <2>1. i # 0 /\ 0 \notin Peers
    BY ServiceTableAssumption DEF Ids
  <2> QED BY <2>1 DEF Registered, IdOf, Alive, Young, Fit
<1>2. svc[i].st = "open" => S = {i}
  <2>1. svc[i].st = "open" => i \in S
    BY ServiceTableAssumption DEF Registered, IdOf, Fit
  <2> QED BY <1>1, <2>1
<1>3. i <= i
  BY IdsAreNat
<1>4. Find(svc, i, k) = Newest(S)
  BY DEF Find
<1> HIDE DEF S
<1>5. svc[i].st = "open" => Newest(S) # {}
  BY <1>2, <1>3 DEF Newest
<1>6. Newest(S) \subseteq S
  BY DEF Newest
<1> QED BY <1>1, <1>4, <1>5, <1>6
\* The state of the session is what follows, and the connection stays up.
LEMMA HereNext ==
  ASSUME NEW ids, NEW d, NEW e, NEW q, NEW t, NEW h, NEW n,
         Session(ids, d, e, q, t, h, n), conn' = "up",
         toDev' = d, toHost' = e, wq' = q, svc' = t, hs' = h, next_service_id' = n
  PROVE  Here(ids)'
BY DEF Here

\* What the processing of a frame leaves alone.
Processing ==
  /\ toDev # <<>> /\ toDev' = Tail(toDev)
  /\ UNCHANGED <<toHost, hs>>

LEMMA SendUp ==
  ASSUME conn = "up", NEW x, NEW q, SendFrame(x, q)
  PROVE  conn' = "up" /\ wq' = Append(q, x)
BY DEF SendFrame

LEMMA CloseFrame ==
  ASSUME NEW ids, NEW f \in Frames, NEW i \in Nat, NEW p \in Nat
  PROVE  /\ Header(f, "CLSE", i, p, FALSE) \in WireFrames(ids)
         /\ Header(f, "CLSE", i, p, FALSE).cmd = "CLSE"
         /\ Header(f, "CLSE", i, p, FALSE).remote = p
         /\ Header(f, "CLSE", i, p, FALSE).more = FALSE
<1>1. Header(f, "CLSE", i, p, FALSE) \in WireFrame
  BY HeaderType DEF Commands
<1> QED BY <1>1 DEF WireFrames, Header

LEMMA StreamFrame ==
  ASSUME NEW ids, NEW f \in Frames, NEW i \in Ids, NEW p \in Peers, ids[p] = i,
         NEW cmd \in {"OKAY", "WRTE"}, NEW more \in BOOLEAN, more => cmd = "OKAY"
  PROVE  /\ Header(f, cmd, i, p, more) \in WireFrames(ids)
         /\ Header(f, cmd, i, p, more).cmd = cmd
         /\ Header(f, cmd, i, p, more).remote = p
         /\ Header(f, cmd, i, p, more).more = more
<1>1. i \in Nat /\ p \in Nat
  BY IdsAreNat, ServiceTableAssumption
<1>2. Header(f, cmd, i, p, more) \in WireFrame
  BY <1>1, HeaderType DEF Commands
<1> QED BY <1>2 DEF WireFrames, Header, Named

LEMMA CurIsFrame ==
  ASSUME IInv, NEW f \in cur
  PROVE  f \in Frames /\ \A i \in Ids : f \notin svc[i].q
BY DEF IInv, TypeOK, SingleOwner, Apart

\* The service, open until now, is closed and the host told.
LEMMA FailsSession ==
  ASSUME NEW ids, Here(ids), NEW i \in Ids, NEW p \in Peers, ids[p] = i,
         svc[i].st = "open", svc[i].peer = p, NEW f \in Frames,
         Processing, Fails(i, f), Head(toDev).peer = p, UNCHANGED next_service_id
  PROVE  Here(ids)'
<1> DEFINE x == Header(f, "CLSE", i, p, FALSE)
           y == OnClose(svc[i])
<1>1. /\ Session(ids, toDev, toHost, wq, svc, hs, next_service_id) /\ conn = "up"
      /\ Fit(svc[i]) /\ svc \in [Ids -> Service]
  BY DEF Here, Session, Typed
<1>2. conn' = "up" /\ wq' = Append(wq, x) /\ svc' = [svc EXCEPT ![i] = y]
  <2>1. IdOf(svc, i) = i
    BY DEF IdOf
  <2> QED BY <1>1, <2>1, SendUp DEF Fails, CloseAndTell, CloseService
<1>3. /\ x \in WireFrames(ids) /\ x.remote = p /\ x.cmd = "CLSE" /\ x.more = FALSE
  <2>1. i \in Nat /\ p \in Nat
    BY IdsAreNat, ServiceTableAssumption
  <2>2. x \in WireFrames(ids)
    BY <2>1, CloseFrame
  <2> QED BY <2>2 DEF Header
<1>4. Fit(y) /\ ~Alive(y) /\ y.peer \in {0, p} /\ y.q \subseteq svc[i].q
      /\ y.kind \in {svc[i].kind, "sync"}
  BY <1>1, OnCloseEnds DEF Alive
<1>5. ids[p] # 0
  BY DEF Ids
<1> HIDE DEF x, y
<1>6. Session(ids, Tail(toDev), toHost, Append(wq, x), [svc EXCEPT ![i] = y], hs,
              next_service_id)
  BY <1>1, <1>3, <1>4, <1>5, EndMove DEF Processing
<1> QED BY <1>2, <1>6, HereNext DEF Processing

LEMMA UnanswerableSession ==
  ASSUME NEW ids, Here(ids), NEW i \in Ids, NEW p \in Peers, ids[p] = i,
         ~Alive(svc[i]), svc[i].peer \in {0, p}, NEW f \in Frames,
         Processing, Unanswerable(f, i, p), Head(toDev).peer = p,
         UNCHANGED next_service_id
  PROVE  Here(ids)'
<1> DEFINE x == Header(f, "CLSE", i, p, FALSE)
<1>1. /\ Session(ids, toDev, toHost, wq, svc, hs, next_service_id) /\ conn = "up"
      /\ Fit(svc[i]) /\ svc \in [Ids -> Service]
  BY DEF Here, Session, Typed
<1>2. conn' = "up" /\ wq' = Append(wq, x) /\ svc' = svc
  BY <1>1, SendUp DEF Unanswerable, Answer
<1>3. /\ x \in WireFrames(ids) /\ x.remote = p /\ x.cmd = "CLSE" /\ x.more = FALSE
  <2>1. i \in Nat /\ p \in Nat
    BY IdsAreNat, ServiceTableAssumption
  <2> QED BY <2>1, CloseFrame
<1>4. ids[p] # 0
  BY DEF Ids
<1> HIDE DEF x
<1>5. Session(ids, Tail(toDev), toHost, Append(wq, x), [svc EXCEPT ![i] = svc[i]], hs,
              next_service_id)
  BY <1>1, <1>3, <1>4, EndMove DEF Processing
<1>6. [svc EXCEPT ![i] = svc[i]] = svc
  BY <1>1
<1> QED BY <1>2, <1>5, <1>6, HereNext DEF Processing

\* A frame is given back once the services have become t.
LEMMA DropSession ==
  ASSUME NEW ids, conn = "up", NEW t, NEW f \in Frames, Processing, Drop(f, t),
         Session(ids, Tail(toDev), toHost, wq, t, hs, next_service_id'),
         conn' = conn
  PROVE  Here(ids)'
<1>1. Session(ids, Tail(toDev), toHost, wq', svc', hs, next_service_id')
  BY ReleaseSession DEF Drop
<1> QED BY <1>1, HereNext DEF Processing

LEMMA RecvClseSession ==
  ASSUME NEW ids, Here(ids), IInv, Processing, Head(toDev).cmd = "CLSE",
         RecvClse(Head(toDev).peer, Head(toDev).id)
  PROVE  Here(ids)'
<1> DEFINE p == Head(toDev).peer
           i == Head(toDev).id
<1>1. /\ p \in Peers /\ i \in Ids /\ i # 0 /\ ids[p] = i
      /\ Fit(svc[i]) /\ svc[i].peer \in {0, p} /\ hs[p].st = "closed"
      /\ Alive(svc[i]) <=> svc[i].st = "open"
  BY NamedFrame DEF Processing
<1>2. /\ Session(ids, toDev, toHost, wq, svc, hs, next_service_id) /\ conn = "up"
      /\ svc \in [Ids -> Service] /\ next_service_id' = next_service_id
  BY DEF Here, Session, Typed, RecvClse
<1>3. PICK f \in cur :
        \/ \E j \in Find(svc, i, p) : Drop(f, CloseService(svc, j))
        \/ Find(svc, i, p) = {} /\ Drop(f, svc)
  BY DEF RecvClse
<1>4. f \in Frames
  BY CurIsFrame
<1> HIDE DEF p, i
<1>5. CASE \E j \in Find(svc, i, p) : Drop(f, CloseService(svc, j))
  <2> DEFINE y == OnClose(svc[i])
  <2>1. svc[i].st = "open" /\ Drop(f, [svc EXCEPT ![i] = y])
    BY <1>1, <1>5, FindNamed DEF CloseService
  <2>2. Fit(y) /\ ~Alive(y) /\ y.peer \in {0, p} /\ y.q \subseteq svc[i].q
        /\ y.kind \in {svc[i].kind, "sync"}
    BY <1>1, <2>1, OnCloseEnds
  <2> HIDE DEF y
  <2>3. Session(ids, Tail(toDev), toHost, wq, [svc EXCEPT ![i] = y], hs, next_service_id)
    BY <1>1, <1>2, <2>2, FadeMove DEF Processing, p
  <2> QED BY <1>2, <1>4, <2>1, <2>3, DropSession DEF Drop
<1>6. CASE Find(svc, i, p) = {} /\ Drop(f, svc)
  <2>1. ~Alive(svc[i])
    BY <1>1, <1>6, FindNamed
  <2>2. Session(ids, Tail(toDev), toHost, wq, [svc EXCEPT ![i] = svc[i]], hs,
                next_service_id)
    BY <1>1, <1>2, <2>1, FadeMove DEF Processing, p
  <2>3. [svc EXCEPT ![i] = svc[i]] = svc
    BY <1>2
  <2> QED BY <1>2, <1>4, <1>6, <2>2, <2>3, DropSession DEF Drop
<1> QED BY <1>3, <1>5, <1>6

\* The answer in the frame that was read, the service staying as it is.
LEMMA AnswerSession ==
  ASSUME NEW ids, Here(ids), NEW i \in Ids, NEW p \in Peers, ids[p] = i,
         Processing, Head(toDev).peer = p, UNCHANGED next_service_id,
         NEW x \in WireFrames(ids), x.remote = p, Answer(x), svc' = svc,
         x.cmd = "WRTE" => hs[p].st # "opening", svc[i].peer \in {0, p},
         StreamOK(Flow(p, Tail(toDev), toHost, Append(wq, x)), hs[p], i, svc[i])
  PROVE  Here(ids)'
<1>1. /\ Session(ids, toDev, toHost, wq, svc, hs, next_service_id) /\ conn = "up"
      /\ Fit(svc[i]) /\ svc \in [Ids -> Service]
  BY DEF Here, Session, Typed
<1>2. conn' = "up" /\ wq' = Append(wq, x)
  BY <1>1, SendUp DEF Answer
<1>3. ids[p] # 0
  BY DEF Ids
<1>4. Session(ids, Tail(toDev), toHost, Append(wq, x), [svc EXCEPT ![i] = svc[i]], hs,
              next_service_id)
  BY <1>1, <1>3, SendMove DEF Processing
<1>5. [svc EXCEPT ![i] = svc[i]] = svc
  BY <1>1
<1> QED BY <1>2, <1>4, <1>5, HereNext DEF Processing

LEMMA WriteToServiceSession ==
  ASSUME NEW ids, Here(ids), IInv, Processing, Head(toDev).cmd = "WRTE",
         NEW i \in Ids, NEW p \in Peers, ids[p] = i, Head(toDev).peer = p,
         svc[i].st = "open", svc[i].peer = p, hs[p].st \in {"open", "closed"},
         NEW f \in cur, WriteToService(i, f), UNCHANGED next_service_id
  PROVE  Here(ids)'
<1> DEFINE g == Flow(p, toDev, toHost, wq)
<1>1. /\ Session(ids, toDev, toHost, wq, svc, hs, next_service_id) /\ conn = "up"
      /\ svc \in [Ids -> Service]
  BY DEF Here, Session, Typed
<1>2. f \in Frames /\ f \notin svc[i].q
  BY CurIsFrame
<1>3. ids[p] # 0 /\ toDev # <<>>
  BY DEF Ids, Processing
<1>4. /\ StreamOK(g, hs[p], i, svc[i]) /\ g \in Flows /\ hs[p] \in HostStream
      /\ Fit(svc[i])
  BY <1>1, <1>3, Stream
<1>5. CASE Fails(i, f)
  BY <1>2, <1>5, FailsSession
<1>6. CASE /\ svc[i].kind = "sync"
           /\ \E more \in BOOLEAN :
                /\ Answer(Header(f, "OKAY", i, svc[i].peer, more))
                /\ UNCHANGED svc
  <2>1. PICK more \in BOOLEAN : Answer(Header(f, "OKAY", i, p, more)) /\ svc' = svc
    BY <1>6
  <2> DEFINE x == Header(f, "OKAY", i, p, more)
             k == Flow(p, Tail(toDev), toHost, Append(wq, x))
  <2>2. x \in WireFrames(ids) /\ x.remote = p /\ x.cmd = "OKAY" /\ x.more = more
    BY <1>2, StreamFrame
  <2>3. Answer(x)
    BY <2>1
  <2> HIDE DEF x
  <2>4. k \in Flows /\ InMore(k, g, "WRTE") /\ OutMore(g, k, "OKAY", more)
    BY <1>1, <1>3, <2>2, Answers
  <2> HIDE DEF g, k
  <2>5. StreamOK(k, hs[p], i, svc[i])
    BY <1>4, <1>6, <2>4, WriteAnsweredOK
  <2> QED BY <2>1, <2>2, <2>3, <2>5, AnswerSession DEF k
<1>7. CASE svc' = [svc EXCEPT ![i].q = @ \cup {f}] /\ UNCHANGED <<conn, wq>>
  <2> DEFINE y == [svc[i] EXCEPT !.q = @ \cup {f}]
             k == Flow(p, Tail(toDev), toHost, wq)
  <2>1. svc' = [svc EXCEPT ![i] = y]
    BY <1>1, <1>7
  <2>2. k \in Flows /\ InMore(k, g, "WRTE") /\ SameOut(g, k)
    <3>1. k \in Flows /\ InMore(k, g, "WRTE") /\ SameOut(k, g)
      BY <1>1, <1>3, Reads
    <3> QED BY <3>1 DEF SameOut
  <2> HIDE DEF g, k
  <2>3. StreamOK(k, hs[p], i, y)
    BY <1>2, <1>4, <2>2, WriteTakenOK
  <2>4. Fit(y) /\ y.peer = p
    <3>1. /\ y.q = svc[i].q \cup {f} /\ y.st = "open" /\ y.peer = p
          /\ y \in Service
      BY <1>2, <1>4 DEF Fit, Service
    <3>2. IsFiniteSet(svc[i].q \cup {f})
      BY <1>4, FS_AddElement DEF Fit
    <3> QED BY <3>1, <3>2 DEF Fit, Young
  <2> HIDE DEF y
  <2>5. Session(ids, Tail(toDev), toHost, wq, [svc EXCEPT ![i] = y], hs, next_service_id)
    BY <1>1, <1>3, <2>3, <2>4, SilentMove DEF k, Processing
  <2> QED BY <1>1, <1>7, <2>1, <2>5, HereNext DEF Processing
<1> QED BY <1>5, <1>6, <1>7 DEF WriteToService

LEMMA RecvWrteSession ==
  ASSUME NEW ids, Here(ids), IInv, Processing, Head(toDev).cmd = "WRTE",
         RecvWrte(Head(toDev).peer, Head(toDev).id)
  PROVE  Here(ids)'
<1> DEFINE p == Head(toDev).peer
           i == Head(toDev).id
<1>1. /\ p \in Peers /\ i \in Ids /\ ids[p] = i
      /\ Fit(svc[i]) /\ svc[i].peer \in {0, p} /\ hs[p].st \in {"open", "closed"}
      /\ Alive(svc[i]) <=> svc[i].st = "open"
  BY NamedFrame DEF Processing
<1>2. PICK f \in cur :
        \/ \E j \in Find(svc, i, p) : WriteToService(j, f)
        \/ Find(svc, i, p) = {} /\ Unanswerable(f, i, p)
  BY DEF RecvWrte
<1>3. f \in Frames /\ next_service_id' = next_service_id
  BY CurIsFrame DEF RecvWrte
<1>4. Head(toDev).peer = p
  OBVIOUS
<1> HIDE DEF p, i
<1>5. ASSUME NEW j \in Find(svc, i, p), WriteToService(j, f)
      PROVE  Here(ids)'
  <2>1. j = i /\ svc[i].st = "open" /\ svc[i].peer = p
    BY <1>1, FindNamed
  <2> QED BY <1>1, <1>3, <1>4, <1>5, <2>1, WriteToServiceSession
<1>6. CASE Find(svc, i, p) = {} /\ Unanswerable(f, i, p)
  <2>1. ~Alive(svc[i])
    BY <1>1, <1>6, FindNamed
  <2> QED BY <1>1, <1>3, <1>4, <1>6, <2>1, UnanswerableSession
<1> QED BY <1>2, <1>5, <1>6

LEMMA AckToServiceSession ==
  ASSUME NEW ids, Here(ids), IInv, Processing, Head(toDev).cmd = "OKAY",
         NEW i \in Ids, NEW p \in Peers, ids[p] = i, Head(toDev).peer = p,
         svc[i].st = "open", svc[i].peer = p, hs[p].st \in {"open", "closed"},
         NEW f \in cur, AckToService(i, f), UNCHANGED next_service_id
  PROVE  Here(ids)'
<1> DEFINE g == Flow(p, toDev, toHost, wq)
           k == Flow(p, Tail(toDev), toHost, wq)
<1>1. /\ Session(ids, toDev, toHost, wq, svc, hs, next_service_id) /\ conn = "up"
      /\ svc \in [Ids -> Service]
  BY DEF Here, Session, Typed
<1>2. f \in Frames
  BY CurIsFrame
<1>3. ids[p] # 0 /\ toDev # <<>>
  BY DEF Ids, Processing
<1>4. /\ StreamOK(g, hs[p], i, svc[i]) /\ g \in Flows /\ hs[p] \in HostStream
      /\ Fit(svc[i])
  BY <1>1, <1>3, Stream
<1>5. k \in Flows /\ InMore(k, g, "OKAY") /\ SameOut(g, k)
  <2>1. k \in Flows /\ InMore(k, g, "OKAY") /\ SameOut(k, g)
    BY <1>1, <1>3, Reads
  <2> QED BY <2>1 DEF SameOut
<1> HIDE DEF g, k
<1>6. CASE svc[i].kind = "sync" /\ Fails(i, f)
  BY <1>2, <1>6, FailsSession
<1>7. CASE /\ svc[i].kind = "sync"
           /\ Answer(Header(f, "WRTE", i, svc[i].peer, FALSE))
           /\ UNCHANGED svc
  <2> DEFINE x == Header(f, "WRTE", i, p, FALSE)
             l == Flow(p, Tail(toDev), toHost, Append(wq, x))
  <2>1. x \in WireFrames(ids) /\ x.remote = p /\ x.cmd = "WRTE" /\ x.more = FALSE
    <3>1. x \in WireFrames(ids)
      BY <1>2, StreamFrame
    <3> QED BY <3>1 DEF Header
  <2>2. Answer(x)
    BY <1>7
  <2> HIDE DEF x
  <2>3. l \in Flows /\ InMore(l, g, "OKAY") /\ OutMore(g, l, "WRTE", FALSE)
    BY <1>1, <1>3, <2>1, Answers DEF g
  <2> HIDE DEF l
  <2>4. StreamOK(l, hs[p], i, svc[i])
    BY <1>4, <1>7, <2>3, AckAnsweredOK
  <2> QED BY <1>7, <2>1, <2>2, <2>4, AnswerSession DEF l
<1>8. CASE svc[i].kind = "sync" /\ Drop(f, svc)
  <2>1. StreamOK(k, hs[p], i, svc[i])
    BY <1>4, <1>5, <1>8, AckAnsweredOK
  <2>2. Session(ids, Tail(toDev), toHost, wq, [svc EXCEPT ![i] = svc[i]], hs,
                next_service_id)
    BY <1>1, <1>3, <1>4, <2>1, SilentMove DEF k, Processing
  <2>3. [svc EXCEPT ![i] = svc[i]] = svc
    BY <1>1
  <2> QED BY <1>1, <1>2, <1>8, <2>2, <2>3, DropSession DEF Drop
<1>9. CASE svc[i].kind # "sync" /\ Drop(f, [svc EXCEPT ![i] = Acked(@)])
  <2> DEFINE y == Acked(svc[i])
  <2>1. StreamOK(k, hs[p], i, y)
    BY <1>4, <1>5, <1>9, AckedOK
  <2>2. Fit(y) /\ y.peer = p
    <3>1. y.q = svc[i].q /\ y.st = "open" /\ y.peer = p /\ y \in Service
      BY <1>4 DEF Fit, Service, Acked
    <3> QED BY <1>4, <3>1 DEF Fit, Young
  <2>3. Drop(f, [svc EXCEPT ![i] = y])
    BY <1>1, <1>9
  <2> HIDE DEF y
  <2>4. Session(ids, Tail(toDev), toHost, wq, [svc EXCEPT ![i] = y], hs, next_service_id)
    BY <1>1, <1>3, <2>1, <2>2, SilentMove DEF k, Processing
  <2> QED BY <1>1, <1>2, <2>3, <2>4, DropSession DEF Drop
<1> QED BY <1>6, <1>7, <1>8, <1>9 DEF AckToService

LEMMA RecvOkaySession ==
  ASSUME NEW ids, Here(ids), IInv, Processing, Head(toDev).cmd = "OKAY",
         RecvOkay(Head(toDev).peer, Head(toDev).id)
  PROVE  Here(ids)'
<1> DEFINE p == Head(toDev).peer
           i == Head(toDev).id
<1>1. /\ p \in Peers /\ i \in Ids /\ ids[p] = i
      /\ Fit(svc[i]) /\ svc[i].peer \in {0, p} /\ hs[p].st \in {"open", "closed"}
      /\ Alive(svc[i]) <=> svc[i].st = "open"
  BY NamedFrame DEF Processing
<1>2. PICK f \in cur :
        \/ \E j \in Find(svc, i, 0) : AckToService(j, f)
        \/ Find(svc, i, 0) = {} /\ Unanswerable(f, i, p)
  BY DEF RecvOkay
<1>3. f \in Frames /\ next_service_id' = next_service_id
  BY CurIsFrame DEF RecvOkay
<1>4. Head(toDev).peer = p
  OBVIOUS
<1> HIDE DEF p, i
<1>5. ASSUME NEW j \in Find(svc, i, 0), AckToService(j, f)
      PROVE  Here(ids)'
  <2>1. j = i /\ svc[i].st = "open" /\ svc[i].peer = p
    BY <1>1, FindNamed
  <2> QED BY <1>1, <1>3, <1>4, <1>5, <2>1, AckToServiceSession
<1>6. CASE Find(svc, i, 0) = {} /\ Unanswerable(f, i, p)
  <2>1. ~Alive(svc[i])
    BY <1>1, <1>6, FindNamed
  <2> QED BY <1>1, <1>3, <1>4, <1>6, <2>1, UnanswerableSession
<1> QED BY <1>2, <1>5, <1>6
-----------------------------------------------------------------------------
(* The device processes the other frames *)

LEMMA RecvCnxnSession ==
  ASSUME NEW ids, Here(ids), IInv, Processing, Head(toDev).cmd = "CNXN", RecvCnxn
  PROVE  Here(ids)'
<1>1. PICK f \in cur : Answer(Header(f, "CNXN", 0, 0, FALSE)) /\ svc' = svc
  BY HostAssumption DEF RecvCnxn
<1> DEFINE x == Header(f, "CNXN", 0, 0, FALSE)
           d2 == Tail(toDev)
           q2 == Append(wq, x)
<1>2. /\ Session(ids, toDev, toHost, wq, svc, hs, next_service_id) /\ conn = "up"
      /\ Typed(ids, toDev, toHost, wq, svc, hs, next_service_id)
      /\ next_service_id' = next_service_id /\ toDev # <<>>
  BY DEF Here, Session, RecvCnxn, Processing
<1>3. conn' = "up" /\ wq' = q2
  BY <1>1, <1>2, SendUp DEF Answer
<1>4. x \in WireFrames(ids) /\ x.cmd = "CNXN"
  <2>1. f \in Frames /\ 0 \in Nat
    BY CurIsFrame
  <2>2. x \in WireFrame
    BY <2>1, HeaderType DEF Commands
  <2> QED BY <2>2 DEF WireFrames, Header
<1> HIDE DEF x
<1>5. /\ toDev \in Seq(SentFrames(ids)) /\ toHost \in Seq(SeenFrames(ids))
      /\ wq \in Seq(WireFrames(ids))
  BY <1>2 DEF Typed
<1>6. d2 \in Seq(SentFrames(ids)) /\ q2 \in Seq(WireFrames(ids))
  BY <1>2, <1>4, <1>5, ReadFlow, AppendProperties
<1>7. ASSUME NEW r \in Peers \ {0}
      PROVE  /\ Flow(r, d2, toHost, q2) = Flow(r, toDev, toHost, wq)
             /\ InOrder(r, toHost, wq) => InOrder(r, toHost, q2)
  <2>1. Flow(r, d2, toHost, wq) = Flow(r, toDev, toHost, wq)
    BY <1>2, <1>5, ReadFlow
  <2>2. Flow(r, d2, toHost, q2) = Flow(r, d2, toHost, wq)
    BY <1>4, <1>5, QueueFlow
  <2>3. InOrder(r, toHost, wq) => InOrder(r, toHost, q2)
    BY <1>4, <1>5, OrderQueue
  <2> QED BY <2>1, <2>2, <2>3
<1>8. Typed(ids, d2, toHost, q2, svc, hs, next_service_id)
  BY <1>2, <1>6 DEF Typed
<1>9. 0 \notin Peers
  BY ServiceTableAssumption
<1> HIDE DEF d2, q2
<1>10. Session(ids, d2, toHost, q2, svc, hs, next_service_id)
  BY <1>2, <1>7, <1>8, <1>9, OneStream
<1> QED BY <1>1, <1>2, <1>3, <1>10, HereNext DEF Processing, d2

\* An OPEN that is under way is for a stream without an id.
LEMMA OpenFrame ==
  ASSUME NEW ids, NEW d, NEW e, NEW q, NEW t, NEW h, NEW n,
         Session(ids, d, e, q, t, h, n), d # <<>>, Head(d).cmd = "OPEN"
  PROVE  LET p == Head(d).peer
         IN p \in Peers /\ Head(d).kind \in Kinds /\ ids[p] = 0 /\ At(t, ids[p]) = Unused
<1> DEFINE p == Head(d).peer
           f == Flow(p, d, e, q)
           k == Flow(p, Tail(d), e, q)
<1>1. Head(d) \in SentFrames(ids)
  BY ReadFlow DEF Session, Typed
<1>2. p \in Peers /\ Head(d).kind \in Kinds
  BY <1>1 DEF SentFrames
<1>3. StreamOK(f, h[p], ids[p], At(t, ids[p])) /\ f \in Flows
  BY <1>2, Stream
<1>4. k \in Flows /\ InMore(k, f, Head(d).cmd)
  BY <1>2, Reads
<1> HIDE DEF p, f, k
<1>5. f.opens > 0
  BY <1>4 DEF InMore, Mark, Flows
<1>6. ids[p] = 0
  BY <1>3, <1>5 DEF StreamOK, AskingOK, Flows
<1> QED BY <1>2, <1>6 DEF At, p

LEMMA RecvOpenRefusedSession ==
  ASSUME NEW ids, Here(ids), IInv, Processing, Head(toDev).cmd = "OPEN",
         RecvOpenRefused(Head(toDev).peer)
  PROVE  Here(ids)'
<1> DEFINE p == Head(toDev).peer
           g == Flow(p, toDev, toHost, wq)
<1>1. /\ Session(ids, toDev, toHost, wq, svc, hs, next_service_id) /\ conn = "up"
      /\ toDev # <<>> /\ next_service_id' = next_service_id /\ svc' = svc
  BY DEF Here, Processing, RecvOpenRefused
<1>2. PICK f \in cur : Answer(Header(f, "CLSE", 0, p, FALSE))
  BY DEF RecvOpenRefused
<1> DEFINE x == Header(f, "CLSE", 0, p, FALSE)
           k == Flow(p, Tail(toDev), toHost, Append(wq, x))
<1>3. p \in Peers /\ ids[p] = 0 /\ At(svc, ids[p]) = Unused
  BY <1>1, OpenFrame
<1>4. f \in Frames /\ p \in Nat /\ 0 \in Nat
  BY <1>3, CurIsFrame, ServiceTableAssumption
<1>5. x \in WireFrames(ids)
  BY <1>4, CloseFrame
<1>6. x.remote = p /\ x.cmd = "CLSE" /\ x.more = FALSE
  BY DEF Header
<1>7. conn' = "up" /\ wq' = Append(wq, x)
  BY <1>1, <1>2, SendUp DEF Answer
<1> HIDE DEF x
<1>8. StreamOK(g, hs[p], ids[p], At(svc, ids[p])) /\ g \in Flows /\ hs[p] \in HostStream
  BY <1>1, <1>3, Stream
<1>9. k \in Flows /\ InMore(k, g, "OPEN") /\ OutMore(g, k, "CLSE", FALSE)
  BY <1>1, <1>3, <1>5, <1>6, Answers
<1> HIDE DEF g, k
<1>10. StreamOK(k, hs[p], ids[p], At(svc, ids[p]))
  BY <1>3, <1>8, <1>9, RefusedOK
<1>11. Speaks(ids, p, g, hs[p], wq, Append(wq, x)) /\ Serves(ids, p, svc, svc)
  BY <1>5, <1>6 DEF Speaks, Serves
<1>12. Session(ids, Tail(toDev), toHost, Append(wq, x), svc, hs, next_service_id)
  BY <1>1, <1>3, <1>10, <1>11, DeviceMove DEF g, k, p
<1> QED BY <1>1, <1>7, <1>12, HereNext DEF Processing

\* What was said about the streams that have an id remains true.
LEMMA MoreIds ==
  ASSUME NEW ids \in IdTable, NEW p \in Peers, ids[p] = 0, NEW n \in Ids
  PROVE  LET ids2 == [ids EXCEPT ![p] = n]
         IN /\ ids2 \in IdTable /\ ids2[p] = n
            /\ \A r \in Peers \ {p} : ids2[r] = ids[r]
            /\ SentFrames(ids) \subseteq SentFrames(ids2)
            /\ SeenFrames(ids) \subseteq SeenFrames(ids2)
            /\ WireFrames(ids) \subseteq WireFrames(ids2)
<1> DEFINE ids2 == [ids EXCEPT ![p] = n]
<1>1. ids2 \in IdTable /\ ids2[p] = n /\ \A r \in Peers \ {p} : ids2[r] = ids[r]
  BY DEF IdTable
<1> HIDE DEF ids2
<1>2. 0 \notin Ids
  BY DEF Ids
<1>3. \A r, i : Named(ids, r, i) => Named(ids2, r, i)
  BY <1>1, <1>2 DEF Named
<1> QED BY <1>1, <1>3 DEF SentFrames, SeenFrames, WireFrames, ids2

LEMMA SeqOfMore ==
  ASSUME NEW S, NEW T, S \subseteq T, NEW s \in Seq(S)
  PROVE  s \in Seq(T)
<1>1. Len(s) \in Nat /\ s \in [1..Len(s) -> S]
  BY LenProperties
<1>2. s \in [1..Len(s) -> T]
  BY <1>1
<1> QED BY <1>1, <1>2, SeqDef

\* The stream gets its id and its service; a connection is announced later.
LEMMA OpenSession ==
  ASSUME NEW ids, NEW d, NEW e, NEW q, NEW t, NEW h, NEW n,
         Session(ids, d, e, q, t, h, n), n \in Ids,
         d # <<>>, Head(d).cmd = "OPEN",
         NEW q2, NEW f \in Frames,
         q2 = IF Head(d).kind = "tcp" THEN q
              ELSE Append(q, Header(f, "OKAY", n, Head(d).peer, FALSE))
  PROVE  LET p == Head(d).peer
         IN Session([ids EXCEPT ![p] = n], Tail(d), e, q2,
                    [t EXCEPT ![n] = Opened(Head(d).kind, p)], h, n + 1)
<1> DEFINE p == Head(d).peer
           kind == Head(d).kind
           x == Header(f, "OKAY", n, p, FALSE)
           d2 == Tail(d)
           ids2 == [ids EXCEPT ![p] = n]
           y == Opened(kind, p)
           t2 == [t EXCEPT ![n] = y]
           g == Flow(p, d, e, q)
           k == Flow(p, d2, e, q2)
<1>1. p \in Peers /\ kind \in Kinds /\ ids[p] = 0 /\ At(t, ids[p]) = Unused
  BY OpenFrame
<1>2. /\ ids \in IdTable /\ n \in Nat /\ n # 0
      /\ \A r \in Peers : ids[r] = 0 \/ ids[r] < n
      /\ d \in Seq(SentFrames(ids)) /\ e \in Seq(SeenFrames(ids))
      /\ q \in Seq(WireFrames(ids)) /\ t \in [Ids -> Service]
  BY DEF Session, Typed, Ids
<1>3. /\ ids2 \in IdTable /\ ids2[p] = n
      /\ \A r \in Peers \ {p} : ids2[r] = ids[r]
      /\ SentFrames(ids) \subseteq SentFrames(ids2)
      /\ SeenFrames(ids) \subseteq SeenFrames(ids2)
      /\ WireFrames(ids) \subseteq WireFrames(ids2)
  BY <1>1, <1>2, MoreIds
<1>4. x \in WireFrames(ids2) /\ x.cmd = "OKAY" /\ x.remote = p /\ x.more = FALSE
  <2>1. x \in WireFrames(ids2)
    BY <1>1, <1>3, StreamFrame
  <2> QED BY <2>1 DEF Header
<1>5. q2 = IF kind = "tcp" THEN q ELSE Append(q, x)
  OBVIOUS
<1>6. t2 \in [Ids -> Service] /\ \A i \in Ids : t2[i] = IF i = n THEN y ELSE t[i]
  <2>1. kind \in {"sync", "shell", "tcp"} /\ 0 \notin Peers
    BY <1>1, ServiceTableAssumption
  <2>2. y \in Service
    BY <1>1, <2>1 DEF Opened, Unused, Service
  <2> QED BY <1>2, <2>2
<1>7. Fit(y) /\ y.peer = p
  <2>1. y \in Service
    BY <1>6
  <2>2. /\ y.q = {} /\ y.kind = kind /\ y.ack = FALSE /\ y.peer = p
        /\ y.st = IF kind = "tcp" THEN "connecting" ELSE "open"
    BY DEF Opened, Unused
  <2>3. IsFiniteSet(y.q)
    BY <2>2, FS_EmptySet
  <2> HIDE DEF p, kind, y
  <2>4. ~y.ack /\ y.peer \in Peers /\ y.peer = p
    BY <1>1, <2>2
  <2>5. Young(y) => y.kind = "tcp"
    BY <2>2 DEF Young
  <2> QED BY <2>1, <2>2, <2>3, <2>4, <2>5 DEF Fit
<1> HIDE DEF x, ids2, y, t2
<1>8. /\ d \in Seq(SentFrames(ids2)) /\ e \in Seq(SeenFrames(ids2))
      /\ q \in Seq(WireFrames(ids2))
  BY <1>2, <1>3, SeqOfMore
<1>9. d2 \in Seq(SentFrames(ids2)) /\ q2 \in Seq(WireFrames(ids2))
  <2>1. d2 \in Seq(SentFrames(ids2))
    BY <1>8, ReadFlow
  <2>2. Append(q, x) \in Seq(WireFrames(ids2))
    BY <1>4, <1>8, AppendProperties
  <2> QED BY <1>5, <1>8, <2>1, <2>2
<1> HIDE DEF p, kind
<1>10. Typed(ids2, d2, e, q2, t2, h, n + 1)
  <2>1. \A r \in Peers : ids2[r] = 0 \/ ids2[r] < n + 1
    <3>1. \A r \in Peers : ids[r] \in Nat
      <4>1. Ids \cup {0} \subseteq Nat
        BY IdsAreNat
      <4>2. ids \in [Peers -> Ids \cup {0}]
        BY <1>2 DEF IdTable
      <4> QED BY <4>1, <4>2
    <3> QED BY <1>2, <1>3, <3>1
  <2>2. \A r \in Peers \ {p} : ids2[r] # n
    BY <1>2, <1>3
  <2>3. \A r, s \in Peers : ids2[r] = ids2[s] /\ ids2[r] # 0 => r = s
    BY <1>3, <2>2 DEF Session, Typed
  <2>4. ASSUME NEW i \in Ids PROVE Fit(t2[i]) /\ (t2[i].peer # 0 => ids2[t2[i].peer] = i)
    <3>1. CASE i = n
      BY <1>3, <1>6, <1>7, <3>1
    <3>2. CASE i # n
      <4>1. t2[i] = t[i] /\ Fit(t[i]) /\ (t[i].peer # 0 => ids[t[i].peer] = i)
        BY <1>6, <3>2 DEF Session, Typed
      <4>2. t[i].peer # 0 => t[i].peer \in Peers \ {p}
        BY <1>1, <1>2, <4>1, IdsAreNat DEF Service
      <4> QED BY <1>3, <4>1, <4>2
    <3> QED BY <3>1, <3>2
  <2>5. h \in [Peers -> HostStream] /\ \A r \in Peers : h[r].id \in {0, ids2[r]}
    BY <1>1, <1>3 DEF Session, Typed
  <2>6. n + 1 \in Nat
    BY <1>2
  <2> QED BY <1>3, <1>6, <1>8, <1>9, <2>1, <2>3, <2>4, <2>5, <2>6 DEF Typed
<1>11. ASSUME NEW r \in Peers, r # p
       PROVE  /\ StreamOK(Flow(r, d2, e, q2), h[r], ids2[r], At(t2, ids2[r]))
              /\ h[r].st = "opening" => InOrder(r, e, q2)
  <2>1. Flow(r, d2, e, q) = Flow(r, d, e, q)
    BY <1>2, <1>11, ReadFlow DEF p
  <2>2. Flow(r, d2, e, q2) = Flow(r, d2, e, q)
    <3>1. Flow(r, d2, e, Append(q, x)) = Flow(r, d2, e, q)
      BY <1>4, <1>8, <1>11, QueueFlow
    <3> QED BY <1>5, <3>1
  <2>3. At(t2, ids2[r]) = At(t, ids[r]) /\ ids2[r] = ids[r]
    <3>1. ids2[r] = ids[r] /\ ids[r] # n
      BY <1>2, <1>3, <1>11
    <3> QED BY <1>2, <1>6, <3>1 DEF At, IdTable
  <2>4. InOrder(r, e, q) => InOrder(r, e, q2)
    BY <1>4, <1>5, <1>8, OrderQueue
  <2> QED BY <2>1, <2>2, <2>3, <2>4 DEF Session
<1>12. /\ StreamOK(k, h[p], n, y)
       /\ h[p].st = "opening" => InOrder(p, e, q2)
  <2>1. StreamOK(g, h[p], ids[p], At(t, ids[p])) /\ g \in Flows /\ h[p] \in HostStream
    BY <1>1, Stream
  <2>2. k \in Flows
    BY <1>8, <1>9, FlowType
  <2>3. LET m == Flow(p, d2, e, q)
        IN /\ InMore(m, g, "OPEN") /\ SameOut(m, g)
           /\ IF kind = "tcp" THEN k = m ELSE OutMore(m, k, "OKAY", FALSE) /\ SameIn(m, k)
    <3>1. InMore(Flow(p, d2, e, q), g, "OPEN") /\ SameOut(Flow(p, d2, e, q), g)
      BY <1>2, ReadFlow DEF p
    <3>2. LET l == Flow(p, d2, e, Append(q, x))
          IN OutMore(Flow(p, d2, e, q), l, x.cmd, x.more) /\ SameIn(Flow(p, d2, e, q), l)
      BY <1>4, <1>8, QueueFlow
    <3> QED BY <1>4, <1>5, <3>1, <3>2
  <2>4. InOrder(p, e, q) => InOrder(p, e, q2)
    BY <1>4, <1>5, <1>8, OrderQueue
  <2>5. h[p].st = "opening" => InOrder(p, e, q)
    BY <1>1 DEF Session
  <2> HIDE DEF g, k
  <2>6. /\ InMore(k, g, "OPEN")
        /\ IF kind = "tcp" THEN SameOut(g, k) ELSE OutMore(g, k, "OKAY", FALSE)
    BY <2>3 DEF InMore, SameIn, SameOut, OutMore
  <2>7. StreamOK(k, h[p], n, y)
    BY <1>2, <2>1, <2>2, <2>6, OpenedOK DEF y
  <2> QED BY <2>4, <2>5, <2>7
<1>13. At(t2, ids2[p]) = y
  BY <1>2, <1>3, <1>6 DEF At
<1>14. \A r \in Peers : /\ StreamOK(Flow(r, d2, e, q2), h[r], ids2[r], At(t2, ids2[r]))
                        /\ h[r].st = "opening" => InOrder(r, e, q2)
  BY <1>3, <1>11, <1>12, <1>13
<1> QED BY <1>10, <1>14 DEF Session, p, kind, ids2, y, t2

LEMMA RecvOpenSession ==
  ASSUME NEW ids \in IdTable, Here(ids), IInv, Processing, Head(toDev).cmd = "OPEN",
         RecvOpen(Head(toDev).peer, Head(toDev).kind)
  PROVE  HInv'
<1> DEFINE p == Head(toDev).peer
           kind == Head(toDev).kind
           n == next_service_id
           ids2 == [ids EXCEPT ![p] = n]
           t == [svc EXCEPT ![n] = Opened(kind, p)]
<1>1. /\ Session(ids, toDev, toHost, wq, svc, hs, n) /\ conn = "up" /\ toDev # <<>>
  BY DEF Here, Processing
<1>2. n \in Ids /\ n + 1 \in Nat
  BY DEF RecvOpen, IInv, TypeOK, Ids
<1>3. PICK f \in cur :
        \/ kind = "tcp" /\ Drop(f, t)
        \/ kind # "tcp" /\ Answer(Header(f, "OKAY", n, p, FALSE)) /\ svc' = t
  BY DEF RecvOpen
<1>4. next_service_id' = n + 1 /\ f \in Frames
  BY CurIsFrame DEF RecvOpen
<1>5. p \in Peers /\ ids[p] = 0
  BY <1>1, OpenFrame
<1>6. ids2 \in IdTable
  BY <1>2, <1>5, MoreIds
<1>7. PICK c \in IdTable : c = ids2
  BY <1>6
<1>8. CASE kind = "tcp" /\ Drop(f, t)
  <2>1. Session(ids2, Tail(toDev), toHost, wq, t, hs, n + 1)
    BY <1>1, <1>2, <1>4, <1>8, OpenSession
  <2> HIDE DEF ids2, t
  <2>2. Here(c)'
    BY <1>1, <1>4, <1>8, <1>7, <2>1, DropSession DEF Drop
  <2> QED BY <2>2 DEF HInv
<1>9. CASE kind # "tcp" /\ Answer(Header(f, "OKAY", n, p, FALSE)) /\ svc' = t
  <2> DEFINE q2 == Append(wq, Header(f, "OKAY", n, p, FALSE))
  <2>1. Session(ids2, Tail(toDev), toHost, q2, t, hs, n + 1)
    BY <1>1, <1>2, <1>4, <1>9, OpenSession
  <2>2. conn' = "up" /\ wq' = q2
    BY <1>1, <1>9, SendUp DEF Answer
  <2> HIDE DEF ids2, t, q2
  <2>3. Here(c)'
    BY <1>4, <1>9, <1>7, <2>1, <2>2, HereNext DEF Processing
  <2> QED BY <2>3 DEF HInv
<1> QED BY <1>3, <1>8, <1>9
-----------------------------------------------------------------------------
(* The streams of the services *)

\* What the host sees and sends stays as it is.
Quiet == UNCHANGED hostVars /\ UNCHANGED next_service_id

\* A service with a stream of the host.
LEMMA ServiceHere ==
  ASSUME NEW ids, Here(ids), NEW i \in Ids, svc[i].st # "unused", svc[i].st # "freed"
  PROVE  LET p == svc[i].peer
             f == Flow(p, toDev, toHost, wq)
         IN /\ p \in Peers /\ ids[p] = i /\ i # 0 /\ ids[p] # 0
            /\ Session(ids, toDev, toHost, wq, svc, hs, next_service_id)
            /\ svc \in [Ids -> Service] /\ conn = "up"
            /\ StreamOK(f, hs[p], i, svc[i])
            /\ f \in Flows /\ hs[p] \in HostStream /\ Fit(svc[i])
<1>1. /\ Session(ids, toDev, toHost, wq, svc, hs, next_service_id) /\ conn = "up"
      /\ Typed(ids, toDev, toHost, wq, svc, hs, next_service_id)
      /\ Fit(svc[i]) /\ svc \in [Ids -> Service]
  BY DEF Here, Session, Typed
<1>2. svc[i].peer \in Peers
  <2>1. svc[i] \in Service
    BY <1>1
  <2>2. Alive(svc[i]) \/ svc[i].st = "closing"
    BY <2>1 DEF Service, Alive, Young
  <2> QED BY <1>1, <2>2 DEF Fit
<1>3. ids[svc[i].peer] = i /\ i # 0 /\ At(svc, ids[svc[i].peer]) = svc[i]
  BY <1>1, <1>2, Owner
<1> QED BY <1>1, <1>2, <1>3, Stream

LEMMA SvcReadFrameSession ==
  ASSUME NEW ids, Here(ids), SInv, Quiet, NEW i \in Ids, SvcReadFrame(i)
  PROVE  Here(ids)'
<1> DEFINE p == svc[i].peer
           g == Flow(p, toDev, toHost, wq)
           y == [svc[i] EXCEPT !.rd = FALSE, !.ack = TRUE]
<1>1. svc[i].st = "open" /\ ~svc[i].ack
  BY DEF SvcReadFrame, Readable, SInv, RInv, AllGated, Gated
<1>2. /\ p \in Peers /\ ids[p] = i /\ i # 0 /\ ids[p] # 0
      /\ Session(ids, toDev, toHost, wq, svc, hs, next_service_id)
      /\ svc \in [Ids -> Service] /\ conn = "up"
      /\ StreamOK(g, hs[p], i, svc[i])
      /\ g \in Flows /\ hs[p] \in HostStream /\ Fit(svc[i])
  BY <1>1, ServiceHere
<1>3. PICK f \in Frames : SendFrame(Header(f, "WRTE", i, p, FALSE), wq)
  BY DEF SvcReadFrame
<1> DEFINE x == Header(f, "WRTE", i, p, FALSE)
           k == Flow(p, toDev, toHost, Append(wq, x))
<1>4. x \in WireFrames(ids)
  BY <1>2, StreamFrame
<1>5. x.cmd = "WRTE" /\ x.remote = p /\ x.more = FALSE
  BY DEF Header
<1>6. conn' = "up" /\ wq' = Append(wq, x)
  BY <1>2, <1>3, SendUp
<1>7. svc' = [svc EXCEPT ![i] = y]
  BY <1>2 DEF SvcReadFrame
<1> HIDE DEF p, x
<1>8. k \in Flows /\ OutMore(g, k, "WRTE", FALSE) /\ SameIn(g, k)
  BY <1>2, <1>4, <1>5, Queues
<1> HIDE DEF g, k
<1>9. StreamOK(k, hs[p], i, y)
  BY <1>1, <1>2, <1>8, DataOK
<1>10. hs[p].st = "opening" => g.oks > 0
  BY <1>1, <1>2 DEF StreamOK, ServiceOK, Asking
<1>11. Fit(y) /\ y.peer \in {0, p}
  <2>1. /\ y \in Service /\ y.q = svc[i].q /\ y.peer = p /\ y.st = "open"
    BY <1>1, <1>2 DEF Fit, Service, p
  <2> QED BY <1>2, <2>1 DEF Fit, Young
<1> HIDE DEF y
<1>12. Session(ids, toDev, toHost, Append(wq, x), [svc EXCEPT ![i] = y], hs,
               next_service_id)
  BY <1>2, <1>4, <1>5, <1>9, <1>10, <1>11, SendMove DEF g, k
<1> QED BY <1>6, <1>7, <1>12, HereNext DEF Quiet, hostVars

LEMMA SvcReadParkSession ==
  ASSUME NEW ids, Here(ids), Quiet, NEW i \in Ids, SvcReadPark(i)
  PROVE  Here(ids)'
<1> DEFINE t == [svc EXCEPT ![i].rd = FALSE]
<1>1. /\ Session(ids, toDev, toHost, wq, svc, hs, next_service_id) /\ conn = "up"
      /\ svc \in [Ids -> Service]
  BY DEF Here, Session, Typed
<1>2. t \in [Ids -> Service] /\ Alike(svc, t)
  BY <1>1 DEF Alike, Service
<1>3. conn' = "up" /\ wq' = wq /\ svc' = t
  BY <1>1 DEF SvcReadPark
<1> HIDE DEF t
<1>4. Session(ids, toDev, toHost, wq, t, hs, next_service_id)
  BY <1>1, <1>2, AlikeSession
<1> QED BY <1>3, <1>4, HereNext DEF Quiet, hostVars

\* The service, that has become w, is closed with the frame.
LEMMA CloseAndTellSession ==
  ASSUME NEW ids, Here(ids), Quiet, NEW i \in Ids, svc[i].st = "open",
         NEW f \in Frames, NEW w, w.st = "open", w.peer = svc[i].peer, Fit(w),
         w.q \subseteq svc[i].q, w.kind = svc[i].kind,
         NEW t, t = [svc EXCEPT ![i] = w],
         CloseAndTell(i, f, t, wq)
  PROVE  Here(ids)'
<1> DEFINE p == svc[i].peer
           x == Header(f, "CLSE", i, p, FALSE)
           y == OnClose(w)
<1>1. /\ p \in Peers /\ ids[p] = i /\ ids[p] # 0
      /\ Session(ids, toDev, toHost, wq, svc, hs, next_service_id)
      /\ svc \in [Ids -> Service] /\ conn = "up"
  BY ServiceHere
<1>2. t[i] = w /\ [t EXCEPT ![i] = OnClose(@)] = [svc EXCEPT ![i] = y]
  BY <1>1
<1>3. IdOf(t, i) = i /\ t[i].peer = p
  BY <1>2 DEF IdOf
<1>4. conn' = "up" /\ wq' = Append(wq, x) /\ svc' = [svc EXCEPT ![i] = y]
  BY <1>1, <1>2, <1>3, SendUp DEF CloseAndTell, CloseService
<1>5. x \in WireFrames(ids)
  <2>1. i \in Nat /\ p \in Nat
    BY <1>1, IdsAreNat, ServiceTableAssumption
  <2> QED BY <2>1, CloseFrame
<1>6. x.cmd = "CLSE" /\ x.remote = p /\ x.more = FALSE
  BY DEF Header
<1>7. Fit(y) /\ ~Alive(y) /\ y.peer \in {0, p} /\ y.q \subseteq svc[i].q
      /\ y.kind \in {svc[i].kind, "sync"}
  BY OnCloseEnds DEF Alive
<1> HIDE DEF p, x, y
<1>8. Session(ids, toDev, toHost, Append(wq, x), [svc EXCEPT ![i] = y], hs,
              next_service_id)
  BY <1>1, <1>5, <1>6, <1>7, EndMove
<1> QED BY <1>4, <1>8, HereNext DEF Quiet, hostVars

LEMMA SvcReadEndSession ==
  ASSUME NEW ids, Here(ids), SInv, Quiet, NEW i \in Ids, SvcReadEnd(i)
  PROVE  Here(ids)'
<1>1. svc[i].st = "open"
  BY DEF SvcReadEnd, Readable, SInv, RInv, AllGated, Gated
<1>2. svc \in [Ids -> Service] /\ Fit(svc[i])
  BY <1>1, ServiceHere
<1>3. PICK f \in Frames : CloseAndTell(i, f, svc, wq)
  BY DEF SvcReadEnd
<1>4. svc = [svc EXCEPT ![i] = svc[i]]
  BY <1>2
<1> QED BY <1>1, <1>2, <1>3, <1>4, CloseAndTellSession

\* One frame less to write.
LEMMA WrittenFit ==
  ASSUME NEW r, Fit(r), r.st \in {"open", "closing"}, NEW f
  PROVE  LET w == [r EXCEPT !.q = @ \ {f}]
         IN /\ Fit(w) /\ w.st = r.st /\ w.peer = r.peer /\ w.kind = r.kind
            /\ w.q \subseteq r.q
<1> DEFINE w == [r EXCEPT !.q = @ \ {f}]
<1>1. /\ w \in Service /\ w.st = r.st /\ w.peer = r.peer /\ w.kind = r.kind
      /\ w.q = r.q \ {f}
  BY DEF Fit, Service
<1> HIDE DEF w
<1>2. IsFiniteSet(w.q) /\ w.q \subseteq r.q
  BY <1>1, FS_Subset DEF Fit
<1> QED BY <1>1, <1>2 DEF Fit, Alive, Young, w

LEMMA SvcWriteDoneSession ==
  ASSUME NEW ids, Here(ids), SInv, Quiet, NEW i \in Ids, NEW f \in Frames,
         SvcWriteDone(i, f)
  PROVE  Here(ids)'
<1> DEFINE p == svc[i].peer
           g == Flow(p, toDev, toHost, wq)
           y == [svc[i] EXCEPT !.q = @ \ {f}]
           x == Header(f, "OKAY", i, p, FALSE)
           k == Flow(p, toDev, toHost, Append(wq, x))
<1>1. f \in svc[i].q /\ svc[i].st \in {"open", "closing"}
  BY WrittenMeans DEF SvcWriteDone
<1>2. /\ p \in Peers /\ ids[p] = i /\ i # 0 /\ ids[p] # 0
      /\ Session(ids, toDev, toHost, wq, svc, hs, next_service_id)
      /\ svc \in [Ids -> Service] /\ conn = "up"
      /\ StreamOK(g, hs[p], i, svc[i])
      /\ g \in Flows /\ hs[p] \in HostStream /\ Fit(svc[i])
  BY <1>1, ServiceHere
<1>3. x \in WireFrames(ids)
  BY <1>2, StreamFrame
<1>4. x.cmd = "OKAY" /\ x.remote = p /\ x.more = FALSE
  BY DEF Header
<1>5. conn' = "up" /\ wq' = Append(wq, x) /\ svc' = [svc EXCEPT ![i] = y]
  BY <1>2, SendUp DEF SvcWriteDone, Written
<1>6. Fit(y) /\ y.peer \in {0, p}
  BY <1>1, <1>2, WrittenFit
<1> HIDE DEF p, x
<1>7. k \in Flows /\ OutMore(g, k, "OKAY", FALSE) /\ SameIn(g, k)
  BY <1>2, <1>3, <1>4, Queues
<1> HIDE DEF g, k
<1>8. StreamOK(k, hs[p], i, y)
  BY <1>1, <1>2, <1>7, WrittenOK
<1> HIDE DEF y
<1>9. Session(ids, toDev, toHost, Append(wq, x), [svc EXCEPT ![i] = y], hs,
              next_service_id)
  BY <1>2, <1>3, <1>4, <1>6, <1>8, SendMove DEF k
<1> QED BY <1>5, <1>9, HereNext DEF Quiet, hostVars

LEMMA SvcWriteFailedSession ==
  ASSUME NEW ids, Here(ids), SInv, Quiet, NEW i \in Ids, NEW f \in Frames,
         SvcWriteFailed(i, f)
  PROVE  Here(ids)'
<1> DEFINE p == svc[i].peer
           w == [svc[i] EXCEPT !.q = @ \ {f}]
<1>1. f \in svc[i].q /\ svc[i].st \in {"open", "closing"}
  BY WrittenMeans DEF SvcWriteFailed
<1>2. /\ p \in Peers /\ ids[p] = i /\ ids[p] # 0
      /\ Session(ids, toDev, toHost, wq, svc, hs, next_service_id)
      /\ svc \in [Ids -> Service] /\ conn = "up" /\ Fit(svc[i])
  BY <1>1, ServiceHere
<1>3. /\ Fit(w) /\ w.st = svc[i].st /\ w.peer = svc[i].peer /\ w.kind = svc[i].kind
      /\ w.q \subseteq svc[i].q
  BY <1>1, <1>2, WrittenFit
<1>4. Written(i, f) = [svc EXCEPT ![i] = w]
  BY <1>2 DEF Written
<1> HIDE DEF w
<1>5. CASE svc[i].st = "open" /\ CloseAndTell(i, f, Written(i, f), wq)
  BY <1>3, <1>4, <1>5, CloseAndTellSession
<1>6. CASE svc[i].st = "closing" /\ svc' = Written(i, f) /\ UNCHANGED <<conn, wq>>
  <2>1. ~Alive(w) /\ ~Alive(svc[i])
    BY <1>3, <1>6 DEF Alive, Young
  <2>2. w.peer \in {0, p}
    BY <1>3
  <2> HIDE DEF p
  <2>3. Session(ids, toDev, toHost, wq, [svc EXCEPT ![i] = w], hs, next_service_id)
    BY <1>2, <1>3, <2>1, <2>2, FadeMove
  <2> QED BY <1>2, <1>4, <1>6, <2>3, HereNext DEF Quiet, hostVars
<1> QED BY <1>5, <1>6 DEF SvcWriteFailed

LEMMA SvcClosedSession ==
  ASSUME NEW ids, Here(ids), Quiet, NEW i \in Ids, SvcClosed(i)
  PROVE  Here(ids)'
<1> DEFINE p == svc[i].peer
           y == Freed(svc[i])
<1>1. svc[i].st = "closing"
  BY DEF SvcClosed
<1>2. /\ p \in Peers /\ ids[p] = i /\ ids[p] # 0
      /\ Session(ids, toDev, toHost, wq, svc, hs, next_service_id)
      /\ svc \in [Ids -> Service] /\ conn = "up" /\ Fit(svc[i])
  BY <1>1, ServiceHere
<1>3. Fit(y) /\ ~Alive(y) /\ y.peer = 0 /\ y.q = {} /\ y.kind = "sync"
  BY <1>2, FreedEnds
<1>4. conn' = "up" /\ wq' = wq /\ svc' = [svc EXCEPT ![i] = y]
  BY <1>2 DEF SvcClosed
<1>5. ~Alive(svc[i])
  BY <1>1 DEF Alive, Young
<1> HIDE DEF p, y
<1>6. Session(ids, toDev, toHost, wq, [svc EXCEPT ![i] = y], hs, next_service_id)
  BY <1>2, <1>3, <1>5, FadeMove
<1> QED BY <1>4, <1>6, HereNext DEF Quiet, hostVars

\* A connection that is established, or refused, and not told yet.
LEMMA YoungOK ==
  ASSUME NEW f, NEW r, NEW o, NEW x, NEW y, StreamOK(f, r, o, x),
         Young(x), Young(y), y.q = x.q, y.kind = x.kind, y.ack = x.ack
  PROVE  StreamOK(f, r, o, y)
<1>1. Alive(x) /\ Alive(y) /\ x.st # "open" /\ y.st # "open"
  BY DEF Alive, Young
<1>2. AskingOK(f, r, o, y)
  BY <1>1 DEF StreamOK, AskingOK
<1>3. OpenOK(f, r, o, y)
  BY <1>1 DEF StreamOK, OpenOK
<1>4. ServiceOK(f, r, y)
  BY <1>1 DEF StreamOK, ServiceOK
<1> QED BY <1>2, <1>3, <1>4 DEF StreamOK

LEMMA ConnectDoneSession ==
  ASSUME "malloc" \notin Misfortunes,
         NEW ids, Here(ids), Quiet, NEW i \in Ids, ConnectDone(i)
  PROVE  Here(ids)'
<1>1. /\ Session(ids, toDev, toHost, wq, svc, hs, next_service_id) /\ conn = "up"
      /\ svc \in [Ids -> Service]
  BY DEF Here, Session, Typed
<1>2. CASE svc[i].st = "freed" /\ UNCHANGED <<conn, wq, svc>>
  BY <1>1, <1>2, HereNext DEF Quiet, hostVars
<1>3. ASSUME svc[i].st = "connecting", NEW result \in ConnectResult, NEW t,
             t = [svc EXCEPT ![i].st = result, ![i].req = FALSE],
             (\E f \in Frames : ConnectTold(i, t, f)) \/ ConnectParked(t)
      PROVE  Here(ids)'
  <2> DEFINE p == svc[i].peer
             g == Flow(p, toDev, toHost, wq)
             y == [svc[i] EXCEPT !.st = result, !.req = FALSE]
  <2>1. /\ p \in Peers /\ ids[p] = i /\ i # 0 /\ ids[p] # 0
        /\ StreamOK(g, hs[p], i, svc[i]) /\ Fit(svc[i])
    BY <1>3, ServiceHere
  <2>2. result \in {"notify", "error"}
    BY DEF ConnectResult
  <2>3. /\ t = [svc EXCEPT ![i] = y] /\ t[i] = y
    BY <1>1, <1>3
  <2>4. /\ y \in Service /\ y.st = result /\ y.q = svc[i].q /\ y.kind = svc[i].kind
        /\ y.ack = svc[i].ack /\ y.peer = p
    BY <2>1, <2>2 DEF Fit, Service
  <2> HIDE DEF y, p, g
  <2>5. Young(svc[i]) /\ Young(y) /\ Alive(y)
    BY <1>3, <2>2, <2>4 DEF Young, Alive
  <2>6. Fit(y)
    BY <2>1, <2>4, <2>5 DEF Fit
  <2>7. StreamOK(g, hs[p], i, y)
    BY <2>1, <2>4, <2>5, YoungOK
  <2>8. Session(ids, toDev, toHost, wq, t, hs, next_service_id)
    BY <1>1, <2>1, <2>3, <2>4, <2>6, <2>7, SilentMove DEF g
  <2>9. CASE ConnectParked(t)
    BY <1>1, <2>8, <2>9, HereNext DEF ConnectParked, Quiet, hostVars
  <2>10. ASSUME NEW f \in Frames, ConnectTold(i, t, f)
         PROVE  Here(ids)'
    <3>1. /\ conn' = "up" /\ wq' = Append(wq, GrantHeader(t, i, f))
          /\ svc' = [t EXCEPT ![i] = Granted(@)]
      BY <1>1, <2>10 DEF ConnectTold
    <3>2. Session(ids, toDev, toHost, wq', svc', hs, next_service_id)
      BY <2>2, <2>3, <2>4, <2>8, <3>1, TellSession
    <3> QED BY <3>1, <3>2, HereNext DEF Quiet, hostVars
  <2> QED BY <1>3, <2>9, <2>10
<1>4. ~\E t : ConnectOutOfMemory(t)
  BY DEF ConnectOutOfMemory
<1> QED BY <1>2, <1>3, <1>4 DEF ConnectDone
-----------------------------------------------------------------------------
(* A frame was written to the host *)

\* What the host gets of it.
Shown(m) == [cmd |-> m.cmd, local |-> m.local, remote |-> m.remote]

LEMMA ShownFrame ==
  ASSUME NEW ids, NEW m \in WireFrames(ids)
  PROVE  /\ Shown(m) \in SeenFrames(ids)
         /\ Shown(m).cmd = m.cmd /\ Shown(m).remote = m.remote
         /\ m.f \in Frames /\ m.more \in BOOLEAN
<1>1. m \in WireFrame
  BY Members
<1>2. Shown(m) \in SeenFrame
  BY <1>1 DEF WireFrame, SeenFrame, Shown
<1> QED BY <1>1, <1>2 DEF WireFrames, SeenFrames, Shown, WireFrame

\* The data behind an answer of the file service.
LEMMA MoreOK ==
  ASSUME NEW f \in Flows, NEW g \in Flows, NEW r \in HostStream, NEW o, NEW x,
         StreamOK(f, r, o, x), Fit(x), o # 0,
         SameIn(f, g), g.oks = f.oks, g.data = f.data + 1, g.ends = f.ends,
         f.more = g.more + 1
  PROVE  StreamOK(g, r, o, x)
<1>1. x.kind = "sync" /\ ~Young(x)
  BY DEF StreamOK, ServiceOK, Fit, Flows
<1>2. /\ f.opens = g.opens /\ f.writes = g.writes /\ f.acks = g.acks
      /\ f.closes = g.closes
  BY DEF SameIn
<1>3. AskingOK(g, r, o, x)
  BY <1>2 DEF StreamOK, AskingOK
<1>4. OpenOK(g, r, o, x)
  BY <1>2 DEF StreamOK, OpenOK
<1>5. ServiceOK(g, r, x)
  BY <1>1, <1>2 DEF StreamOK, ServiceOK
<1> QED BY <1>3, <1>4, <1>5 DEF StreamOK

LEMMA WriteTyped ==
  ASSUME NEW ids, NEW d, NEW e, NEW q, NEW t, NEW h, NEW n,
         Session(ids, d, e, q, t, h, n), q # <<>>
  PROVE  LET e2 == Append(e, Shown(Head(q)))
         IN /\ Typed(ids, d, e2, Tail(q), t, h, n)
            /\ Head(q) \in WireFrames(ids)
            /\ \A r : LET f == Flow(r, d, e, q)
                          g == Flow(r, d, e2, Tail(q))
                      IN /\ f \in Flows /\ g \in Flows
                         /\ g.oks = f.oks /\ g.data = f.data /\ g.ends = f.ends
                         /\ SameIn(f, g)
                         /\ f.more = g.more + Mark(Head(q).more /\ Head(q).remote = r)
            /\ \A r : InOrder(r, e, q) => InOrder(r, e2, Tail(q))
<1> DEFINE y == Shown(Head(q))
           e2 == Append(e, y)
           q2 == Tail(q)
<1>1. /\ Typed(ids, d, e, q, t, h, n)
      /\ d \in Seq(SentFrames(ids)) /\ e \in Seq(SeenFrames(ids))
      /\ q \in Seq(WireFrames(ids))
  BY DEF Session, Typed
<1>2. Head(q) \in WireFrames(ids) /\ q2 \in Seq(WireFrames(ids))
  BY <1>1, HeadTailProperties
<1>3. y \in SeenFrames(ids) /\ y.cmd = Head(q).cmd /\ y.remote = Head(q).remote
  BY <1>2, ShownFrame
<1> HIDE DEF y
<1>4. e2 \in Seq(SeenFrames(ids))
  BY <1>1, <1>3, AppendProperties
<1>5. ASSUME NEW r
      PROVE  LET f == Flow(r, d, e, q)
                 g == Flow(r, d, e2, q2)
             IN /\ f \in Flows /\ g \in Flows
                /\ g.oks = f.oks /\ g.data = f.data /\ g.ends = f.ends
                /\ SameIn(f, g)
                /\ f.more = g.more + Mark(Head(q).more /\ Head(q).remote = r)
  <2>1. Flow(r, d, e, q) \in Flows /\ Flow(r, d, e2, q2) \in Flows
    BY <1>1, <1>2, <1>4, FlowType
  <2> QED BY <1>1, <1>3, <2>1, WriteFlow
<1>6. \A r : InOrder(r, e, q) => InOrder(r, e2, q2)
  BY <1>1, <1>3, OrderWrite
<1>7. Typed(ids, d, e2, q2, t, h, n)
  BY <1>1, <1>2, <1>4 DEF Typed
<1> QED BY <1>2, <1>5, <1>6, <1>7 DEF y

LEMMA WrittenSession ==
  ASSUME NEW ids, NEW d, NEW e, NEW q, NEW t, NEW h, NEW n,
         Session(ids, d, e, q, t, h, n), q # <<>>, ~Head(q).more
  PROVE  Session(ids, d, Append(e, Shown(Head(q))), Tail(q), t, h, n)
<1> DEFINE e2 == Append(e, Shown(Head(q)))
           q2 == Tail(q)
<1>1. Typed(ids, d, e2, q2, t, h, n) /\ \A r : InOrder(r, e, q) => InOrder(r, e2, q2)
  BY WriteTyped
<1>2. ASSUME NEW r \in Peers \ {0}
      PROVE  Flow(r, d, e2, q2) = Flow(r, d, e, q)
  <2> DEFINE f == Flow(r, d, e, q)
             g == Flow(r, d, e2, q2)
  <2>1. /\ f \in Flows /\ g \in Flows
        /\ g.oks = f.oks /\ g.data = f.data /\ g.ends = f.ends /\ SameIn(f, g)
        /\ f.more = g.more + Mark(Head(q).more /\ Head(q).remote = r)
    BY WriteTyped
  <2>2. Mark(Head(q).more /\ Head(q).remote = r) = 0
    BY DEF Mark
  <2> HIDE DEF f, g
  <2>3. SameOut(f, g)
    BY <2>1, <2>2 DEF SameOut, Flows
  <2> QED BY <2>1, <2>3, SameFlow DEF f, g
<1>3. 0 \notin Peers
  BY ServiceTableAssumption
<1> HIDE DEF e2, q2
<1>4. Session(ids, d, e2, q2, t, h, n)
  BY <1>1, <1>2, <1>3, OneStream
<1> QED BY <1>4 DEF e2, q2

\* The frame of an answer is sent once more, with the data.
LEMMA MoreFrame ==
  ASSUME NEW ids, NEW m \in WireFrames(ids), m.more
  PROVE  LET x == [m EXCEPT !.cmd = "WRTE", !.more = FALSE]
         IN /\ x \in WireFrames(ids)
            /\ x.cmd = "WRTE" /\ x.remote = m.remote /\ x.more = FALSE
<1> DEFINE x == [m EXCEPT !.cmd = "WRTE", !.more = FALSE]
<1>1. m \in WireFrame /\ m.cmd = "OKAY" /\ Named(ids, m.remote, m.local)
  BY DEF WireFrames
<1>2. /\ x \in WireFrame /\ x.cmd = "WRTE" /\ x.remote = m.remote
      /\ x.local = m.local /\ x.more = FALSE
  BY <1>1 DEF WireFrame, Commands
<1> QED BY <1>1, <1>2 DEF WireFrames

LEMMA WrittenMoreSession ==
  ASSUME NEW ids, NEW d, NEW e, NEW q, NEW t, NEW h, NEW n,
         Session(ids, d, e, q, t, h, n), q # <<>>, Head(q).more,
         NEW x \in WireFrames(ids), x.cmd = "WRTE", x.more = FALSE,
         x.remote = Head(q).remote
  PROVE  Session(ids, d, Append(e, Shown(Head(q))), Append(Tail(q), x), t, h, n)
<1> DEFINE y == Head(q)
           p == y.remote
           e2 == Append(e, Shown(y))
           q2 == Tail(q)
           q3 == Append(q2, x)
<1>1. /\ Typed(ids, d, e2, q2, t, h, n) /\ y \in WireFrames(ids)
      /\ \A r : InOrder(r, e, q) => InOrder(r, e2, q2)
  BY WriteTyped
<1>2. /\ y.cmd = "OKAY" /\ Named(ids, p, y.local) /\ p \in Peers /\ ids[p] # 0
      /\ y.more = TRUE /\ y \in WireFrame
  BY <1>1, ShownFrame DEF WireFrames, Named, Ids
<1>3. x \in WireFrames(ids) /\ x.cmd = "WRTE" /\ x.remote = p /\ x.more = FALSE
  OBVIOUS
<1>4. e2 \in Seq(SeenFrames(ids)) /\ q2 \in Seq(WireFrames(ids))
  BY <1>1 DEF Typed
<1>5. Typed(ids, d, e2, q3, t, h, n)
  BY <1>1, <1>3, <1>4, AppendProperties DEF Typed
<1>6. ASSUME NEW r \in Peers \ {p}
      PROVE  /\ Flow(r, d, e2, q3) = Flow(r, d, e, q)
             /\ InOrder(r, e, q) => InOrder(r, e2, q3)
  <2> DEFINE f == Flow(r, d, e, q)
             g == Flow(r, d, e2, q2)
  <2>1. /\ f \in Flows /\ g \in Flows
        /\ g.oks = f.oks /\ g.data = f.data /\ g.ends = f.ends /\ SameIn(f, g)
        /\ f.more = g.more + Mark(y.more /\ y.remote = r)
    BY WriteTyped
  <2>2. Mark(y.more /\ y.remote = r) = 0
    BY DEF Mark
  <2> HIDE DEF f, g
  <2>3. SameOut(f, g)
    BY <2>1, <2>2 DEF SameOut, Flows
  <2>4. g = f
    BY <2>1, <2>3, SameFlow DEF f, g
  <2> HIDE DEF y, p, e2, q2
  <2>5. Flow(r, d, e2, q3) = g
    BY <1>3, <1>4, QueueFlow DEF g
  <2>6. InOrder(r, e, q) => InOrder(r, e2, q3)
    BY <1>1, <1>3, <1>4, OrderQueue
  <2> QED BY <2>4, <2>5, <2>6 DEF f
<1> DEFINE f == Flow(p, d, e, q)
           g == Flow(p, d, e2, q2)
           k == Flow(p, d, e2, q3)
<1>7. /\ f \in Flows /\ g \in Flows
      /\ g.oks = f.oks /\ g.data = f.data /\ g.ends = f.ends /\ SameIn(f, g)
      /\ f.more = g.more + 1
  <2>1. Mark(y.more /\ y.remote = p) = 1
    BY DEF Mark
  <2> QED BY <2>1, WriteTyped
<1>8. k \in Flows /\ OutMore(g, k, "WRTE", FALSE) /\ SameIn(g, k)
  <2>1. k \in Flows
    BY <1>5, FlowType DEF Typed
  <2> HIDE DEF y, p, e2, q2
  <2>2. OutMore(g, k, x.cmd, x.more) /\ SameIn(g, k)
    BY <1>3, <1>4, QueueFlow
  <2> HIDE DEF g, k
  <2> QED BY <1>3, <2>1, <2>2
<1>9. /\ StreamOK(f, h[p], ids[p], At(t, ids[p])) /\ h[p] \in HostStream
      /\ Fit(At(t, ids[p]))
      /\ h[p].st = "opening" => InOrder(p, e, q)
  BY <1>2, Stream
<1>10. g.oks > 0
  <2>1. Shown(y) \in SeenFrames(ids) /\ Shown(y).cmd = "OKAY" /\ Shown(y).remote = p
    BY <1>1, <1>2, ShownFrame
  <2>2. Shown(y) \in Seen(p, "OKAY")
    BY <2>1, Members DEF Seen
  <2>3. Len(e) + 1 \in DOMAIN e2 /\ e2[Len(e) + 1] = Shown(y)
    <3>1. e \in Seq(SeenFrames(ids))
      BY DEF Session, Typed
    <3> QED BY <2>1, <3>1, AppendProperties
  <2>4. Count(e2, Seen(p, "OKAY")) > 0
    BY <1>4, <2>2, <2>3, CountSome
  <2>5. Count(e2, Seen(p, "OKAY")) \in Nat /\ Count(q2, Wired(p, "OKAY")) \in Nat
    BY <1>4, CountType
  <2>6. g.oks = Count(e2, Seen(p, "OKAY")) + Count(q2, Wired(p, "OKAY"))
    BY DEF Flow
  <2> QED BY <2>4, <2>5, <2>6
<1>11. h[p].st = "opening" => InOrder(p, e2, q3)
  <2>1. InOrder(p, e, q) => InOrder(p, e2, q2)
    BY <1>1
  <2> HIDE DEF y, p, e2, q2
  <2> QED BY <1>3, <1>4, <1>9, <1>10, <2>1, OrderQueue
<1> HIDE DEF f, g, k, y, p, e2, q2, q3
<1>12. /\ SameIn(f, k) /\ k.oks = f.oks /\ k.data = f.data + 1 /\ k.ends = f.ends
       /\ f.more = k.more + 1
  BY <1>7, <1>8 DEF SameIn, OutMore, Mark, Flows
<1>13. StreamOK(k, h[p], ids[p], At(t, ids[p]))
  BY <1>2, <1>7, <1>8, <1>9, <1>12, MoreOK
<1>14. Session(ids, d, e2, q3, t, h, n)
  BY <1>5, <1>6, <1>11, <1>13, OneStream DEF k
<1> QED BY <1>14 DEF e2, q3, q2, y

LEMMA DeviceWroteSession ==
  ASSUME NEW ids, Here(ids), DeviceWrote
  PROVE  Here(ids)'
<1> DEFINE y == Head(wq)
           e2 == Append(toHost, Shown(y))
<1>1. /\ Session(ids, toDev, toHost, wq, svc, hs, next_service_id) /\ conn = "up"
      /\ wq # <<>> /\ wq \in Seq(WireFrames(ids))
  BY DEF Here, Session, Typed, DeviceWrote, HostWriteDone
<1>2. /\ toHost' = e2 /\ UNCHANGED <<toDev, hs, next_service_id>>
  BY DEF DeviceWrote, HostWriteDone, Shown
<1>3. y \in WireFrames(ids) /\ y.f \in Frames
  <2>1. y \in WireFrames(ids)
    BY <1>1, HeadTailProperties
  <2> QED BY <2>1, ShownFrame
<1>4. CASE /\ y.more
           /\ SendFrame([y EXCEPT !.cmd = "WRTE", !.more = FALSE], Tail(wq))
           /\ UNCHANGED svc
  <2> DEFINE x == [y EXCEPT !.cmd = "WRTE", !.more = FALSE]
  <2>1. conn' = "up" /\ wq' = Append(Tail(wq), x) /\ svc' = svc
    BY <1>1, <1>4, SendUp
  <2>2. /\ x \in WireFrames(ids)
        /\ x.cmd = "WRTE" /\ x.remote = y.remote /\ x.more = FALSE
    BY <1>3, <1>4, MoreFrame
  <2> HIDE DEF x
  <2>3. Session(ids, toDev, e2, Append(Tail(wq), x), svc, hs, next_service_id)
    BY <1>1, <1>4, <2>2, WrittenMoreSession
  <2> HIDE DEF e2
  <2> QED BY <1>2, <2>1, <2>3, HereNext
<1>5. CASE ~y.more /\ Release(y.f, svc, Tail(wq)) /\ UNCHANGED conn
  <2>1. Session(ids, toDev, e2, Tail(wq), svc, hs, next_service_id)
    BY <1>1, <1>5, WrittenSession
  <2> HIDE DEF e2, y
  <2>2. Session(ids, toDev, e2, wq', svc', hs, next_service_id)
    BY <1>1, <1>3, <1>5, <2>1, ReleaseSession
  <2> QED BY <1>1, <1>2, <1>5, <2>2, HereNext
<1> QED BY <1>4, <1>5 DEF DeviceWrote, HostWriteDone
-----------------------------------------------------------------------------
(* What a step of the host makes of the stream: r and s are its ends of it   *)
(* before and after                                                          *)

LEMMA NoFrames ==
  ASSUME NEW f \in Flows,
         f.writes + f.acks + f.closes + f.oks + f.data + f.more = 0
  PROVE  /\ f.writes = 0 /\ f.acks = 0 /\ f.closes = 0
         /\ f.oks = 0 /\ f.data = 0 /\ f.more = 0
BY DEF Flows

LEMMA AskedOK ==
  ASSUME NEW f \in Flows, NEW g \in Flows, NEW r \in HostStream, NEW o, NEW x,
         StreamOK(f, r, o, x), o = 0 => x = Unused, r.st = "idle",
         InMore(f, g, "OPEN"), SameOut(f, g),
         NEW s \in HostStream, s.st = "opening", s.unacked = r.unacked
  PROVE  StreamOK(g, s, o, x) /\ f.data = 0
<1>1. /\ g.opens = f.opens + 1 /\ g.writes = f.writes /\ g.acks = f.acks
      /\ g.closes = f.closes /\ g.oks = f.oks /\ g.data = f.data
      /\ g.ends = f.ends /\ g.more = f.more
  BY DEF InMore, SameOut, Mark, Flows
<1>2. /\ f.opens = 0 /\ f.ends = 0 /\ o = 0 /\ x = Unused /\ ~r.unacked
      /\ f.writes + f.acks + f.closes + f.oks + f.data + f.more = 0
  BY DEF StreamOK, AskingOK, Asking
<1>3. /\ f.writes = 0 /\ f.acks = 0 /\ f.closes = 0 /\ f.oks = 0 /\ f.data = 0
      /\ f.more = 0
  BY <1>2, NoFrames
<1>4. x.st = "unused" /\ x.q = {}
  BY <1>2 DEF Unused
<1>5. AskingOK(g, s, o, x)
  BY <1>1, <1>2, <1>3, <1>4 DEF AskingOK, Asking
<1>6. OpenOK(g, s, o, x)
  BY DEF OpenOK
<1>7. ServiceOK(g, s, x)
  BY <1>1, <1>3, <1>4 DEF ServiceOK, Alive, Young
<1> QED BY <1>3, <1>5, <1>6, <1>7 DEF StreamOK

LEMMA SaidOK ==
  ASSUME NEW f \in Flows, NEW g \in Flows, NEW r \in HostStream, NEW o, NEW x,
         StreamOK(f, r, o, x), Fit(x), r.st = "open", ~r.unacked,
         InMore(f, g, "WRTE"), SameOut(f, g),
         NEW s \in HostStream, s.st = "open", s.id = r.id, s.unacked = TRUE
  PROVE  StreamOK(g, s, o, x)
<1>1. /\ g.opens = f.opens /\ g.writes = f.writes + 1 /\ g.acks = f.acks
      /\ g.closes = f.closes /\ g.oks = f.oks /\ g.data = f.data
      /\ g.ends = f.ends /\ g.more = f.more
  BY DEF InMore, SameOut, Mark, Flows
<1>2. Cardinality(x.q) \in Nat
  BY FS_CardinalityType DEF Fit
<1>3. AskingOK(g, s, o, x)
  <2>1. o # 0
    BY DEF StreamOK, OpenOK
  <2> QED BY <1>1, <2>1 DEF StreamOK, AskingOK, Flows, Asking
<1>4. OpenOK(g, s, o, x)
  <2>1. /\ o # 0 /\ r.id = o /\ (f.ends > 0 \/ x.st = "open")
        /\ f.writes + Cardinality(x.q) + f.oks <= 0
    BY DEF StreamOK, OpenOK
  <2>2. g.writes + Cardinality(x.q) + g.oks = 1
    BY <1>1, <1>2, <2>1 DEF Flows
  <2> QED BY <1>1, <2>1, <2>2 DEF OpenOK
<1>5. ServiceOK(g, s, x)
  BY <1>1 DEF StreamOK, ServiceOK, Asking
<1> QED BY <1>3, <1>4, <1>5 DEF StreamOK

\* The host closes a stream it has open, or learns the id of one it gave up.
LEMMA HostClosedOK ==
  ASSUME NEW f \in Flows, NEW g \in Flows, NEW r \in HostStream, NEW o, NEW x,
         StreamOK(f, r, o, x), o # 0,
         r.st = "open" \/ (r.st = "abandoned" /\ f.oks > 0),
         InMore(f, g, "CLSE"), g.oks <= f.oks, g.data = f.data,
         g.ends = f.ends, g.more = f.more,
         NEW s \in HostStream, s.st = "closed"
  PROVE  StreamOK(g, s, o, x)
<1>1. /\ g.opens = f.opens /\ g.writes = f.writes /\ g.acks = f.acks
      /\ g.closes = f.closes + 1
  BY DEF InMore, Mark, Flows
<1>2. AskingOK(g, s, o, x) /\ f.opens = 0
  BY <1>1 DEF StreamOK, AskingOK, Flows, Asking
<1>3. OpenOK(g, s, o, x)
  BY DEF OpenOK
<1>4. ServiceOK(g, s, x)
  <2>1. ~Young(x)
    <3>1. CASE r.st = "open"
      BY <3>1 DEF StreamOK, ServiceOK, Asking
    <3>2. CASE r.st = "abandoned" /\ f.oks > 0
      BY <3>2 DEF StreamOK, ServiceOK
    <3> QED BY <3>1, <3>2
  <2> QED BY <1>1, <2>1 DEF StreamOK, ServiceOK, Flows, Asking
<1> QED BY <1>2, <1>3, <1>4 DEF StreamOK

LEMMA GivenUpOK ==
  ASSUME NEW f, NEW r \in HostStream, NEW o, NEW x,
         StreamOK(f, r, o, x), r.st = "opening",
         NEW s \in HostStream, s.st = "abandoned", s.unacked = r.unacked
  PROVE  StreamOK(f, s, o, x)
<1>1. Asking(r) /\ Asking(s)
  BY DEF Asking
<1>2. AskingOK(f, s, o, x)
  BY <1>1 DEF StreamOK, AskingOK
<1>3. OpenOK(f, s, o, x)
  BY DEF OpenOK
<1>4. ServiceOK(f, s, x)
  BY <1>1 DEF StreamOK, ServiceOK
<1> QED BY <1>2, <1>3, <1>4 DEF StreamOK

\* The first OKAY names the stream.
LEMMA AnnouncedOK ==
  ASSUME NEW f \in Flows, NEW g \in Flows, NEW r \in HostStream, NEW o, NEW x,
         StreamOK(f, r, o, x), Fit(x), r.st = "opening",
         SameIn(g, f), OutMore(g, f, "OKAY", FALSE),
         NEW s \in HostStream, s.st = "open", s.id = o, s.unacked = r.unacked
  PROVE  StreamOK(g, s, o, x)
<1>1. /\ g.opens = f.opens /\ g.writes = f.writes /\ g.acks = f.acks
      /\ g.closes = f.closes /\ f.oks = g.oks + 1 /\ g.data = f.data
      /\ g.ends = f.ends /\ g.more = f.more
  BY DEF SameIn, OutMore, Mark, Flows
<1>2. Asking(r) /\ f.oks > 0 /\ o # 0
  <2>1. f.oks > 0
    BY <1>1 DEF Flows
  <2> QED BY <2>1 DEF Asking, StreamOK, AskingOK, Flows
<1>3. /\ f.opens = 0 /\ f.closes = 0 /\ g.oks = 0 /\ f.writes = 0 /\ x.q = {}
      /\ ~r.unacked /\ (f.ends > 0 \/ Alive(x))
  BY <1>1, <1>2 DEF StreamOK, AskingOK, Flows
<1>4. ~Young(x)
  BY <1>1, <1>2 DEF StreamOK, ServiceOK
<1>5. Cardinality(x.q) = 0
  BY <1>3, FS_EmptySet
<1>6. AskingOK(g, s, o, x)
  BY <1>1, <1>2, <1>3 DEF StreamOK, AskingOK, Flows, Asking
<1>7. OpenOK(g, s, o, x)
  BY <1>1, <1>2, <1>3, <1>4, <1>5 DEF OpenOK, Alive
<1>8. ServiceOK(g, s, x)
  BY <1>1, <1>4 DEF StreamOK, ServiceOK
<1> QED BY <1>6, <1>7, <1>8 DEF StreamOK

\* A later OKAY answers the WRTE.
LEMMA HeardOkayOK ==
  ASSUME NEW f \in Flows, NEW g \in Flows, NEW r \in HostStream, NEW o, NEW x,
         StreamOK(f, r, o, x), Fit(x),
         SameIn(g, f), OutMore(g, f, "OKAY", FALSE),
         NEW s \in HostStream, s.st = r.st, s.id = r.id,
         \/ r.st = "open" /\ s.unacked = FALSE
         \/ r.st = "closed"
  PROVE  StreamOK(g, s, o, x)
<1>1. /\ g.opens = f.opens /\ g.writes = f.writes /\ g.acks = f.acks
      /\ g.closes = f.closes /\ f.oks = g.oks + 1 /\ g.data = f.data
      /\ g.ends = f.ends /\ g.more = f.more
  BY DEF SameIn, OutMore, Mark, Flows
<1>2. Cardinality(x.q) \in Nat
  BY FS_CardinalityType DEF Fit
<1>3. o # 0
  BY <1>1 DEF StreamOK, AskingOK, Flows
<1>4. AskingOK(g, s, o, x)
  BY <1>1, <1>3 DEF StreamOK, AskingOK, Flows, Asking
<1>5. OpenOK(g, s, o, x)
  BY <1>1, <1>2 DEF StreamOK, OpenOK, Flows
<1>6. ServiceOK(g, s, x)
  BY <1>1 DEF StreamOK, ServiceOK, Asking
<1> QED BY <1>4, <1>5, <1>6 DEF StreamOK

\* Data is acknowledged while the stream is open.
LEMMA HeardDataOK ==
  ASSUME NEW f \in Flows, NEW g \in Flows, NEW r \in HostStream, NEW o, NEW x,
         StreamOK(f, r, o, x), o # 0,
         g.data + 1 = f.data, g.oks = f.oks, g.ends = f.ends, g.more = f.more,
         \/ r.st = "open" /\ InMore(f, g, "OKAY")
         \/ r.st \notin {"open", "opening"} /\ SameIn(f, g)
  PROVE  StreamOK(g, r, o, x)
<1>1. /\ g.opens = f.opens /\ g.writes = f.writes /\ g.closes = f.closes
      /\ g.acks = f.acks + (IF r.st = "open" THEN 1 ELSE 0)
  BY DEF InMore, SameIn, Mark, Flows
<1>2. AskingOK(g, r, o, x)
  BY <1>1 DEF StreamOK, AskingOK, Flows, Asking
<1>3. OpenOK(g, r, o, x)
  BY <1>1 DEF StreamOK, OpenOK
<1>4. Young(x) => FALSE
  BY DEF StreamOK, ServiceOK, Flows
<1>5. ServiceOK(g, r, x)
  BY <1>1, <1>4 DEF StreamOK, ServiceOK, Flows
<1> QED BY <1>2, <1>3, <1>5 DEF StreamOK

\* The end of the stream.
LEMMA HeardEndOK ==
  ASSUME NEW f \in Flows, NEW g \in Flows, NEW r \in HostStream, NEW o, NEW x,
         StreamOK(f, r, o, x), SameIn(g, f), OutMore(g, f, "CLSE", FALSE),
         NEW s \in HostStream, s.st = "closed"
  PROVE  StreamOK(g, s, o, x)
<1>1. /\ g.opens = f.opens /\ g.writes = f.writes /\ g.acks = f.acks
      /\ g.closes = f.closes /\ g.oks = f.oks /\ g.data = f.data
      /\ f.ends = g.ends + 1 /\ g.more = f.more
  BY DEF SameIn, OutMore, Mark, Flows
<1>2. f.ends > 0 /\ ~Alive(x) /\ f.opens = 0 /\ r.st # "idle"
  BY <1>1 DEF StreamOK, AskingOK, ServiceOK, Flows
<1>3. AskingOK(g, s, o, x)
  BY <1>1, <1>2 DEF StreamOK, AskingOK, Flows, Asking
<1>4. OpenOK(g, s, o, x)
  BY DEF OpenOK
<1>5. ServiceOK(g, s, x)
  BY <1>1, <1>2 DEF StreamOK, ServiceOK, Alive
<1> QED BY <1>3, <1>4, <1>5 DEF StreamOK
-----------------------------------------------------------------------------
(* The steps of the host *)

\* Without data there is nothing to be out of order.
LEMMA NoData ==
  ASSUME NEW ids, NEW d, NEW e \in Seq(SeenFrames(ids)),
         NEW q \in Seq(WireFrames(ids)), NEW p, Flow(p, d, e, q).data = 0
  PROVE  InOrder(p, e, q)
<1>1. Count(e, Seen(p, "WRTE")) \in Nat /\ Count(q, Wired(p, "WRTE")) \in Nat
  BY CountType
<1>2. Count(e, Seen(p, "WRTE")) + Count(q, Wired(p, "WRTE")) = 0
  BY DEF Flow
<1>3. ~(Count(e, Seen(p, "WRTE")) > 0) /\ ~(Count(q, Wired(p, "WRTE")) > 0)
  BY <1>1, <1>2
<1> QED BY <1>3, CountSome DEF InOrder

\* The host sends a frame of stream p, or none; and sees one, or none.
Says(ids, p, d, k) ==
  k = d \/ \E x \in SentFrames(ids) : x.peer = p /\ k = Append(d, x)

Hears(p, e, k) == k = e \/ (e # <<>> /\ Head(e).remote = p /\ k = Tail(e))

LEMMA HostMove ==
  ASSUME NEW ids, NEW d, NEW e, NEW q, NEW t, NEW h, NEW n,
         Session(ids, d, e, q, t, h, n), NEW p \in Peers,
         NEW d2, Says(ids, p, d, d2), NEW e2, Hears(p, e, e2),
         NEW s \in HostStream, s.id \in {0, ids[p]},
         s.st = "opening" => InOrder(p, e2, q),
         StreamOK(Flow(p, d2, e2, q), s, ids[p], At(t, ids[p]))
  PROVE  Session(ids, d2, e2, q, t, [h EXCEPT ![p] = s], n)
<1> DEFINE h2 == [h EXCEPT ![p] = s]
<1>1. /\ Typed(ids, d, e, q, t, h, n)
      /\ d \in Seq(SentFrames(ids)) /\ e \in Seq(SeenFrames(ids))
      /\ q \in Seq(WireFrames(ids)) /\ h \in [Peers -> HostStream]
  BY DEF Session, Typed
<1>2. /\ e2 \in Seq(SeenFrames(ids))
      /\ \A r \in Peers \ {p} : /\ Flow(r, d, e2, q) = Flow(r, d, e, q)
                                /\ InOrder(r, e, q) => InOrder(r, e2, q)
  <2>1. CASE e2 = e
    BY <1>1, <2>1
  <2>2. CASE e # <<>> /\ Head(e).remote = p /\ e2 = Tail(e)
    <3>1. Tail(e) \in Seq(SeenFrames(ids))
      BY <1>1, <2>2, HearFlow
    <3>2. ASSUME NEW r \in Peers, r # p
          PROVE  /\ Flow(r, d, Tail(e), q) = Flow(r, d, e, q)
                 /\ InOrder(r, e, q) => InOrder(r, Tail(e), q)
      <4>1. Head(e).remote # r /\ e # <<>>
        BY <2>2, <3>2
      <4>2. Flow(r, d, Tail(e), q) = Flow(r, d, e, q)
        BY <1>1, <4>1, HearOther
      <4>3. Head(e) \notin Seen(r, "OKAY")
        BY <4>1 DEF Seen
      <4>4. InOrder(r, e, q) => InOrder(r, Tail(e), q)
        BY <1>1, <2>2, <4>3, OrderHear
      <4> QED BY <4>2, <4>4
    <3> QED BY <2>2, <3>1, <3>2
  <2> QED BY <2>1, <2>2 DEF Hears
<1>3. /\ d2 \in Seq(SentFrames(ids))
      /\ \A r \in Peers \ {p} : Flow(r, d2, e2, q) = Flow(r, d, e2, q)
  <2>1. CASE d2 = d
    BY <1>1, <2>1
  <2>2. CASE d2 # d
    <3>1. PICK x \in SentFrames(ids) : x.peer = p /\ d2 = Append(d, x)
      BY <2>2 DEF Says
    <3>2. d2 \in Seq(SentFrames(ids))
      BY <1>1, <3>1, AppendProperties
    <3>3. ASSUME NEW r \in Peers, r # p
          PROVE  Flow(r, Append(d, x), e2, q) = Flow(r, d, e2, q)
      <4>1. x.peer # r
        BY <3>1, <3>3
      <4> QED BY <1>1, <4>1, SendFlow
    <3> QED BY <3>1, <3>2, <3>3
  <2> QED BY <2>1, <2>2
<1>4. /\ h2 \in [Peers -> HostStream] /\ h2[p] = s
      /\ \A r \in Peers \ {p} : h2[r] = h[r]
  BY <1>1
<1> HIDE DEF h2
<1>5. \A r \in Peers : h2[r].id \in {0, ids[r]}
  BY <1>1, <1>4 DEF Typed
<1>6. Typed(ids, d2, e2, q, t, h2, n)
  BY <1>1, <1>2, <1>3, <1>4, <1>5 DEF Typed
<1>7. \A r \in Peers \ {p} : /\ Flow(r, d2, e2, q) = Flow(r, d, e, q)
                             /\ h2[r] = h[r] /\ At(t, ids[r]) = At(t, ids[r])
                             /\ InOrder(r, e, q) => InOrder(r, e2, q)
  BY <1>2, <1>3, <1>4
<1>8. Session(ids, d2, e2, q, t, h2, n)
  BY <1>4, <1>6, <1>7, OneStream
<1> QED BY <1>8 DEF h2


LEMMA StreamHere ==
  ASSUME NEW ids, Here(ids), NEW p \in Peers
  PROVE  LET f == Flow(p, toDev, toHost, wq)
             x == At(svc, ids[p])
         IN /\ Session(ids, toDev, toHost, wq, svc, hs, next_service_id)
            /\ conn = "up" /\ hs \in [Peers -> HostStream]
            /\ toDev \in Seq(SentFrames(ids)) /\ toHost \in Seq(SeenFrames(ids))
            /\ wq \in Seq(WireFrames(ids))
            /\ StreamOK(f, hs[p], ids[p], x) /\ f \in Flows
            /\ hs[p] \in HostStream /\ hs[p].id \in {0, ids[p]}
            /\ Fit(x) /\ ids[p] \in Ids \cup {0}
            /\ hs[p].st = "opening" => InOrder(p, toHost, wq)
            /\ ids[p] = 0 => x = Unused
<1>1. /\ Session(ids, toDev, toHost, wq, svc, hs, next_service_id) /\ conn = "up"
      /\ hs \in [Peers -> HostStream] /\ hs[p].id \in {0, ids[p]}
      /\ toDev \in Seq(SentFrames(ids)) /\ toHost \in Seq(SeenFrames(ids))
      /\ wq \in Seq(WireFrames(ids))
  BY DEF Here, Session, Typed
<1>2. ids[p] = 0 => At(svc, ids[p]) = Unused
  BY DEF At
<1> QED BY <1>1, <1>2, Stream

\* A frame the host says about a stream.
LEMMA SayFrame ==
  ASSUME NEW ids, NEW p \in Peers, NEW i \in Ids, ids[p] = i,
         NEW cmd \in {"WRTE", "OKAY", "CLSE"}
  PROVE  /\ Say(cmd, p, i) \in SentFrames(ids)
         /\ Say(cmd, p, i).peer = p /\ Say(cmd, p, i).cmd = cmd
<1>1. Say(cmd, p, i) \in DevFrame /\ Say(cmd, p, i).peer = p /\ Say(cmd, p, i).cmd = cmd
      /\ Say(cmd, p, i).id = i
  BY DEF Say, DevFrame
<1> QED BY <1>1 DEF SentFrames, Named

LEMMA Sends ==
  ASSUME NEW ids, NEW d \in Seq(SentFrames(ids)), NEW e \in Seq(SeenFrames(ids)),
         NEW q \in Seq(WireFrames(ids)), NEW p, NEW x \in SentFrames(ids), x.peer = p
  PROVE  LET f == Flow(p, d, e, q)
             g == Flow(p, Append(d, x), e, q)
         IN /\ g \in Flows /\ InMore(f, g, x.cmd) /\ SameOut(f, g)
            /\ Says(ids, p, d, Append(d, x)) /\ Hears(p, e, e)
<1>1. Append(d, x) \in Seq(SentFrames(ids))
  BY AppendProperties
<1>2. Flow(p, Append(d, x), e, q) \in Flows
  BY <1>1, FlowType
<1>3. Says(ids, p, d, Append(d, x)) /\ Hears(p, e, e)
  BY DEF Says, Hears
<1> QED BY <1>2, <1>3, SendFlow

LEMMA HostOpenSession ==
  ASSUME NEW ids, Here(ids), NEW p \in Peers, NEW kind \in Kinds, HostOpen(p, kind)
  PROVE  Here(ids)'
<1> DEFINE f == Flow(p, toDev, toHost, wq)
           x == [Say("OPEN", p, 0) EXCEPT !.kind = kind]
           d2 == Append(toDev, x)
           g == Flow(p, d2, toHost, wq)
           s == [hs[p] EXCEPT !.st = "opening"]
           o == ids[p]
           y == At(svc, o)
<1>1. /\ Session(ids, toDev, toHost, wq, svc, hs, next_service_id)
      /\ conn = "up" /\ hs \in [Peers -> HostStream]
      /\ toDev \in Seq(SentFrames(ids)) /\ toHost \in Seq(SeenFrames(ids))
      /\ wq \in Seq(WireFrames(ids))
      /\ StreamOK(f, hs[p], o, y) /\ f \in Flows
      /\ hs[p] \in HostStream /\ hs[p].id \in {0, o}
      /\ o = 0 => y = Unused
  BY StreamHere
<1>2. x \in SentFrames(ids) /\ x.peer = p /\ x.cmd = "OPEN"
  <2>1. x \in DevFrame /\ x.peer = p /\ x.cmd = "OPEN" /\ x.kind = kind
    BY DEF Say, DevFrame
  <2> QED BY <2>1 DEF SentFrames
<1>3. /\ hs[p].st = "idle" /\ toDev' = d2 /\ hs' = [hs EXCEPT ![p] = s]
      /\ UNCHANGED <<toHost, conn, wq, svc, next_service_id>>
  BY <1>1 DEF HostOpen, Tell, vars
<1>4. s \in HostStream /\ s.st = "opening" /\ s.unacked = hs[p].unacked /\ s.id \in {0, o}
  BY <1>1 DEF HostStream
<1> HIDE DEF x, s
<1>5. /\ g \in Flows /\ InMore(f, g, "OPEN") /\ SameOut(f, g)
      /\ Says(ids, p, toDev, d2) /\ Hears(p, toHost, toHost)
  BY <1>1, <1>2, Sends
<1> HIDE DEF d2
<1> HIDE DEF f, g, o, y
<1>6. StreamOK(g, s, o, y) /\ f.data = 0
  BY <1>1, <1>3, <1>4, <1>5, AskedOK
<1>7. InOrder(p, toHost, wq)
  BY <1>1, <1>6, NoData DEF f
<1>8. Session(ids, d2, toHost, wq, svc, [hs EXCEPT ![p] = s], next_service_id)
  BY <1>1, <1>4, <1>5, <1>6, <1>7, HostMove DEF g, o, y
<1> QED BY <1>1, <1>3, <1>8, HereNext

LEMMA HostWriteSession ==
  ASSUME NEW ids, Here(ids), NEW p \in Peers, HostWrite(p)
  PROVE  Here(ids)'
<1> DEFINE f == Flow(p, toDev, toHost, wq)
           o == ids[p]
           x == Say("WRTE", p, o)
           d2 == Append(toDev, x)
           g == Flow(p, d2, toHost, wq)
           s == [hs[p] EXCEPT !.unacked = TRUE, !.writes = @ + 1]
           y == At(svc, o)
<1>1. /\ Session(ids, toDev, toHost, wq, svc, hs, next_service_id)
      /\ conn = "up" /\ hs \in [Peers -> HostStream]
      /\ toDev \in Seq(SentFrames(ids)) /\ toHost \in Seq(SeenFrames(ids))
      /\ wq \in Seq(WireFrames(ids))
      /\ StreamOK(f, hs[p], o, y) /\ f \in Flows
      /\ hs[p] \in HostStream /\ hs[p].id \in {0, o} /\ Fit(y) /\ o \in Ids \cup {0}
  BY StreamHere
<1>2. hs[p].st = "open" /\ ~hs[p].unacked /\ hs[p].writes < MaxWrites
  BY DEF HostWrite
<1>3. o \in Ids /\ hs[p].id = o
  BY <1>1, <1>2 DEF StreamOK, OpenOK
<1>4. x \in SentFrames(ids) /\ x.peer = p /\ x.cmd = "WRTE"
  BY <1>3, SayFrame
<1>5. /\ toDev' = d2 /\ hs' = [hs EXCEPT ![p] = s]
      /\ UNCHANGED <<toHost, conn, wq, svc, next_service_id>>
  BY <1>1, <1>3 DEF HostWrite, Tell, vars
<1>6. s \in HostStream /\ s.st = "open" /\ s.unacked = TRUE /\ s.id = hs[p].id
  <2>1. hs[p].writes + 1 \in 0..MaxWrites
    BY <1>1, <1>2, HostAssumption DEF HostStream
  <2> QED BY <1>1, <1>2, <2>1 DEF HostStream
<1> HIDE DEF x, s
<1>7. /\ g \in Flows /\ InMore(f, g, "WRTE") /\ SameOut(f, g)
      /\ Says(ids, p, toDev, d2) /\ Hears(p, toHost, toHost)
  BY <1>1, <1>4, Sends
<1> HIDE DEF d2, f, g, o, y
<1>8. StreamOK(g, s, o, y)
  BY <1>1, <1>2, <1>6, <1>7, SaidOK
<1>9. s.st # "opening" /\ s.id \in {0, o}
  BY <1>1, <1>6
<1>10. Session(ids, d2, toHost, wq, svc, [hs EXCEPT ![p] = s], next_service_id)
  BY <1>1, <1>6, <1>7, <1>8, <1>9, HostMove DEF g, o, y
<1> QED BY <1>1, <1>5, <1>10, HereNext

LEMMA HostCloseSession ==
  ASSUME NEW ids, Here(ids), NEW p \in Peers, HostClose(p)
  PROVE  Here(ids)'
<1> DEFINE f == Flow(p, toDev, toHost, wq)
           o == ids[p]
           x == Say("CLSE", p, o)
           d2 == Append(toDev, x)
           g == Flow(p, d2, toHost, wq)
           s == [hs[p] EXCEPT !.st = "closed"]
           y == At(svc, o)
<1>1. /\ Session(ids, toDev, toHost, wq, svc, hs, next_service_id)
      /\ conn = "up" /\ hs \in [Peers -> HostStream]
      /\ toDev \in Seq(SentFrames(ids)) /\ toHost \in Seq(SeenFrames(ids))
      /\ wq \in Seq(WireFrames(ids))
      /\ StreamOK(f, hs[p], o, y) /\ f \in Flows
      /\ hs[p] \in HostStream /\ hs[p].id \in {0, o} /\ Fit(y) /\ o \in Ids \cup {0}
  BY StreamHere
<1>2. hs[p].st = "open"
  BY DEF HostClose
<1>3. o \in Ids /\ hs[p].id = o /\ o # 0
  BY <1>1, <1>2 DEF StreamOK, OpenOK
<1>4. x \in SentFrames(ids) /\ x.peer = p /\ x.cmd = "CLSE"
  BY <1>3, SayFrame
<1>5. /\ toDev' = d2 /\ hs' = [hs EXCEPT ![p] = s]
      /\ UNCHANGED <<toHost, conn, wq, svc, next_service_id>>
  BY <1>1, <1>3 DEF HostClose, Tell, vars
<1>6. s \in HostStream /\ s.st = "closed" /\ s.id = hs[p].id
  BY <1>1 DEF HostStream
<1> HIDE DEF x, s
<1>7. /\ g \in Flows /\ InMore(f, g, "CLSE") /\ SameOut(f, g)
      /\ Says(ids, p, toDev, d2) /\ Hears(p, toHost, toHost)
  BY <1>1, <1>4, Sends
<1> HIDE DEF d2, f, g, o, y
<1>8. StreamOK(g, s, o, y)
  <2>1. g.oks <= f.oks /\ g.data = f.data /\ g.ends = f.ends /\ g.more = f.more
    BY <1>1, <1>7 DEF SameOut, Flows
  <2> QED BY <1>1, <1>2, <1>3, <1>6, <1>7, <2>1, HostClosedOK
<1>9. s.st # "opening" /\ s.id \in {0, o}
  BY <1>1, <1>6
<1>10. Session(ids, d2, toHost, wq, svc, [hs EXCEPT ![p] = s], next_service_id)
  BY <1>1, <1>6, <1>7, <1>8, <1>9, HostMove DEF g, o, y
<1> QED BY <1>1, <1>5, <1>10, HereNext

LEMMA HostAbandonSession ==
  ASSUME NEW ids, Here(ids), NEW p \in Peers, HostAbandon(p)
  PROVE  Here(ids)'
<1> DEFINE f == Flow(p, toDev, toHost, wq)
           o == ids[p]
           s == [hs[p] EXCEPT !.st = "abandoned"]
           y == At(svc, o)
<1>1. /\ Session(ids, toDev, toHost, wq, svc, hs, next_service_id)
      /\ conn = "up" /\ hs \in [Peers -> HostStream]
      /\ StreamOK(f, hs[p], o, y)
      /\ hs[p] \in HostStream /\ hs[p].id \in {0, o}
  BY StreamHere
<1>2. hs[p].st = "opening"
  BY DEF HostAbandon
<1>3. /\ hs' = [hs EXCEPT ![p] = s]
      /\ UNCHANGED <<toDev, toHost, conn, wq, svc, next_service_id>>
  BY <1>1 DEF HostAbandon, vars
<1>4. /\ s \in HostStream /\ s.st = "abandoned" /\ s.unacked = hs[p].unacked
      /\ s.id \in {0, o}
  BY <1>1 DEF HostStream
<1>5. Says(ids, p, toDev, toDev) /\ Hears(p, toHost, toHost)
  BY DEF Says, Hears
<1> HIDE DEF f, o, y, s
<1>6. StreamOK(f, s, o, y)
  BY <1>1, <1>2, <1>4, GivenUpOK
<1>7. s.st # "opening"
  BY <1>4
<1>8. Session(ids, toDev, toHost, wq, svc, [hs EXCEPT ![p] = s], next_service_id)
  BY <1>1, <1>4, <1>5, <1>6, <1>7, HostMove DEF f, o, y
<1> QED BY <1>1, <1>3, <1>8, HereNext

\* A frame of stream p that the host sees.
LEMMA HearOwn ==
  ASSUME NEW ids, NEW d \in Seq(SentFrames(ids)), NEW e \in Seq(SeenFrames(ids)),
         e # <<>>, NEW q \in Seq(WireFrames(ids)), NEW p, Head(e).remote = p
  PROVE  LET f == Flow(p, d, e, q)
             g == Flow(p, d, Tail(e), q)
         IN /\ g \in Flows /\ SameIn(g, f) /\ OutMore(g, f, Head(e).cmd, FALSE)
            /\ Hears(p, e, Tail(e))
            /\ Tail(e) \in Seq(SeenFrames(ids)) /\ Head(e) \in SeenFrames(ids)
<1>1. Tail(e) \in Seq(SeenFrames(ids)) /\ Head(e) \in SeenFrames(ids)
  BY HeadTailProperties
<1>2. Flow(p, d, Tail(e), q) \in Flows
  BY <1>1, FlowType
<1>3. Hears(p, e, Tail(e))
  BY DEF Hears
<1>4. /\ SameIn(Flow(p, d, Tail(e), q), Flow(p, d, e, q))
      /\ OutMore(Flow(p, d, Tail(e), q), Flow(p, d, e, q), Head(e).cmd, FALSE)
  BY HearFlow
<1> QED BY <1>1, <1>2, <1>3, <1>4

LEMMA HeardHere ==
  ASSUME NEW ids, Here(ids), toHost # <<>>, Heard, NEW p \in Peers,
         Head(toHost).remote = p
  PROVE  LET m == Head(toHost)
             f == Flow(p, toDev, toHost, wq)
             g == Flow(p, toDev, Tail(toHost), wq)
         IN /\ g \in Flows /\ SameIn(g, f) /\ OutMore(g, f, m.cmd, FALSE)
            /\ Hears(p, toHost, Tail(toHost)) /\ toHost' = Tail(toHost)
            /\ Tail(toHost) \in Seq(SeenFrames(ids)) /\ m \in SeenFrames(ids)
            /\ m.cmd \in {"OKAY", "WRTE"} => m.local = ids[p] /\ m.local \in Ids
            /\ hs[p].st = "opening" =>
                 /\ m.cmd # "WRTE"
                 /\ m.cmd # "OKAY" => InOrder(p, Tail(toHost), wq)
            /\ UNCHANGED <<conn, wq, svc, next_service_id>>
<1> DEFINE m == Head(toHost)
           f == Flow(p, toDev, toHost, wq)
           g == Flow(p, toDev, Tail(toHost), wq)
<1>1. /\ toDev \in Seq(SentFrames(ids)) /\ toHost \in Seq(SeenFrames(ids))
      /\ wq \in Seq(WireFrames(ids))
      /\ hs[p].st = "opening" => InOrder(p, toHost, wq)
  BY StreamHere
<1>2. /\ g \in Flows /\ SameIn(g, f) /\ OutMore(g, f, m.cmd, FALSE)
      /\ Hears(p, toHost, Tail(toHost))
      /\ Tail(toHost) \in Seq(SeenFrames(ids)) /\ m \in SeenFrames(ids)
  BY <1>1, HearOwn
<1>3. m.cmd \in {"OKAY", "WRTE"} => m.local = ids[p] /\ m.local \in Ids
  BY <1>2 DEF SeenFrames, Named
<1>4. ASSUME hs[p].st = "opening"
      PROVE  /\ m.cmd # "WRTE"
             /\ m.cmd # "OKAY" => InOrder(p, Tail(toHost), wq)
  <2>1. /\ m \notin Seen(p, "WRTE")
        /\ m \notin Seen(p, "OKAY") => InOrder(p, Tail(toHost), wq)
    BY <1>1, <1>4, OrderHear
  <2>2. m \in SeenFrame
    BY <1>2, Members
  <2> QED BY <2>1, <2>2 DEF Seen
<1>5. toHost' = Tail(toHost) /\ UNCHANGED <<conn, wq, svc, next_service_id>>
  BY DEF Heard, vars
<1> QED BY <1>2, <1>3, <1>4, <1>5

LEMMA HearCnxnSession ==
  ASSUME NEW ids, Here(ids), toHost # <<>>, Heard, HearCnxn(Head(toHost))
  PROVE  Here(ids)'
<1> DEFINE e2 == Tail(toHost)
<1>1. /\ Session(ids, toDev, toHost, wq, svc, hs, next_service_id) /\ conn = "up"
      /\ Typed(ids, toDev, toHost, wq, svc, hs, next_service_id)
      /\ toHost \in Seq(SeenFrames(ids)) /\ wq \in Seq(WireFrames(ids))
  BY DEF Here, Session, Typed
<1>2. /\ toHost' = e2
      /\ UNCHANGED <<toDev, hs, conn, wq, svc, next_service_id>>
  BY DEF Heard, HearCnxn, vars
<1>3. Head(toHost).cmd = "CNXN"
  BY DEF HearCnxn
<1>4. e2 \in Seq(SeenFrames(ids))
  BY <1>1, HeadTailProperties
<1>5. ASSUME NEW p \in Peers
      PROVE  /\ Flow(p, toDev, e2, wq) = Flow(p, toDev, toHost, wq)
             /\ InOrder(p, toHost, wq) => InOrder(p, e2, wq)
  <2>1. Head(toHost) \notin Seen(p, "OKAY")
    BY <1>3 DEF Seen
  <2> QED BY <1>1, <1>3, <2>1, HearOther, OrderHear
<1> HIDE DEF e2
<1>6. Typed(ids, toDev, e2, wq, svc, hs, next_service_id)
  BY <1>1, <1>4 DEF Typed
<1>7. Session(ids, toDev, e2, wq, svc, hs, next_service_id)
  BY <1>1, <1>5, <1>6 DEF Session
<1> QED BY <1>1, <1>2, <1>7, HereNext

LEMMA HearWrteSession ==
  ASSUME NEW ids, Here(ids), toHost # <<>>, Heard, NEW p \in Peers,
         Head(toHost).remote = p, HearWrte(Head(toHost), p)
  PROVE  Here(ids)'
<1> DEFINE f == Flow(p, toDev, toHost, wq)
           o == ids[p]
           m == Head(toHost)
           e2 == Tail(toHost)
           g == Flow(p, toDev, e2, wq)
           y == At(svc, o)
<1>1. /\ Session(ids, toDev, toHost, wq, svc, hs, next_service_id)
      /\ conn = "up" /\ hs \in [Peers -> HostStream]
      /\ toDev \in Seq(SentFrames(ids)) /\ wq \in Seq(WireFrames(ids))
      /\ StreamOK(f, hs[p], o, y) /\ f \in Flows
      /\ hs[p] \in HostStream /\ hs[p].id \in {0, o}
  BY StreamHere
<1>2. m.cmd = "WRTE" /\ UNCHANGED hs
  BY DEF HearWrte
<1>3. /\ g \in Flows /\ SameIn(g, f) /\ OutMore(g, f, m.cmd, FALSE)
      /\ Hears(p, toHost, e2) /\ toHost' = e2
      /\ e2 \in Seq(SeenFrames(ids))
      /\ m.cmd \in {"OKAY", "WRTE"} => m.local = o /\ m.local \in Ids
      /\ hs[p].st = "opening" => m.cmd # "WRTE"
      /\ UNCHANGED <<conn, wq, svc, next_service_id>>
  BY HeardHere
<1>4. o \in Ids /\ m.local = o /\ o # 0 /\ hs[p].st # "opening"
  BY <1>2, <1>3 DEF Ids
<1>5. [hs EXCEPT ![p] = hs[p]] = hs
  BY <1>1
<1>6. OutMore(g, f, "WRTE", FALSE)
  BY <1>2, <1>3
<1> HIDE DEF m, e2, f, g, o, y
<1>7. /\ g.data + 1 = f.data /\ g.oks = f.oks /\ g.ends = f.ends /\ g.more = f.more
  BY <1>1, <1>3, <1>6 DEF OutMore, Mark, Flows
<1>8. CASE hs[p].st = "open" /\ Tell(Say("OKAY", p, o))
  <2> DEFINE x == Say("OKAY", p, o)
             d2 == Append(toDev, x)
             k == Flow(p, d2, e2, wq)
  <2>1. x \in SentFrames(ids) /\ x.peer = p /\ x.cmd = "OKAY"
    BY <1>4, SayFrame DEF o
  <2>2. toDev' = d2
    BY <1>8 DEF Tell
  <2> HIDE DEF x
  <2>3. /\ k \in Flows /\ InMore(g, k, "OKAY") /\ SameOut(g, k)
        /\ Says(ids, p, toDev, d2)
    BY <1>1, <1>3, <2>1, Sends DEF g
  <2> HIDE DEF d2, k
  <2>4. InMore(f, k, "OKAY")
    BY <1>3, <2>3 DEF InMore, SameIn
  <2>5. k.data + 1 = f.data /\ k.oks = f.oks /\ k.ends = f.ends /\ k.more = f.more
    BY <1>7, <2>3 DEF SameOut
  <2>6. StreamOK(k, hs[p], o, y)
    BY <1>1, <1>4, <1>8, <2>3, <2>4, <2>5, HeardDataOK
  <2>7. Session(ids, d2, e2, wq, svc, [hs EXCEPT ![p] = hs[p]], next_service_id)
    BY <1>1, <1>3, <1>4, <2>3, <2>6, HostMove DEF k, o, y
  <2> QED BY <1>1, <1>2, <1>3, <1>5, <2>2, <2>7, HereNext
<1>9. CASE hs[p].st # "open" /\ UNCHANGED toDev
  <2>1. Says(ids, p, toDev, toDev)
    BY DEF Says
  <2>2. SameIn(f, g)
    BY <1>3 DEF SameIn
  <2>3. StreamOK(g, hs[p], o, y)
    BY <1>1, <1>3, <1>4, <1>7, <1>9, <2>2, HeardDataOK
  <2>4. Session(ids, toDev, e2, wq, svc, [hs EXCEPT ![p] = hs[p]], next_service_id)
    BY <1>1, <1>3, <1>4, <2>1, <2>3, HostMove DEF g, o, y
  <2> QED BY <1>1, <1>2, <1>3, <1>5, <1>9, <2>4, HereNext
<1> QED BY <1>4, <1>8, <1>9 DEF HearWrte, m

LEMMA HearClseSession ==
  ASSUME NEW ids, Here(ids), toHost # <<>>, Heard, NEW p \in Peers,
         Head(toHost).remote = p, HearClse(Head(toHost), p)
  PROVE  Here(ids)'
<1> DEFINE f == Flow(p, toDev, toHost, wq)
           o == ids[p]
           m == Head(toHost)
           e2 == Tail(toHost)
           g == Flow(p, toDev, e2, wq)
           y == At(svc, o)
           s == [hs[p] EXCEPT !.st = "closed"]
<1>1. /\ Session(ids, toDev, toHost, wq, svc, hs, next_service_id)
      /\ conn = "up" /\ hs \in [Peers -> HostStream]
      /\ StreamOK(f, hs[p], o, y) /\ f \in Flows
      /\ hs[p] \in HostStream /\ hs[p].id \in {0, o}
  BY StreamHere
<1>2. m.cmd = "CLSE" /\ hs' = [hs EXCEPT ![p] = s] /\ UNCHANGED toDev
  BY <1>1 DEF HearClse
<1>3. /\ g \in Flows /\ SameIn(g, f) /\ OutMore(g, f, m.cmd, FALSE)
      /\ Hears(p, toHost, e2) /\ toHost' = e2
      /\ UNCHANGED <<conn, wq, svc, next_service_id>>
  BY HeardHere
<1>4. s \in HostStream /\ s.st = "closed" /\ s.id \in {0, o}
  BY <1>1 DEF HostStream
<1>5. OutMore(g, f, "CLSE", FALSE)
  BY <1>2, <1>3
<1>6. Says(ids, p, toDev, toDev)
  BY DEF Says
<1> HIDE DEF m, e2, f, g, o, y, s
<1>7. StreamOK(g, s, o, y)
  BY <1>1, <1>3, <1>4, <1>5, HeardEndOK
<1>8. s.st # "opening"
  BY <1>4
<1>9. Session(ids, toDev, e2, wq, svc, [hs EXCEPT ![p] = s], next_service_id)
  BY <1>1, <1>3, <1>4, <1>6, <1>7, <1>8, HostMove DEF g, o, y
<1> QED BY <1>1, <1>2, <1>3, <1>9, HereNext

LEMMA HearOkaySession ==
  ASSUME NEW ids, Here(ids), toHost # <<>>, Heard, NEW p \in Peers,
         Head(toHost).remote = p, HearOkay(Head(toHost), p)
  PROVE  Here(ids)'
<1> DEFINE f == Flow(p, toDev, toHost, wq)
           o == ids[p]
           m == Head(toHost)
           e2 == Tail(toHost)
           g == Flow(p, toDev, e2, wq)
           y == At(svc, o)
<1>1. /\ Session(ids, toDev, toHost, wq, svc, hs, next_service_id)
      /\ conn = "up" /\ hs \in [Peers -> HostStream]
      /\ toDev \in Seq(SentFrames(ids)) /\ wq \in Seq(WireFrames(ids))
      /\ StreamOK(f, hs[p], o, y) /\ f \in Flows
      /\ hs[p] \in HostStream /\ hs[p].id \in {0, o} /\ Fit(y)
  BY StreamHere
<1>2. m.cmd = "OKAY"
  BY DEF HearOkay
<1>3. /\ g \in Flows /\ SameIn(g, f) /\ OutMore(g, f, m.cmd, FALSE)
      /\ Hears(p, toHost, e2) /\ toHost' = e2
      /\ e2 \in Seq(SeenFrames(ids))
      /\ m.cmd \in {"OKAY", "WRTE"} => m.local = o /\ m.local \in Ids
      /\ UNCHANGED <<conn, wq, svc, next_service_id>>
  BY HeardHere
<1>4. o \in Ids /\ m.local = o /\ o # 0
  BY <1>2, <1>3 DEF Ids
<1>5. OutMore(g, f, "OKAY", FALSE)
  BY <1>2, <1>3
<1>6. Says(ids, p, toDev, toDev)
  BY DEF Says
<1>7. /\ [hs EXCEPT ![p] = hs[p]] = hs
      /\ [hs EXCEPT ![p].unacked = FALSE] = [hs EXCEPT ![p] = [@ EXCEPT !.unacked = FALSE]]
  BY <1>1
<1> HIDE DEF m, e2, f, g, o, y
<1>8. ASSUME NEW s \in HostStream, s.id \in {0, o}, s.st # "opening",
             StreamOK(g, s, o, y), hs' = [hs EXCEPT ![p] = s], UNCHANGED toDev
      PROVE  Here(ids)'
  <2>1. Session(ids, toDev, e2, wq, svc, [hs EXCEPT ![p] = s], next_service_id)
    BY <1>1, <1>3, <1>6, <1>8, HostMove DEF g, o, y
  <2> QED BY <1>1, <1>3, <1>8, <2>1, HereNext
<1>9. CASE /\ hs[p].st = "opening"
           /\ hs' = [hs EXCEPT ![p].st = "open", ![p].id = o]
           /\ UNCHANGED toDev
  <2> DEFINE s == [hs[p] EXCEPT !.st = "open", !.id = o]
  <2>1. hs' = [hs EXCEPT ![p] = s]
    BY <1>1, <1>9
  <2>2. s \in HostStream /\ s.st = "open" /\ s.id = o /\ s.unacked = hs[p].unacked
    BY <1>1, <1>4 DEF HostStream
  <2> HIDE DEF s
  <2>3. StreamOK(g, s, o, y)
    BY <1>1, <1>3, <1>5, <1>9, <2>2, AnnouncedOK
  <2> QED BY <1>8, <1>9, <2>1, <2>2, <2>3
<1>10. CASE /\ hs[p].st = "abandoned"
            /\ hs' = [hs EXCEPT ![p].st = "closed", ![p].id = o]
            /\ Tell(Say("CLSE", p, o))
  <2> DEFINE s == [hs[p] EXCEPT !.st = "closed", !.id = o]
             x == Say("CLSE", p, o)
             d2 == Append(toDev, x)
             k == Flow(p, d2, e2, wq)
  <2>1. hs' = [hs EXCEPT ![p] = s] /\ toDev' = d2
    BY <1>1, <1>10 DEF Tell
  <2>2. s \in HostStream /\ s.st = "closed" /\ s.id \in {0, o}
    BY <1>1, <1>4 DEF HostStream
  <2>3. x \in SentFrames(ids) /\ x.peer = p /\ x.cmd = "CLSE"
    BY <1>4, SayFrame DEF o
  <2> HIDE DEF x, s
  <2>4. /\ k \in Flows /\ InMore(g, k, "CLSE") /\ SameOut(g, k)
        /\ Says(ids, p, toDev, d2)
    BY <1>1, <1>3, <2>3, Sends DEF g
  <2> HIDE DEF d2, k
  <2>5. InMore(f, k, "CLSE")
    BY <1>3, <2>4 DEF InMore, SameIn
  <2>6. /\ k.oks <= f.oks /\ f.oks > 0 /\ k.data = f.data /\ k.ends = f.ends
        /\ k.more = f.more
    <3>1. /\ f.oks = g.oks + 1 /\ f.data = g.data /\ f.ends = g.ends
          /\ f.more = g.more
      BY <1>1, <1>3, <1>5 DEF OutMore, Mark, Flows
    <3>2. k.oks = g.oks /\ k.data = g.data /\ k.ends = g.ends /\ k.more = g.more
      BY <2>4 DEF SameOut
    <3> QED BY <1>3, <3>1, <3>2 DEF Flows
  <2>7. StreamOK(k, s, o, y)
    BY <1>1, <1>4, <1>10, <2>2, <2>4, <2>5, <2>6, HostClosedOK
  <2>8. s.st # "opening"
    BY <2>2
  <2>9. Session(ids, d2, e2, wq, svc, [hs EXCEPT ![p] = s], next_service_id)
    BY <1>1, <1>3, <2>2, <2>4, <2>7, <2>8, HostMove DEF k, o, y
  <2> QED BY <1>1, <1>3, <2>1, <2>9, HereNext
<1>11. CASE /\ hs[p].st = "open"
            /\ hs' = [hs EXCEPT ![p].unacked = FALSE]
            /\ UNCHANGED toDev
  <2> DEFINE s == [hs[p] EXCEPT !.unacked = FALSE]
  <2>1. hs' = [hs EXCEPT ![p] = s]
    BY <1>1, <1>11
  <2>2. /\ s \in HostStream /\ s.st = "open" /\ s.id = hs[p].id /\ s.unacked = FALSE
    BY <1>1, <1>11 DEF HostStream
  <2> HIDE DEF s
  <2>3. StreamOK(g, s, o, y)
    BY <1>1, <1>3, <1>5, <1>11, <2>2, HeardOkayOK
  <2> QED BY <1>1, <1>8, <1>11, <2>1, <2>2, <2>3
<1>12. CASE hs[p].st = "closed" /\ UNCHANGED <<hs, toDev>>
  <2>1. StreamOK(g, hs[p], o, y)
    BY <1>1, <1>3, <1>5, <1>12, HeardOkayOK
  <2> QED BY <1>1, <1>7, <1>8, <1>12, <2>1
<1> QED BY <1>4, <1>9, <1>10, <1>11, <1>12 DEF HearOkay, m

LEMMA HostStep ==
  ASSUME NEW ids, Here(ids), Host
  PROVE  Here(ids)'
<1>1. ASSUME NEW p \in Peers, NEW kind \in Kinds, HostOpen(p, kind)
      PROVE  Here(ids)'
  BY <1>1, HostOpenSession
<1>2. ASSUME NEW p \in Peers, HostWrite(p) \/ HostClose(p) \/ HostAbandon(p)
      PROVE  Here(ids)'
  BY <1>2, HostWriteSession, HostCloseSession, HostAbandonSession
<1>3. ASSUME HostHears
      PROVE  Here(ids)'
  <2> DEFINE m == Head(toHost)
  <2>1. toHost # <<>> /\ Heard
    BY <1>3 DEF HostHears
  <2>2. CASE HearCnxn(m)
    BY <2>1, <2>2, HearCnxnSession
  <2>3. ASSUME NEW p \in Peers \cap {m.remote},
               HearOkay(m, p) \/ HearWrte(m, p) \/ HearClse(m, p)
        PROVE  Here(ids)'
    <3>1. p \in Peers /\ m.remote = p
      OBVIOUS
    <3> QED BY <2>1, <2>3, <3>1, HearOkaySession, HearWrteSession, HearClseSession
  <2> QED BY <1>3, <2>2, <2>3 DEF HostHears
<1> QED BY <1>1, <1>2, <1>3 DEF Host
-----------------------------------------------------------------------------
(* The steps of the device *)

\* A frame of the host names what the device knows.
LEMMA OldestFrame ==
  ASSUME NEW ids, Here(ids), toDev # <<>>
  PROVE  LET m == Head(toDev)
         IN /\ m.cmd \in {"CNXN", "OPEN", "WRTE", "OKAY", "CLSE"}
            /\ m.cmd = "OPEN" => m.peer \in Peers /\ m.kind \in Kinds
            /\ m.cmd \in {"WRTE", "OKAY", "CLSE"} => m.peer \in Peers /\ m.id \in Ids
<1> DEFINE m == Head(toDev)
<1>1. toDev \in Seq(SentFrames(ids))
  BY DEF Here, Session, Typed
<1>2. m \in SentFrames(ids)
  BY <1>1, HeadTailProperties
<1> HIDE DEF m
<1>3. m \in DevFrame
  BY <1>2, Members
<1>4. /\ m.cmd \in {"CNXN", "OPEN", "WRTE", "OKAY", "CLSE"}
      /\ m.cmd = "OPEN" => m.peer \in Peers /\ m.kind \in Kinds
      /\ m.cmd \in {"WRTE", "OKAY", "CLSE"} => m.peer \in Peers /\ m.id \in Ids
  BY <1>2, <1>3 DEF SentFrames, Named, DevFrame
<1> QED BY <1>4 DEF m

\* Nothing but the frames of the host's reader changes.
LEMMA ReaderSession ==
  ASSUME NEW ids, Here(ids), UNCHANGED hostVars,
         UNCHANGED <<conn, wq, svc, next_service_id>>
  PROVE  Here(ids)'
<1>1. Session(ids, toDev, toHost, wq, svc, hs, next_service_id) /\ conn = "up"
  BY DEF Here
<1>2. UNCHANGED <<toDev, toHost, hs>>
  BY DEF hostVars
<1> QED BY <1>1, <1>2, HereNext

LEMMA ProcessSession ==
  ASSUME NEW ids \in IdTable, Here(ids), IInv, DeviceProcesses
  PROVE  HInv'
<1> DEFINE m == Head(toDev)
<1>1. Processing
  BY DEF DeviceProcesses, Processing
<1>2. CASE m.cmd = "CNXN" /\ RecvCnxn
  BY <1>1, <1>2, RecvCnxnSession DEF HInv
<1>3. CASE m.cmd = "OPEN" /\ RecvOpen(m.peer, m.kind)
  BY <1>1, <1>3, RecvOpenSession
<1>4. CASE m.cmd = "OPEN" /\ RecvOpenRefused(m.peer)
  BY <1>1, <1>4, RecvOpenRefusedSession DEF HInv
<1>5. CASE m.cmd = "CLSE" /\ RecvClse(m.peer, m.id)
  BY <1>1, <1>5, RecvClseSession DEF HInv
<1>6. CASE m.cmd = "WRTE" /\ RecvWrte(m.peer, m.id)
  BY <1>1, <1>6, RecvWrteSession DEF HInv
<1>7. CASE m.cmd = "OKAY" /\ RecvOkay(m.peer, m.id)
  BY <1>1, <1>7, RecvOkaySession DEF HInv
<1> QED BY <1>2, <1>3, <1>4, <1>5, <1>6, <1>7 DEF DeviceProcesses

LEMMA StreamsSession ==
  ASSUME "malloc" \notin Misfortunes,
         NEW ids, Here(ids), SInv, Streams, UNCHANGED hostVars
  PROVE  Here(ids)'
<1>1. PICK i \in Ids :
        \/ SvcReadFrame(i) \/ SvcReadPark(i) \/ SvcReadEnd(i)
        \/ SvcOutOfMemory(i) \/ ConnectDone(i) \/ SvcClosed(i)
        \/ \E f \in Frames :
             SvcWriteDone(i, f) \/ SvcWriteFailed(i, f) \/ SvcWriteOrphaned(i, f)
  BY DEF Streams
<1>2. Quiet
  BY <1>1 DEF Quiet, SvcReadFrame, SvcReadPark, SvcReadEnd, SvcOutOfMemory,
     ConnectDone, SvcClosed, SvcWriteDone, SvcWriteFailed, SvcWriteOrphaned, Untouched
<1>3. ~SvcOutOfMemory(i)
  BY DEF SvcOutOfMemory
<1>4. \A f \in Frames : ~SvcWriteOrphaned(i, f)
  BY DEF SvcWriteOrphaned, Here
<1>5. CASE SvcReadFrame(i) \/ SvcReadPark(i) \/ SvcReadEnd(i)
  BY <1>2, <1>5, SvcReadFrameSession, SvcReadParkSession, SvcReadEndSession
<1>6. CASE ConnectDone(i) \/ SvcClosed(i)
  BY <1>2, <1>6, ConnectDoneSession, SvcClosedSession
<1>7. ASSUME NEW f \in Frames, SvcWriteDone(i, f) \/ SvcWriteFailed(i, f)
      PROVE  Here(ids)'
  BY <1>2, <1>7, SvcWriteDoneSession, SvcWriteFailedSession
<1> QED BY <1>1, <1>3, <1>4, <1>5, <1>6, <1>7

LEMMA DeviceStep ==
  ASSUME "malloc" \notin Misfortunes,
         NEW ids \in IdTable, Here(ids), SInv, Device
  PROVE  HInv'
<1>1. IInv
  BY DEF SInv, RInv
<1>2. CASE DeviceReads
  <2>1. UNCHANGED hostVars /\ UNCHANGED <<conn, wq, svc, next_service_id>>
    BY <1>2 DEF DeviceReads, HostReadBegin
  <2> QED BY <2>1, ReaderSession DEF HInv
<1>3. CASE DeviceProcesses
  BY <1>1, <1>3, ProcessSession
<1>4. CASE DeviceWrote
  BY <1>4, DeviceWroteSession DEF HInv
<1>5. CASE HostReadPark /\ UNCHANGED hostVars
  <2>1. UNCHANGED <<conn, wq, svc, next_service_id>>
    BY <1>5 DEF HostReadPark
  <2> QED BY <1>5, <2>1, ReaderSession DEF HInv
<1>6. CASE Streams /\ UNCHANGED hostVars
  BY <1>6, StreamsSession DEF HInv
<1> QED BY <1>2, <1>3, <1>4, <1>5, <1>6 DEF Device

-----------------------------------------------------------------------------
(* The specification *)

LEMMA CountNone ==
  ASSUME NEW S, NEW s \in Seq(S), NEW M, \A k \in DOMAIN s : s[k] \notin M
  PROVE  Count(s, M) = 0
<1>1. Count(s, M) \in Nat
  BY CountType
<1>2. ~(Count(s, M) > 0)
  BY CountSome
<1> QED BY <1>1, <1>2

\* Without frames under way.
LEMMA NothingCounts ==
  ASSUME NEW ids, NEW d \in Seq(SentFrames(ids)),
         \A k \in DOMAIN d : d[k].cmd = "CNXN", NEW p
  PROVE  LET f == Flow(p, d, <<>>, <<>>)
         IN /\ f.opens = 0 /\ f.writes = 0 /\ f.acks = 0 /\ f.closes = 0
            /\ f.oks = 0 /\ f.data = 0 /\ f.ends = 0 /\ f.more = 0
<1>1. \A M : Count(<<>>, M) = 0
  <2> TAKE M
  <2>1. <<>> \in Seq({}) /\ DOMAIN <<>> = {}
    OBVIOUS
  <2> QED BY <2>1, CountNone
<1>2. \A cmd \in {"OPEN", "WRTE", "OKAY", "CLSE"} : Count(d, Sent(p, cmd)) = 0
  <2> TAKE cmd \in {"OPEN", "WRTE", "OKAY", "CLSE"}
  <2>1. \A k \in DOMAIN d : d[k] \notin Sent(p, cmd)
    BY DEF Sent
  <2> QED BY <2>1, CountNone
<1> QED BY <1>1, <1>2 DEF Flow

LEMMA SessionStarts ==
  ASSUME SessionInit
  PROVE  HInv
<1> DEFINE ids == [p \in Peers |-> 0]
           x == Say("CNXN", 0, 0)
<1>1. x \in SentFrames(ids) /\ x.cmd = "CNXN"
  BY DEF Say, SentFrames, DevFrame
<1> HIDE DEF x
<1>2. /\ toDev = <<x>> /\ toHost = <<>> /\ wq = <<>> /\ conn = "up"
      /\ next_service_id = 1 /\ svc = [i \in Ids |-> Unused]
      /\ hs = [p \in Peers |-> [st |-> "idle", id |-> 0, unacked |-> FALSE,
                                writes |-> 0]]
  BY DEF SessionInit, Init, x
<1>3. /\ toDev \in Seq(SentFrames(ids)) /\ toHost \in Seq(SeenFrames(ids))
      /\ wq \in Seq(WireFrames(ids))
      /\ \A k \in DOMAIN toDev : toDev[k].cmd = "CNXN"
  BY <1>1, <1>2
<1>4. ids \in IdTable /\ \A p \in Peers : ids[p] = 0
  BY DEF IdTable
<1> HIDE DEF ids
<1>5. Unused \in Service /\ Fit(Unused) /\ Unused.peer = 0 /\ Unused.q = {}
      /\ Unused.st = "unused"
  <2>1. Unused \in Service /\ Unused.peer = 0 /\ Unused.q = {} /\ Unused.st = "unused"
    BY DEF Unused, Service
  <2> QED BY <2>1, FS_EmptySet DEF Fit, Alive, Young
<1>6. hs \in [Peers -> HostStream]
  BY <1>2, HostAssumption DEF HostStream
<1>7. Typed(ids, toDev, toHost, wq, svc, hs, next_service_id)
  BY <1>2, <1>3, <1>4, <1>5, <1>6 DEF Typed
<1>8. ASSUME NEW p \in Peers
      PROVE  /\ StreamOK(Flow(p, toDev, toHost, wq), hs[p], ids[p], At(svc, ids[p]))
             /\ hs[p].st # "opening"
  <2> DEFINE f == Flow(p, toDev, toHost, wq)
  <2>1. /\ f.opens = 0 /\ f.writes = 0 /\ f.acks = 0 /\ f.closes = 0
        /\ f.oks = 0 /\ f.data = 0 /\ f.ends = 0 /\ f.more = 0
    BY <1>2, <1>3, NothingCounts
  <2> HIDE DEF f
  <2>2. hs[p].st = "idle" /\ hs[p].unacked = FALSE
    BY <1>2
  <2>3. ids[p] = 0 /\ At(svc, ids[p]) = Unused
    BY <1>4 DEF At
  <2>4. StreamOK(f, hs[p], 0, Unused)
    BY <1>5, <2>1, <2>2 DEF StreamOK, AskingOK, OpenOK, ServiceOK, Asking, Alive, Young
  <2> QED BY <2>2, <2>3, <2>4 DEF f
<1>9. Here(ids)
  BY <1>2, <1>7, <1>8 DEF Here, Session
<1> QED BY <1>4, <1>9 DEF HInv

\* The connection makes a step of its own, or none.
LEMMA SessionIsConnection ==
  ASSUME NEW ids, Here(ids), SessionNext \/ UNCHANGED allVars
  PROVE  [Next]_vars
<1>1. CASE Host
  <2>1. UNCHANGED vars
    BY <1>1 DEF Host, HostHears, Heard, HostOpen, HostWrite, HostClose, HostAbandon
  <2> QED BY <2>1
<1>2. CASE DeviceReads \/ DeviceWrote
  BY <1>2 DEF DeviceReads, DeviceWrote, Next, FromTransport
<1>3. CASE DeviceProcesses
  <2> DEFINE m == Head(toDev)
  <2>1. /\ m.cmd = "OPEN" => m.peer \in Peers /\ m.kind \in Kinds
        /\ m.cmd \in {"WRTE", "OKAY", "CLSE"} => m.peer \in Peers /\ m.id \in Ids
    BY <1>3, OldestFrame DEF DeviceProcesses
  <2>2. \/ m.cmd = "CNXN" /\ RecvCnxn
        \/ m.cmd = "OPEN" /\ (RecvOpen(m.peer, m.kind) \/ RecvOpenRefused(m.peer))
        \/ m.cmd = "CLSE" /\ RecvClse(m.peer, m.id)
        \/ m.cmd = "WRTE" /\ RecvWrte(m.peer, m.id)
        \/ m.cmd = "OKAY" /\ RecvOkay(m.peer, m.id)
    BY <1>3 DEF DeviceProcesses
  <2> HIDE DEF m
  <2>3. Protocol
    BY <2>1, <2>2 DEF Protocol
  <2> QED BY <2>3 DEF Next
<1>4. CASE HostReadPark \/ Streams
  BY <1>4 DEF Next, FromTransport
<1>5. CASE UNCHANGED allVars
  BY <1>5 DEF allVars
<1> QED BY <1>1, <1>2, <1>3, <1>4, <1>5 DEF SessionNext, Device

LEMMA SessionInductive ==
  ASSUME "malloc" \notin Misfortunes, SInv, HInv, [SessionNext]_allVars
  PROVE  SInv' /\ HInv'
<1>1. PICK ids \in IdTable : Here(ids)
  BY DEF HInv
<1>2. [Next]_vars
  BY <1>1, SessionIsConnection
<1>3. ASSUME Host PROVE HInv'
  BY <1>1, <1>3, HostStep DEF HInv
<1>4. ASSUME Device PROVE HInv'
  BY <1>1, <1>4, DeviceStep
<1>5. ASSUME UNCHANGED allVars PROVE HInv'
  <2>1. UNCHANGED hostVars /\ UNCHANGED <<conn, wq, svc, next_service_id>>
    BY <1>5 DEF allVars, vars
  <2> QED BY <1>1, <2>1, ReaderSession DEF HInv
<1> QED BY <1>2, <1>3, <1>4, <1>5, SInvNext DEF SessionNext

\* adb_client.c and adb_process_packet() against a host that keeps to the
\* protocol: after every step of either end the streams, what the ends believe
\* of each other and the frames under way between them account for one another.
THEOREM SessionInvariance ==
  ASSUME "malloc" \notin Misfortunes
  PROVE  SessionSpec => [](SInv /\ HInv)
<1>1. SessionInit => SInv /\ HInv
  BY SInvInit, SessionStarts DEF SessionInit
<1>2. (SInv /\ HInv) /\ [SessionNext]_allVars => (SInv /\ HInv)'
  BY SessionInductive
<1> QED BY <1>1, <1>2, PTL DEF SessionSpec

-----------------------------------------------------------------------------
(* What follows for the two ends *)

\* The frames the properties speak of are those the invariant counts.
LEMMA UnderWay ==
  ASSUME NEW ids, Here(ids), NEW p \in Peers
  PROVE  LET f == Flow(p, toDev, toHost, wq)
         IN /\ ToHost(p, "OKAY") = f.oks /\ ToHost(p, "WRTE") = f.data
            /\ ToHost(p, "CLSE") = f.ends
            /\ ToDevice(p, "WRTE") = f.writes /\ ToDevice(p, "OKAY") = f.acks
<1>1. /\ toDev \in Seq(SentFrames(ids)) /\ toHost \in Seq(SeenFrames(ids))
      /\ wq \in Seq(WireFrames(ids))
  BY StreamHere
<1>2. /\ \A k \in DOMAIN toDev : toDev[k] \in DevFrame
      /\ \A k \in DOMAIN toHost : toHost[k] \in SeenFrame
      /\ \A k \in DOMAIN wq : wq[k] \in WireFrame
  BY <1>1, Members
<1>3. ASSUME NEW cmd
      PROVE  /\ {k \in DOMAIN wq : wq[k].cmd = cmd /\ wq[k].remote = p}
                = Hits(wq, Wired(p, cmd))
             /\ {k \in DOMAIN toHost : toHost[k].cmd = cmd /\ toHost[k].remote = p}
                = Hits(toHost, Seen(p, cmd))
             /\ {k \in DOMAIN toDev : toDev[k].cmd = cmd /\ toDev[k].peer = p}
                = Hits(toDev, Sent(p, cmd))
  BY <1>2 DEF Hits, Wired, Seen, Sent
<1>4. ASSUME NEW cmd
      PROVE  /\ ToHost(p, cmd) = Count(wq, Wired(p, cmd)) + Count(toHost, Seen(p, cmd))
             /\ ToDevice(p, cmd) = Count(toDev, Sent(p, cmd))
             /\ Count(wq, Wired(p, cmd)) \in Nat /\ Count(toHost, Seen(p, cmd)) \in Nat
  <2>1. Count(wq, Wired(p, cmd)) \in Nat /\ Count(toHost, Seen(p, cmd)) \in Nat
    BY <1>1, CountType
  <2> QED BY <1>3, <2>1 DEF ToHost, ToDevice, Count
<1>5. ASSUME NEW cmd
      PROVE  ToHost(p, cmd) = Count(toHost, Seen(p, cmd)) + Count(wq, Wired(p, cmd))
  BY <1>4
<1> QED BY <1>4, <1>5 DEF Flow

\* The stream of a service.
LEMMA ServiceStream ==
  ASSUME NEW ids, Here(ids), NEW i \in Ids, Alive(svc[i])
  PROVE  LET p == svc[i].peer
         IN p \in Peers /\ ids[p] = i /\ i # 0 /\ At(svc, ids[p]) = svc[i]
<1>1. Fit(svc[i]) /\ (svc[i].peer # 0 => ids[svc[i].peer] = i)
  BY DEF Here, Session, Typed
<1>2. svc[i].peer \in Peers /\ svc[i].peer # 0 /\ i # 0
  BY <1>1, ServiceTableAssumption DEF Fit, Ids
<1> QED BY <1>1, <1>2 DEF At

\* adb_send_okay_frame(): every WRTE of the host is answered once, for any
\* number of frames, streams and writes.
THEOREM WritesAnsweredOnceCorrect ==
  ASSUME "malloc" \notin Misfortunes
  PROVE  SessionSpec => []WritesAnsweredOnce
<1>1. ASSUME HInv
      PROVE  WritesAnsweredOnce
  <2>1. PICK ids : Here(ids)
    BY <1>1 DEF HInv
  <2>2. ASSUME NEW p \in Peers, hs[p].st = "open"
        PROVE  LET a == ToDevice(p, "WRTE") + Cardinality(svc[hs[p].id].q)
                        + ToHost(p, "OKAY")
               IN /\ a <= (IF hs[p].unacked THEN 1 ELSE 0)
                  /\ hs[p].unacked => a = 1 \/ ToHost(p, "CLSE") > 0
    <3> DEFINE f == Flow(p, toDev, toHost, wq)
    <3>1. StreamOK(f, hs[p], ids[p], At(svc, ids[p])) /\ f \in Flows
      BY <2>1, StreamHere
    <3>2. /\ ToHost(p, "OKAY") = f.oks /\ ToHost(p, "CLSE") = f.ends
          /\ ToDevice(p, "WRTE") = f.writes
      BY <2>1, UnderWay
    <3> HIDE DEF f
    <3>3. At(svc, ids[p]) = svc[hs[p].id]
      BY <2>2, <3>1 DEF StreamOK, OpenOK, At
    <3> QED BY <2>2, <3>1, <3>2, <3>3 DEF StreamOK, OpenOK
  <2> QED BY <2>2 DEF WritesAnsweredOnce
<1> QED BY <1>1, SessionInvariance, PTL

\* The state kept in wait_ack: one data frame of a stream waits to be
\* acknowledged, and the stream remembers that it does.
THEOREM DataAckedOnceCorrect ==
  ASSUME "malloc" \notin Misfortunes
  PROVE  SessionSpec => []DataAckedOnce
<1>1. ASSUME HInv
      PROVE  DataAckedOnce
  <2>1. PICK ids : Here(ids)
    BY <1>1 DEF HInv
  <2>2. ASSUME NEW i \in Ids, svc[i].st = "open", svc[i].kind # "sync",
               hs[svc[i].peer].st \in {"opening", "open"}
        PROVE  ToHost(svc[i].peer, "WRTE") + ToDevice(svc[i].peer, "OKAY")
               = IF svc[i].ack THEN 1 ELSE 0
    <3> DEFINE p == svc[i].peer
               f == Flow(p, toDev, toHost, wq)
    <3>1. p \in Peers /\ At(svc, ids[p]) = svc[i]
      BY <2>1, <2>2, ServiceStream DEF Alive
    <3>2. StreamOK(f, hs[p], ids[p], svc[i])
      BY <2>1, <3>1, StreamHere
    <3>3. ToHost(p, "WRTE") = f.data /\ ToDevice(p, "OKAY") = f.acks
      BY <2>1, <3>1, UnderWay
    <3> HIDE DEF f
    <3> QED BY <2>2, <3>2, <3>3 DEF StreamOK, ServiceOK
  <2> QED BY <2>2 DEF DataAckedOnce
<1> QED BY <1>1, SessionInvariance, PTL

\* service_create(), service_close() and the CLSE frames: once everything that
\* was sent has arrived, the two ends have the same streams open.
THEOREM EndsAgreeCorrect ==
  ASSUME "malloc" \notin Misfortunes
  PROVE  SessionSpec => []EndsAgree
<1>1. ASSUME HInv, NothingUnderWay
      PROVE  /\ \A p \in Peers :
                  /\ hs[p].st = "open" =>
                       svc[hs[p].id].st = "open" /\ svc[hs[p].id].peer = p
                  /\ hs[p].st \in {"opening", "abandoned"} =>
                       \E i \in Registered(svc) : svc[i].peer = p /\ svc[i].st # "open"
             /\ \A i \in Registered(svc) :
                  LET p == svc[i].peer IN
                  IF svc[i].st = "open" THEN hs[p].st = "open" /\ hs[p].id = i
                                        ELSE hs[p].st \in {"opening", "abandoned"}
  <2>1. PICK ids : Here(ids)
    BY <1>1 DEF HInv
  <2>2. ASSUME NEW p \in Peers
        PROVE  LET f == Flow(p, toDev, toHost, wq)
                   o == ids[p]
                   x == At(svc, o)
               IN /\ f.opens = 0 /\ f.writes = 0 /\ f.acks = 0 /\ f.closes = 0
                  /\ f.oks = 0 /\ f.data = 0 /\ f.ends = 0 /\ f.more = 0
                  /\ StreamOK(f, hs[p], o, x) /\ Fit(x) /\ x.peer \in {0, p}
                  /\ o \in Ids \cup {0} /\ (o # 0 => x = svc[o]) /\ (o = 0 => x = Unused)
    <3>1. /\ toDev \in Seq(SentFrames(ids))
          /\ Session(ids, toDev, toHost, wq, svc, hs, next_service_id)
          /\ ids[p] = 0 => At(svc, ids[p]) = Unused
      BY <2>1, StreamHere
    <3>2. toDev = <<>> /\ toHost = <<>> /\ wq = <<>>
      BY <1>1 DEF NothingUnderWay
    <3>3. \A k \in DOMAIN toDev : toDev[k].cmd = "CNXN"
      BY <3>2
    <3> DEFINE f == Flow(p, toDev, toHost, wq)
    <3>4. /\ f.opens = 0 /\ f.writes = 0 /\ f.acks = 0 /\ f.closes = 0
          /\ f.oks = 0 /\ f.data = 0 /\ f.ends = 0 /\ f.more = 0
      BY <3>1, <3>2, <3>3, NothingCounts
    <3>5. /\ StreamOK(f, hs[p], ids[p], At(svc, ids[p])) /\ ids[p] \in Ids \cup {0}
          /\ Fit(At(svc, ids[p])) /\ At(svc, ids[p]).peer \in {0, p}
          /\ ids[p] # 0 => At(svc, ids[p]) = svc[ids[p]]
      BY <3>1, Stream
    <3> HIDE DEF f
    <3> QED BY <3>1, <3>4, <3>5 DEF f
  <2>3. ASSUME NEW p \in Peers, hs[p].st = "open"
        PROVE  svc[hs[p].id].st = "open" /\ svc[hs[p].id].peer = p
    <3> DEFINE f == Flow(p, toDev, toHost, wq)
               o == ids[p]
               x == At(svc, o)
    <3>1. /\ StreamOK(f, hs[p], o, x) /\ Fit(x) /\ x.peer \in {0, p} /\ f.ends = 0
          /\ o # 0 => x = svc[o]
      BY <2>2
    <3> HIDE DEF f, o, x
    <3>2. x.st = "open" /\ hs[p].id = o /\ x = svc[o]
      BY <2>3, <3>1 DEF StreamOK, OpenOK
    <3>3. x.peer \in Peers
      BY <3>1, <3>2 DEF Fit, Alive
    <3> QED BY <3>1, <3>2, <3>3, ServiceTableAssumption
  <2>4. ASSUME NEW p \in Peers, hs[p].st \in {"opening", "abandoned"}
        PROVE  \E i \in Registered(svc) : svc[i].peer = p /\ svc[i].st # "open"
    <3> DEFINE f == Flow(p, toDev, toHost, wq)
               o == ids[p]
               x == At(svc, o)
    <3>1. /\ StreamOK(f, hs[p], o, x) /\ Fit(x) /\ x.peer \in {0, p}
          /\ f.opens = 0 /\ f.ends = 0 /\ f.oks = 0 /\ f.closes = 0
          /\ o \in Ids \cup {0} /\ (o # 0 => x = svc[o]) /\ (o = 0 => x = Unused)
      BY <2>2
    <3> HIDE DEF f, o, x
    <3>2. Alive(x) /\ x.st # "open"
      BY <2>4, <3>1 DEF StreamOK, AskingOK, ServiceOK, Asking
    <3>3. o \in Ids /\ x = svc[o]
      BY <3>1, <3>2 DEF Alive, Young, Unused
    <3>4. x.peer = p
      BY <3>1, <3>2, ServiceTableAssumption DEF Fit
    <3> QED BY <3>2, <3>3, <3>4 DEF Registered, Alive, Young
  <2>5. ASSUME NEW i \in Registered(svc)
        PROVE  LET p == svc[i].peer IN
               IF svc[i].st = "open" THEN hs[p].st = "open" /\ hs[p].id = i
                                     ELSE hs[p].st \in {"opening", "abandoned"}
    <3> DEFINE p == svc[i].peer
               f == Flow(p, toDev, toHost, wq)
    <3>1. i \in Ids /\ Alive(svc[i]) /\ (svc[i].st # "open" => Young(svc[i]))
      BY DEF Registered, Alive, Young
    <3>2. p \in Peers /\ ids[p] = i /\ At(svc, ids[p]) = svc[i]
      BY <2>1, <3>1, ServiceStream
    <3>3. StreamOK(f, hs[p], i, svc[i]) /\ f.oks = 0 /\ f.closes = 0
      BY <2>2, <3>2
    <3> HIDE DEF f, p
    <3>4. IF svc[i].st = "open" THEN hs[p].st = "open" /\ hs[p].id = i
                                ELSE hs[p].st \in {"opening", "abandoned"}
      BY <3>1, <3>3 DEF StreamOK, OpenOK, ServiceOK, Asking
    <3> QED BY <3>4 DEF p
  <2> QED BY <2>3, <2>4, <2>5
<1>2. HInv => EndsAgree
  BY <1>1 DEF EndsAgree
<1> QED BY <1>2, SessionInvariance, PTL

\* With such a host the daemon does what AdbClient allows, so that what is
\* proved of AdbClient holds of both ends too: a frame of the host that is
\* processed is one of those AdbClient considers.
THEOREM SessionImplementsConnection ==
  ASSUME "malloc" \notin Misfortunes
  PROVE  SessionSpec => Spec
<1>1. SessionInit => Init
  BY DEF SessionInit
<1>2. ASSUME HInv, [SessionNext]_allVars
      PROVE  [Next]_vars
  <2>1. PICK ids \in IdTable : Here(ids)
    BY <1>2 DEF HInv
  <2> QED BY <1>2, <2>1, SessionIsConnection
<1>3. HInv /\ [SessionNext]_allVars => [Next]_vars
  BY <1>2
<1> QED BY <1>1, <1>3, SessionInvariance, PTL DEF SessionSpec, Spec
=============================================================================
