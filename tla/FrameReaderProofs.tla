------------------------- MODULE FrameReaderProofs --------------------------
(***************************************************************************)
(* Proofs about the reception of frames, for all sizes, all streams of the *)
(* host and all ways to cut them: the memory of a frame is never exceeded, *)
(* the answer to it fits, and what is processed is what the host sent.     *)
(*                                                                         *)
(* The last two need to know where in the host's bytes the reader is: at   *)
(* the start of the frame that is due, plus what the buffer holds.         *)
(***************************************************************************)
EXTENDS FrameReader, Sums, SequenceTheorems

\* The handshake does not complete while a frame is being received, so the
\* memory of the frame is that of the limit its header is checked against.
Fitting(b) ==
  /\ b.cap = Limit
  /\ conn = "up" /\ b.len >= HdrLen =>
       Announced(b).len <= b.cap /\ b.len < FrameLen(Announced(b))

ReaderInv == TypeOK /\ \A b \in cur : Fitting(b)

-----------------------------------------------------------------------------
(* What a header says is of the right type, whatever is in the buffer. *)
LEMMA AnnouncedType ==
  ASSUME TypeOK, NEW b
  PROVE  Announced(b).len \in Nat
<1>1. Nonsense.len \in Nat
  BY DEF Nonsense
<1>2. ASSUME NEW k \in DOMAIN stream PROVE stream[k].len \in Nat
  BY <1>2, FrameReaderAssumption DEF TypeOK, HostFrame
<1>3. CASE \E k \in DOMAIN stream : Starts[k] = b.from
  <2> DEFINE j == CHOOSE k \in DOMAIN stream : Starts[k] = b.from
  <2>1. j \in DOMAIN stream
    BY <1>3
  <2>2. stream[j].len \in Nat
    BY <2>1, <1>2
  <2>3. Announced(b) = stream[j]
    BY <1>3 DEF Announced
  <2> QED
    BY <2>2, <2>3
<1>4. CASE ~\E k \in DOMAIN stream : Starts[k] = b.from
  BY <1>4, <1>1 DEF Announced
<1> QED
  BY <1>3, <1>4

(* A buffer that is asked for is like one that is being filled. *)
LEMMA BufferFits ==
  ASSUME ReaderInv, NEW b \in Buffers
  PROVE  b \in Buffer /\ b.len <= HdrLen + b.cap /\ Fitting(b)
<1>1. CASE cur = {}
  BY <1>1, FrameReaderAssumption
  DEF Buffers, Fresh, ReaderInv, TypeOK, Fitting, Limit, Buffer
<1>2. CASE cur # {}
  BY <1>2 DEF Buffers, ReaderInv, TypeOK
<1> QED
  BY <1>1, <1>2

(* libuv is asked for something, and it fits. *)
LEMMA AskedFits ==
  ASSUME ReaderInv, conn = "up", NEW b \in Buffers
  PROVE  Asked(b) \in Nat \ {0} /\ b.len + Asked(b) <= HdrLen + b.cap
<1>1. b \in Buffer /\ b.len <= HdrLen + b.cap /\ Fitting(b)
  BY BufferFits
<1>2. HdrLen \in Nat /\ b.len \in Nat /\ b.cap \in Nat
  BY <1>1, FrameReaderAssumption DEF Buffer
<1>3. Announced(b).len \in Nat
  BY AnnouncedType DEF ReaderInv
<1>4. CASE b.len < HdrLen
  BY <1>2, <1>4 DEF Asked
<1>5. CASE b.len >= HdrLen
  <2>1. Announced(b).len <= b.cap /\ b.len < HdrLen + Announced(b).len
    BY <1>1, <1>5 DEF Fitting, FrameLen
  <2>2. Asked(b) = HdrLen + Announced(b).len - b.len
    BY <1>2, <1>5 DEF Asked
  <2> QED
    BY <1>2, <1>3, <2>1, <2>2
<1> QED
  BY <1>2, <1>4, <1>5

(* What a step leaves in a buffer that got n bytes. *)
LEMMA GrownFits ==
  ASSUME ReaderInv, conn = "up", NEW b \in Buffers, NEW n \in 1..Asked(b)
  PROVE  /\ Grown(b, n) \in Buffer
         /\ Grown(b, n).len = b.len + n
         /\ Grown(b, n).len <= HdrLen + b.cap
         /\ Grown(b, n).from = b.from /\ Grown(b, n).cap = b.cap
         /\ Announced(Grown(b, n)) = Announced(b)
<1>1. b \in Buffer
  BY BufferFits
<1>2. Asked(b) \in Nat \ {0} /\ b.len + Asked(b) <= HdrLen + b.cap
  BY AskedFits
<1>3. HdrLen \in Nat /\ b.len \in Nat /\ b.cap \in Nat
  BY <1>1, FrameReaderAssumption DEF Buffer
<1>4. /\ Grown(b, n).len = b.len + n
      /\ Grown(b, n).from = b.from /\ Grown(b, n).cap = b.cap
      /\ Grown(b, n) \in Buffer
  BY <1>1, <1>2 DEF Grown, Buffer
<1>5. Grown(b, n).len <= HdrLen + b.cap
  BY <1>2, <1>3, <1>4
<1>6. Announced(Grown(b, n)) = Announced(b)
  BY <1>4 DEF Announced
<1> QED
  BY <1>4, <1>5, <1>6

-----------------------------------------------------------------------------
LEMMA ReaderInvInit == Init => ReaderInv
<1> SUFFICES ASSUME Init PROVE ReaderInv
  OBVIOUS
<1>1. stream \in [1..MaxFrames -> HostFrame]
  BY DEF Init
<1>2. done \in Seq(Buffer)
  BY DEF Init
<1>3. at \in Nat /\ is_connected \in BOOLEAN /\ reading \in BOOLEAN
      /\ starved \in BOOLEAN /\ conn = "up" /\ cur = {}
  BY DEF Init
<1> QED
  BY <1>1, <1>2, <1>3 DEF ReaderInv, TypeOK

(* What a header says does not depend on the state of the reader. *)
LEMMA AnnouncedStays ==
  ASSUME UNCHANGED stream, NEW b
  PROVE  Announced(b)' = Announced(b)
BY DEF Announced, Starts

LEMMA ReaderInvKick == ReaderInv /\ (Refused \/ Kick) => ReaderInv'
<1> SUFFICES ASSUME ReaderInv, Refused \/ Kick PROVE ReaderInv'
  OBVIOUS
<1>1. UNCHANGED <<stream, at, conn, is_connected, cur, done>>
  BY DEF Refused, Kick
<1>2. reading' \in BOOLEAN /\ starved' \in BOOLEAN
  BY DEF Refused, Kick
<1>3. ASSUME NEW b \in cur PROVE Fitting(b)'
  <2>1. Announced(b)' = Announced(b)
    BY <1>1, AnnouncedStays
  <2>2. Fitting(b)
    BY DEF ReaderInv
  <2> QED
    BY <1>1, <2>1, <2>2 DEF Fitting, Limit, FrameLen
<1>4. TypeOK'
  BY <1>1, <1>2 DEF ReaderInv, TypeOK
<1> QED
  BY <1>1, <1>3, <1>4 DEF ReaderInv

LEMMA ReaderInvPartial ==
  ASSUME ReaderInv, NEW b \in Buffers, NEW n \in 1..Asked(b), Partial(b, n)
  PROVE  ReaderInv'
<1> DEFINE g == Grown(b, n)
<1>1. conn = "up" /\ at' = at + n /\ cur' = {g}
  BY DEF Partial, Got, Listening
<1>2. UNCHANGED <<stream, conn, is_connected, reading, starved, done>>
  BY DEF Partial
<1>3. /\ g \in Buffer /\ g.len = b.len + n /\ g.len <= HdrLen + b.cap
      /\ g.cap = b.cap /\ Announced(g) = Announced(b)
  BY <1>1, GrownFits
<1>4. b \in Buffer /\ Fitting(b) /\ Asked(b) \in Nat
  BY <1>1, BufferFits, AskedFits
<1>5. TypeOK'
  BY <1>1, <1>2, <1>3, <1>4 DEF ReaderInv, TypeOK
<1>6. Announced(g)' = Announced(b)
  BY <1>2, <1>3, AnnouncedStays
<1>7. Fitting(g)'
  <2>1. (g.cap = Limit)'
    BY <1>2, <1>3, <1>4 DEF Fitting, Limit
  <2>2. CASE g.len >= HdrLen
    <3>1. g.len < FrameLen(Announced(b))
      BY <2>2, <1>3, FrameReaderAssumption, AnnouncedType DEF Partial, Complete, FrameLen, Buffer, ReaderInv
    <3>2. Announced(b).len <= b.cap
      <4>1. CASE b.len < HdrLen
        BY <4>1, <2>2, <1>3, <1>4 DEF Partial, HeaderEnds, GoodHeader, Fitting
      <4>2. CASE b.len >= HdrLen
        BY <4>2, <1>1, <1>4 DEF Fitting
      <4> QED
        BY <4>1, <4>2, <1>4, FrameReaderAssumption DEF Buffer
    <3> QED
      BY <3>1, <3>2, <2>1, <1>3, <1>6 DEF Fitting, FrameLen
  <2>3. CASE ~(g.len >= HdrLen)
    BY <2>1, <2>3 DEF Fitting
  <2> QED
    BY <2>2, <2>3
<1> QED
  BY <1>1, <1>5, <1>7 DEF ReaderInv

LEMMA ReaderInvWhole ==
  ASSUME ReaderInv, NEW b \in Buffers, NEW n \in 1..Asked(b), Whole(b, n)
  PROVE  ReaderInv'
<1>1. conn = "up" /\ at' = at + n /\ cur' = {}
  BY DEF Whole, Got, Listening
<1>2. Grown(b, n) \in Buffer /\ Asked(b) \in Nat
  BY <1>1, GrownFits, AskedFits
<1>3. done' \in Seq(Buffer)
  BY <1>2 DEF Whole, ReaderInv, TypeOK
<1>4. is_connected' \in BOOLEAN
  BY DEF Whole, ReaderInv, TypeOK
<1> QED
  BY <1>1, <1>2, <1>3, <1>4 DEF Whole, ReaderInv, TypeOK

LEMMA ReaderInvRejected ==
  ASSUME ReaderInv, NEW b \in Buffers, NEW n \in 1..Asked(b), Rejected(b, n)
  PROVE  ReaderInv'
<1> DEFINE g == Grown(b, n)
<1>1. conn = "up" /\ at' = at + n /\ cur' = {g} /\ conn' = "closing"
  BY DEF Rejected, Got, Listening
<1>2. UNCHANGED <<stream, is_connected, reading, starved, done>>
  BY DEF Rejected
<1>3. g \in Buffer /\ g.len <= HdrLen + b.cap /\ g.cap = b.cap
  BY <1>1, GrownFits
<1>4. Fitting(b) /\ Asked(b) \in Nat
  BY <1>1, BufferFits, AskedFits
<1>5. TypeOK'
  BY <1>1, <1>2, <1>3, <1>4 DEF ReaderInv, TypeOK
<1>6. Fitting(g)'
  BY <1>1, <1>2, <1>3, <1>4 DEF Fitting, Limit
<1> QED
  BY <1>1, <1>5, <1>6 DEF ReaderInv

LEMMA ReaderInvNext == ReaderInv /\ [Next]_rvars => ReaderInv'
<1> SUFFICES ASSUME ReaderInv, [Next]_rvars PROVE ReaderInv'
  OBVIOUS
<1>1. CASE Refused \/ Kick
  BY <1>1, ReaderInvKick
<1>2. CASE Receive
  <2>1. PICK b \in Buffers : \E n \in 1..Asked(b) :
          Partial(b, n) \/ Whole(b, n) \/ Rejected(b, n)
    BY <1>2 DEF Receive
  <2>2. PICK n \in 1..Asked(b) : Partial(b, n) \/ Whole(b, n) \/ Rejected(b, n)
    BY <2>1
  <2> QED
    BY <2>2, ReaderInvPartial, ReaderInvWhole, ReaderInvRejected
<1>3. CASE UNCHANGED rvars
  <2>1. ASSUME NEW b \in cur PROVE Fitting(b)'
    BY <1>3, AnnouncedStays DEF ReaderInv, Fitting, Limit, FrameLen, rvars
  <2> QED
    BY <1>3, <2>1 DEF ReaderInv, TypeOK, rvars
<1> QED
  BY <1>1, <1>2, <1>3 DEF Next

(* Reception keeps its types and its buffers within their memory. *)
THEOREM ReaderInvariance == Spec => []ReaderInv
<1> QED
  BY ReaderInvInit, ReaderInvNext, PTL DEF Spec

(* TypeOK of every reachable state: above all, no buffer holds more than its *)
(* memory. *)
THEOREM ReaderTypeCorrect == Spec => []TypeOK
<1>1. ReaderInv => TypeOK
  BY DEF ReaderInv
<1> QED
  BY <1>1, ReaderInvariance, PTL

(* libuv is never allowed to write past the end of a frame: the checks of    *)
(* the header keep pace with the memory chosen at adb_uv_packet_allocate().  *)
THEOREM WritesFitCorrect == Spec => []WritesFit
<1>1. ReaderInv => WritesFit
  <2> SUFFICES ASSUME ReaderInv, conn = "up", NEW b \in cur
               PROVE  b.len + Asked(b) <= HdrLen + b.cap /\ Asked(b) > 0
    BY DEF WritesFit
  <2>1. b \in Buffers
    BY DEF Buffers
  <2> QED
    BY <2>1, AskedFits
<1> QED
  BY <1>1, ReaderInvariance, PTL

-----------------------------------------------------------------------------
(* Where the frames start *)

\* A frame starts where the one before ends.
LEMMA StartsFacts ==
  ASSUME TypeOK
  PROVE  /\ Starts[1] = 0
         /\ \A k \in 1..(MaxFrames + 1) : Starts[k] \in Nat
         /\ \A k \in 1..MaxFrames : Starts[k + 1] = Starts[k] + FrameLen(stream[k])
         /\ \A j, k \in 1..(MaxFrames + 1) : j <= k => Starts[j] <= Starts[k]
<1> DEFINE N == MaxFrames
           a == [k \in 1..N |-> FrameLen(stream[k])]
           Def(f) == f = [k \in 1..(N + 1) |->
                            IF k = 1 THEN 0
                                     ELSE f[k - 1] + FrameLen(stream[k - 1])]
<1>1. N \in Nat /\ \A k \in 1..N : a[k] \in Nat
  <2>1. \A k \in 1..N : stream[k].len \in Nat
    BY FrameReaderAssumption DEF TypeOK, HostFrame
  <2> QED BY <2>1, FrameReaderAssumption DEF FrameLen
<1>2. \E f : Def(f)
  <2>1. PICK g : RunningSum(g, a, N)
    BY <1>1, SumExists
  <2> DEFINE f == [k \in 1..(N + 1) |-> g[k - 1]]
  <2>2. ASSUME NEW k \in 1..(N + 1)
        PROVE  g[k - 1] = IF k = 1 THEN 0
                                   ELSE f[k - 1] + FrameLen(stream[k - 1])
    <3>1. CASE k = 1
      BY <2>1, <3>1 DEF RunningSum
    <3>2. CASE k # 1
      <4>1. k - 1 \in 1..N /\ k - 1 \in 1..(N + 1)
        BY <1>1, <3>2
      <4>2. g[k - 1] = g[(k - 1) - 1] + FrameLen(stream[k - 1])
        BY <2>1, <4>1 DEF RunningSum
      <4> QED BY <3>2, <4>1, <4>2
    <3> QED BY <3>1, <3>2
  <2>3. Def(f)
    BY <2>2
  <2> QED BY <2>3
<1>3. Starts = CHOOSE f : Def(f)
  BY DEF Starts
<1> HIDE DEF Def
<1>4. Def(Starts)
  BY <1>2, <1>3
<1> DEFINE f0 == [k \in 0..N |-> Starts[k + 1]]
<1>5. f0 = [k \in 0..N |-> IF k = 0 THEN 0 ELSE f0[k - 1] + a[k]]
  <2>1. ASSUME NEW k \in 0..N
        PROVE  Starts[k + 1] = IF k = 0 THEN 0 ELSE f0[k - 1] + a[k]
    <3>1. k + 1 \in 1..(N + 1) /\ (k + 1) - 1 = k
      BY <1>1
    <3>2. Starts[k + 1] = IF k + 1 = 1 THEN 0 ELSE Starts[k] + FrameLen(stream[k])
      BY <1>4, <3>1 DEF Def
    <3>3. CASE k = 0
      BY <3>2, <3>3
    <3>4. CASE k # 0
      <4>1. k - 1 \in 0..N /\ (k - 1) + 1 = k /\ k \in 1..N /\ k + 1 # 1
        BY <1>1, <3>4
      <4> QED BY <3>2, <3>4, <4>1
    <3> QED BY <3>3, <3>4
  <2> QED BY <2>1
<1>6. RunningSum(f0, a, N)
  BY <1>1, <1>5, SumDefined
<1>7. \A m, n \in 0..N : m <= n => f0[m] <= f0[n]
  BY <1>1, <1>6, SumMonotone
<1>8. ASSUME NEW k \in 1..(N + 1)
      PROVE  Starts[k] \in Nat /\ k - 1 \in 0..N /\ Starts[k] = f0[k - 1]
  <2>1. k - 1 \in 0..N /\ (k - 1) + 1 = k
    BY <1>1
  <2> QED BY <1>6, <2>1 DEF RunningSum
<1>9. ASSUME NEW k \in 1..N
      PROVE  Starts[k + 1] = Starts[k] + FrameLen(stream[k])
  <2>1. k \in 0..N /\ k - 1 \in 0..N /\ (k - 1) + 1 = k
    BY <1>1
  <2>2. f0[k] = f0[k - 1] + a[k]
    BY <1>6 DEF RunningSum
  <2> QED BY <2>1, <2>2
<1>10. Starts[1] = 0
  BY <1>1, <1>6 DEF RunningSum
<1>11. ASSUME NEW j \in 1..(N + 1), NEW k \in 1..(N + 1), j <= k
       PROVE  Starts[j] <= Starts[k]
  <2>1. j - 1 <= k - 1
    BY <1>1, <1>11
  <2> QED BY <1>7, <1>8, <2>1
<1> QED BY <1>8, <1>9, <1>10, <1>11

\* Starts differ, for a frame has a header.
LEMMA StartsDiffer ==
  ASSUME TypeOK, NEW j \in 1..(MaxFrames + 1), NEW k \in 1..(MaxFrames + 1), j < k
  PROVE  Starts[j] < Starts[k]
<1>1. MaxFrames \in Nat /\ HdrLen \in Nat \ {0}
  BY FrameReaderAssumption
<1>2. j \in 1..MaxFrames /\ j + 1 \in 1..(MaxFrames + 1) /\ j + 1 <= k
  BY <1>1
<1>3. stream[j].len \in Nat
  BY <1>2, FrameReaderAssumption DEF TypeOK, HostFrame
<1>4. Starts[j] < Starts[j + 1]
  BY <1>1, <1>2, <1>3, StartsFacts DEF FrameLen
<1>5. Starts[j + 1] <= Starts[k]
  BY <1>2, StartsFacts
<1> QED BY <1>2, <1>4, <1>5, StartsFacts

\* The header of a buffer that starts where frame k starts is that of frame k.
LEMMA AnnouncedFrame ==
  ASSUME TypeOK, NEW b, NEW k \in 1..MaxFrames, b.from = Starts[k]
  PROVE  Announced(b) = stream[k]
<1>1. MaxFrames \in Nat /\ DOMAIN stream = 1..MaxFrames
  BY FrameReaderAssumption DEF TypeOK
<1>2. \A j \in 1..MaxFrames : Starts[j] = Starts[k] => j = k
  <2>1. ASSUME NEW j \in 1..MaxFrames, j # k PROVE Starts[j] # Starts[k]
    <3>1. j \in 1..(MaxFrames + 1) /\ k \in 1..(MaxFrames + 1)
      BY <1>1
    <3>2. j < k \/ k < j
      BY <1>1, <2>1
    <3> QED BY <3>1, <3>2, StartsDiffer, StartsFacts
  <2> QED BY <2>1
<1>3. (CHOOSE j \in DOMAIN stream : Starts[j] = b.from) = k
  BY <1>1, <1>2
<1> QED BY <1>1, <1>3 DEF Announced

-----------------------------------------------------------------------------
(* Buffers and frames *)

\* The handshake is done once these frames are processed.
Greeted(n) == \E k \in 1..n : stream[k].kind = "greet"

\* The n-th buffer holds frame n as it is, in the memory there was for it.
Holds(b, n) ==
  /\ b.from = Starts[n] /\ b.len = FrameLen(stream[n])
  /\ b.cap = IF Greeted(n - 1) THEN Payload ELSE CnxnPayload

Filled == IF cur = {} THEN {0} ELSE {b.len : b \in cur}

\* The frames that were processed are the first of the host.
Prefix ==
  Len(done) <= MaxFrames /\ \A n \in 1..Len(done) : Holds(done[n], n)

\* The reader is within the frame that is due.
Within ==
  /\ \A f \in Filled : at = Starts[Len(done) + 1] + f
  /\ \A b \in cur : /\ b.from = Starts[Len(done) + 1]
                    /\ b.len >= HdrLen => Announced(b).flaw # "magic"

\* However the bytes are cut, reception stays in step with the host's frames.
Aligned ==
  /\ Prefix
  /\ is_connected <=> Greeted(Len(done))
  /\ conn = "up" => Within

AlignedInv == ReaderInv /\ Aligned

\* What is received belongs to a frame of the host, the one that is due.
LEMMA Due ==
  ASSUME AlignedInv, NEW b \in Buffers, NEW n \in 1..Asked(b), Got(b, n)
  PROVE  /\ Len(done) \in Nat /\ Len(done) + 1 \in 1..MaxFrames
         /\ b.from = Starts[Len(done) + 1] /\ at = b.from + b.len
         /\ Announced(b) = stream[Len(done) + 1]
         /\ b.len \in Nat /\ n \in Nat \ {0}
         /\ b.cap = Limit
         /\ b.len >= HdrLen => /\ Announced(b).flaw # "magic"
                               /\ Announced(b).len <= Limit
<1> DEFINE k == Len(done) + 1
<1>1. conn = "up" /\ TypeOK /\ MaxFrames \in Nat /\ HdrLen \in Nat \ {0}
  BY FrameReaderAssumption DEF Got, Listening, AlignedInv, ReaderInv
<1>2. b \in Buffer /\ Asked(b) \in Nat /\ Fitting(b)
  BY <1>1, BufferFits, AskedFits DEF AlignedInv
<1>3. b.len \in Nat /\ n \in Nat \ {0}
  BY <1>2 DEF Buffer
<1>4. /\ Len(done) \in Nat /\ k \in 1..(MaxFrames + 1)
  BY <1>1 DEF AlignedInv, Aligned, Prefix, TypeOK
<1>5. b.from = Starts[k] /\ at = b.from + b.len
  <2>1. CASE cur = {}
    <3>1. at = Starts[k] + 0
      BY <1>1, <2>1 DEF AlignedInv, Aligned, Within, Filled
    <3>2. b.from = at /\ b.len = 0
      BY <2>1 DEF Buffers, Fresh
    <3> QED BY <1>1, <1>4, <3>1, <3>2, StartsFacts
  <2>2. CASE cur # {}
    <3>1. b \in cur
      BY <2>2 DEF Buffers
    <3>2. b.len \in Filled
      BY <3>1 DEF Filled
    <3> QED BY <1>1, <3>1, <3>2 DEF AlignedInv, Aligned, Prefix, Within
  <2> QED BY <2>1, <2>2
<1>6. k \in 1..MaxFrames
  <2>1. at + n <= Starts[MaxFrames + 1]
    BY DEF Got
  <2>2. at \in Nat /\ Starts[k] \in Nat /\ Starts[MaxFrames + 1] \in Nat
    BY <1>1, <1>4, StartsFacts DEF TypeOK
  <2>3. k # MaxFrames + 1
    BY <1>3, <1>5, <2>1, <2>2
  <2> QED BY <1>1, <1>4, <2>3
<1>7. Announced(b) = stream[k]
  BY <1>1, <1>5, <1>6, AnnouncedFrame
<1>8. ASSUME b.len >= HdrLen
      PROVE  Announced(b).flaw # "magic" /\ Announced(b).len <= Limit
  <2>1. b \in cur
    BY <1>1, <1>8 DEF Buffers, Fresh
  <2> QED BY <1>1, <1>2, <1>8, <2>1 DEF AlignedInv, Aligned, Within, Fitting
<1> QED BY <1>2, <1>3, <1>4, <1>5, <1>6, <1>7, <1>8 DEF Fitting

\* A complete frame is complete to the byte.
LEMMA Exact ==
  ASSUME AlignedInv, NEW b \in Buffers, NEW n \in 1..Asked(b), Got(b, n),
         Complete(b, n)
  PROVE  b.len + n = FrameLen(stream[Len(done) + 1])
<1> DEFINE f == stream[Len(done) + 1]
<1>1. /\ Announced(b) = f /\ b.len \in Nat /\ n \in Nat /\ n <= Asked(b)
      /\ HdrLen \in Nat /\ conn = "up"
  <2>1. Asked(b) \in Nat
    BY AskedFits DEF Got, Listening, AlignedInv
  <2> QED BY <2>1, Due, FrameReaderAssumption DEF Got, Listening
<1>2. f.len \in Nat
  BY <1>1, AnnouncedType DEF AlignedInv, ReaderInv
<1>3. b.len + n >= HdrLen /\ b.len + n >= HdrLen + f.len
  BY <1>1 DEF Complete, FrameLen
<1>4. CASE b.len < HdrLen
  <2>1. n <= HdrLen - b.len
    BY <1>1, <1>4 DEF Asked
  <2> QED BY <1>1, <1>2, <1>3, <1>4, <2>1 DEF FrameLen
<1>5. CASE b.len >= HdrLen
  <2>1. n <= HdrLen + f.len - b.len
    BY <1>1, <1>5 DEF Asked
  <2> QED BY <1>1, <1>2, <1>3, <1>5, <2>1 DEF FrameLen
<1> QED BY <1>1, <1>4, <1>5

\* The definitions about the stream do not depend on anything else.
LEMMA StreamStays ==
  ASSUME UNCHANGED stream
  PROVE  /\ UNCHANGED Starts
         /\ \A n : Greeted(n)' = Greeted(n)
         /\ \A b, n : Holds(b, n)' = Holds(b, n)
BY DEF Starts, Greeted, Holds, FrameLen

LEMMA AlignedKick ==
  ASSUME AlignedInv,
         UNCHANGED <<stream, at, conn, is_connected, cur, done>>
  PROVE  Aligned'
<1>1. /\ UNCHANGED <<Starts, Filled>>
      /\ \A n : Greeted(n)' = Greeted(n)
      /\ \A b, n : Holds(b, n)' = Holds(b, n)
  BY StreamStays DEF Filled
<1>2. \A b : Announced(b)' = Announced(b)
  BY AnnouncedStays
<1> QED BY <1>1, <1>2 DEF AlignedInv, Aligned, Prefix, Within

LEMMA AlignedPartial ==
  ASSUME AlignedInv, NEW b \in Buffers, NEW n \in 1..Asked(b), Partial(b, n)
  PROVE  Aligned'
<1> DEFINE g == Grown(b, n)
           k == Len(done) + 1
<1>1. /\ Got(b, n) /\ conn = "up" /\ at' = at + n /\ cur' = {g}
      /\ UNCHANGED <<stream, conn, is_connected, done>>
  BY DEF Partial, Got, Listening
<1>2. /\ k \in 1..MaxFrames /\ b.from = Starts[k] /\ at = b.from + b.len
      /\ b.len \in Nat /\ n \in Nat \ {0}
      /\ b.len >= HdrLen => Announced(b).flaw # "magic"
  BY <1>1, Due
<1>3. g.len = b.len + n /\ g.from = b.from /\ Announced(g) = Announced(b)
  BY <1>1, GrownFits DEF AlignedInv
<1>4. /\ UNCHANGED Starts
      /\ \A m : Greeted(m)' = Greeted(m)
      /\ \A c, m : Holds(c, m)' = Holds(c, m)
      /\ Announced(g)' = Announced(g)
  BY <1>1, StreamStays, AnnouncedStays
<1>5. Starts[k] \in Nat
  <2>1. k \in 1..(MaxFrames + 1)
    BY <1>2, FrameReaderAssumption
  <2> QED BY <2>1, StartsFacts DEF AlignedInv, ReaderInv
<1>6. \A f \in Filled' : at' = Starts'[Len(done') + 1] + f
  <2>1. Filled' = {g.len}
    BY <1>1 DEF Filled
  <2>2. at' = Starts[k] + g.len
    BY <1>1, <1>2, <1>3, <1>5
  <2> QED BY <1>1, <1>4, <2>1, <2>2
<1>7. g.len >= HdrLen => Announced(g).flaw # "magic"
  <2> SUFFICES ASSUME g.len >= HdrLen, b.len < HdrLen \/ b.len >= HdrLen
               PROVE  Announced(b).flaw # "magic"
    BY <1>2, <1>3, FrameReaderAssumption
  <2>1. CASE b.len < HdrLen
    BY <1>3, <2>1 DEF Partial, HeaderEnds, GoodHeader
  <2> QED BY <1>2, <2>1
<1> HIDE DEF g
<1> QED BY <1>1, <1>2, <1>3, <1>4, <1>6, <1>7 DEF AlignedInv, Aligned, Prefix, Within

\* A frame that is processed is the one that is due, and it is as it should be.
LEMMA WholeFrame ==
  ASSUME AlignedInv, NEW b \in Buffers, NEW n \in 1..Asked(b), Whole(b, n)
  PROVE  /\ Holds(Grown(b, n), Len(done) + 1)
         /\ Len(done) + 1 \in 1..MaxFrames
         /\ Announced(b) = stream[Len(done) + 1]
         /\ stream[Len(done) + 1].flaw = "none"
         /\ stream[Len(done) + 1].len <= Limit
<1> DEFINE g == Grown(b, n)
           k == Len(done) + 1
<1>1. Got(b, n) /\ conn = "up" /\ Complete(b, n)
  BY DEF Whole, Got, Listening
<1>2. /\ k \in 1..MaxFrames /\ b.from = Starts[k] /\ Announced(b) = stream[k]
      /\ b.len \in Nat /\ n \in Nat \ {0} /\ b.cap = Limit /\ Len(done) = k - 1
      /\ b.len >= HdrLen => /\ Announced(b).flaw # "magic"
                            /\ Announced(b).len <= Limit
  BY <1>1, Due
<1>3. g.len = b.len + n /\ g.from = b.from /\ g.cap = b.cap
  BY <1>1, GrownFits DEF AlignedInv
<1>4. Holds(g, k)
  <2>1. Limit = IF Greeted(k - 1) THEN Payload ELSE CnxnPayload
    BY <1>2 DEF AlignedInv, Aligned, Limit
  <2> QED BY <1>1, <1>2, <1>3, <2>1, Exact DEF Holds
<1>5. Announced(b).flaw # "magic" /\ Announced(b).len <= Limit
  <2>1. b.len < HdrLen \/ b.len >= HdrLen
    BY <1>2, FrameReaderAssumption
  <2>2. CASE b.len < HdrLen
    BY <1>1, <1>2, <2>2 DEF Whole, HeaderEnds, Complete, GoodHeader
  <2> QED BY <1>2, <2>1, <2>2
<1>6. Announced(b).flaw # "sum"
  BY DEF Whole
<1>7. stream[k].flaw \in {"magic", "sum", "none"}
  BY <1>2, FrameReaderAssumption
  DEF AlignedInv, ReaderInv, TypeOK, HostFrame
<1> QED BY <1>2, <1>4, <1>5, <1>6, <1>7

LEMMA AlignedWhole ==
  ASSUME AlignedInv, NEW b \in Buffers, NEW n \in 1..Asked(b), Whole(b, n)
  PROVE  Aligned'
<1> DEFINE g == Grown(b, n)
           k == Len(done) + 1
<1>1. /\ Got(b, n) /\ conn = "up" /\ at' = at + n /\ cur' = {}
      /\ UNCHANGED <<stream, conn>> /\ done' = Append(done, g)
      /\ is_connected' = (is_connected \/ Announced(b).kind = "greet")
  BY DEF Whole, Got, Listening
<1>2. /\ k \in 1..MaxFrames /\ b.from = Starts[k] /\ at = b.from + b.len
      /\ b.len \in Nat /\ n \in Nat \ {0} /\ Announced(b) = stream[k]
      /\ Len(done) \in Nat
  BY <1>1, Due
<1>3. Holds(g, k)
  BY WholeFrame
<1>4. /\ UNCHANGED Starts
      /\ \A m : Greeted(m)' = Greeted(m)
      /\ \A c, m : Holds(c, m)' = Holds(c, m)
  BY <1>1, StreamStays
<1>5. /\ Len(done') = k /\ done'[k] = g
      /\ \A m \in 1..Len(done) : done'[m] = done[m]
  <2>1. done \in Seq(Buffer)
    BY DEF AlignedInv, ReaderInv, TypeOK
  <2> QED BY <1>1, <2>1
<1> HIDE DEF g
<1>6. (\A m \in 1..Len(done) : Holds(done[m], m))'
  <2>1. ASSUME NEW m \in 1..k PROVE Holds(done'[m], m)
    <3>1. CASE m = k
      BY <1>3, <1>5, <3>1
    <3>2. CASE m # k
      <4>1. m \in 1..Len(done)
        BY <1>2, <2>1, <3>2
      <4> QED BY <1>5, <4>1 DEF AlignedInv, Aligned, Prefix, Within
    <3> QED BY <3>1, <3>2
  <2> HIDE DEF k
  <2> QED BY <1>4, <1>5, <2>1
<1>7. is_connected' <=> Greeted(k)
  <2>1. 1..k = (1..Len(done)) \cup {k}
    BY <1>2
  <2>2. Greeted(k) <=> Greeted(Len(done)) \/ stream[k].kind = "greet"
    BY <2>1 DEF Greeted
  <2> QED BY <1>1, <1>2, <2>2 DEF AlignedInv, Aligned, Prefix, Within
<1>8. \A f \in Filled' : at' = Starts'[Len(done') + 1] + f
  <2>1. Filled' = {0}
    BY <1>1 DEF Filled
  <2>2. b.len + n = FrameLen(stream[k])
    BY <1>1, Exact DEF Whole
  <2>3. /\ Starts[k + 1] = Starts[k] + FrameLen(stream[k])
        /\ Starts[k] \in Nat
    <3>1. k \in 1..(MaxFrames + 1)
      BY <1>2, FrameReaderAssumption
    <3> QED BY <1>2, <3>1, StartsFacts DEF AlignedInv, ReaderInv
  <2>4. at' = Starts[k + 1] + 0
    BY <1>1, <1>2, <2>2, <2>3
  <2> QED BY <1>4, <1>5, <2>1, <2>4
<1>9. (Len(done) <= MaxFrames)'
  BY <1>2, <1>5, FrameReaderAssumption
<1>10. (is_connected <=> Greeted(Len(done)))'
  BY <1>4, <1>5, <1>7
<1>11. Within'
  BY <1>1, <1>8 DEF Within
<1>12. Prefix'
  BY <1>6, <1>9 DEF Prefix
<1> QED BY <1>10, <1>11, <1>12 DEF Aligned

LEMMA AlignedNext == AlignedInv /\ [Next]_rvars => AlignedInv'
<1> SUFFICES ASSUME AlignedInv, [Next]_rvars PROVE Aligned'
  BY ReaderInvNext DEF AlignedInv
<1>1. CASE Refused \/ Kick
  BY <1>1, AlignedKick DEF Refused, Kick
<1>2. ASSUME NEW b \in Buffers, NEW n \in 1..Asked(b), Rejected(b, n)
      PROVE  Aligned'
  <2>1. conn' = "closing" /\ UNCHANGED <<stream, is_connected, done>>
    BY <1>2 DEF Rejected
  <2>2. /\ \A m : Greeted(m)' = Greeted(m)
        /\ \A c, m : Holds(c, m)' = Holds(c, m)
    BY <2>1, StreamStays
  <2> QED BY <2>1, <2>2 DEF AlignedInv, Aligned, Prefix, Within
<1>3. CASE UNCHANGED rvars
  BY <1>3, AlignedKick DEF rvars
<1> QED
  BY <1>1, <1>2, <1>3, AlignedPartial, AlignedWhole DEF Next, Receive

LEMMA AlignedInit == Init => AlignedInv
<1> SUFFICES ASSUME Init PROVE Aligned
  BY ReaderInvInit DEF AlignedInv
<1>1. Len(done) = 0 /\ 1..0 = {} /\ is_connected = FALSE /\ cur = {} /\ at = 0
  BY DEF Init
<1>2. Starts[1] = 0
  BY ReaderInvInit, StartsFacts DEF ReaderInv
<1>3. \A f \in Filled : at = Starts[Len(done) + 1] + f
  BY <1>1, <1>2 DEF Filled
<1> QED BY <1>1, <1>3, FrameReaderAssumption DEF Aligned, Prefix, Within, Greeted

-----------------------------------------------------------------------------
(* What the handlers may write *)

HostInv == AlignedInv /\ Ordered(stream)

(* Reception stays in step with a host that does its handshake in order. *)
THEOREM ReceptionInvariance == Spec => []HostInv
<1>1. Init => HostInv
  BY AlignedInit DEF HostInv, Init
<1>2. HostInv /\ [Next]_rvars => HostInv'
  <2> SUFFICES ASSUME HostInv, [Next]_rvars PROVE HostInv'
    OBVIOUS
  <2>1. stream' = stream
    BY DEF Next, Refused, Kick, Receive, Partial, Whole, Rejected, rvars
  <2> QED BY <2>1, AlignedNext DEF HostInv, Ordered
<1> QED BY <1>1, <1>2, PTL DEF Spec

\* A processed frame says what the host's frame says.
LEMMA DoneFrame ==
  ASSUME AlignedInv, NEW k \in DOMAIN done
  PROVE  /\ k \in 1..Len(done) /\ k \in 1..MaxFrames
         /\ Holds(done[k], k) /\ Announced(done[k]) = stream[k]
         /\ stream[k] \in HostFrame /\ Frame(done[k]) = stream[k]
<1>1. TypeOK /\ MaxFrames \in Nat
  BY FrameReaderAssumption DEF AlignedInv, ReaderInv
<1>2. k \in 1..Len(done) /\ Len(done) \in Nat
  BY <1>1 DEF TypeOK
<1>3. k \in 1..MaxFrames
  BY <1>1, <1>2 DEF AlignedInv, Aligned, Prefix
<1>4. Holds(done[k], k)
  BY <1>2 DEF AlignedInv, Aligned, Prefix
<1>5. Announced(done[k]) = stream[k]
  BY <1>1, <1>3, <1>4, AnnouncedFrame DEF Holds
<1> QED BY <1>1, <1>2, <1>3, <1>4, <1>5 DEF TypeOK, Frame, Holds

(* A handler answers in the memory of the frame it was given, and that is    *)
(* enough: a banner or a challenge in the memory of a connection that is not *)
(* up, the data of a service in that of one that is.                         *)
THEOREM AnswerFitsCorrect == Spec => []AnswerFits
<1>1. HostInv => AnswerFits
  <2> SUFFICES ASSUME HostInv, NEW k \in DOMAIN done
               PROVE  AnswerLen(Announced(done[k]).kind) <= done[k].cap
    BY DEF AnswerFits
  <2>1. /\ k \in 1..MaxFrames /\ Holds(done[k], k)
        /\ Announced(done[k]) = stream[k] /\ stream[k] \in HostFrame
        /\ MaxFrames \in Nat /\ DOMAIN stream = 1..MaxFrames
    BY DoneFrame, FrameReaderAssumption
    DEF HostInv, AlignedInv, ReaderInv, TypeOK
  <2>2. {Payload, CnxnPayload, TokenLen} \subseteq Nat /\ TokenLen <= CnxnPayload
    BY FrameReaderAssumption
  <2>3. stream[k].kind \in {"greet", "token", "data"}
    BY <2>1 DEF HostFrame
  <2>4. \A i \in 1..(k - 1) : i \in DOMAIN stream /\ i < k
    BY <2>1
  <2>5. CASE stream[k].kind # "data"
    <3>1. ~Greeted(k - 1)
      <4>1. ASSUME NEW i \in 1..(k - 1), stream[i].kind = "greet"
            PROVE  stream[k].kind = "data"
        BY <2>1, <2>4, <4>1 DEF HostInv, Ordered
      <4> QED BY <2>5, <4>1 DEF Greeted
    <3>2. done[k].cap = CnxnPayload
      BY <2>1, <3>1 DEF Holds
    <3> QED BY <2>1, <2>2, <2>3, <2>5, <3>2 DEF AnswerLen
  <2>6. CASE stream[k].kind = "data"
    <3>1. PICK i \in DOMAIN stream : stream[i].kind = "greet"
      BY <2>1, <2>6 DEF HostInv, Ordered
    <3>2. ~(k < i) /\ i # k
      BY <2>1, <2>6, <3>1 DEF HostInv, Ordered
    <3>3. i \in 1..(k - 1)
      BY <2>1, <3>2
    <3>4. done[k].cap = Payload
      BY <2>1, <3>1, <3>3 DEF Holds, Greeted
    <3> QED BY <2>1, <2>2, <2>6, <3>4 DEF AnswerLen
  <2> QED BY <2>5, <2>6
<1> QED BY <1>1, ReceptionInvariance, PTL

-----------------------------------------------------------------------------
(* Reception implements FrameStream *)

\* The frames that were processed, which is what FrameStream sees.
Processed == [k \in DOMAIN done |-> Frame(done[k])]

\* They are the first of the host's, and the host is greeted if one greets.
LEMMA ProcessedFacts ==
  ASSUME AlignedInv
  PROVE  /\ Processed = [k \in 1..Len(done) |-> stream[k]]
         /\ Processed \in Seq(HostFrame) /\ Len(Processed) = Len(done)
         /\ Len(done) \in Nat
         /\ Limit = IF \E k \in DOMAIN Processed : Processed[k].kind = "greet"
                    THEN Payload ELSE CnxnPayload
<1>1. DOMAIN done = 1..Len(done) /\ Len(done) \in Nat
  BY DEF AlignedInv, ReaderInv, TypeOK
<1>2. Processed = [k \in 1..Len(done) |-> stream[k]]
  BY <1>1, DoneFrame DEF Processed
<1>3. Processed \in [1..Len(done) -> HostFrame]
  BY <1>1, <1>2, DoneFrame
<1>4. Processed \in Seq(HostFrame)
  BY <1>1, <1>3, SeqDef
<1>5. Len(Processed) = Len(done)
  BY <1>1, <1>3, <1>4, LenProperties
<1>6. (\E k \in DOMAIN Processed : Processed[k].kind = "greet")
        <=> Greeted(Len(done))
  BY <1>2 DEF Greeted
<1>7. is_connected <=> Greeted(Len(done))
  BY DEF AlignedInv, Aligned
<1> QED BY <1>1, <1>2, <1>4, <1>5, <1>6, <1>7 DEF Limit

LEMMA FrameStays ==
  ASSUME UNCHANGED stream
  PROVE  \A c : Frame(c)' = Frame(c)
BY AnnouncedStays DEF Frame, FrameLen

LEMMA StreamWhole ==
  ASSUME AlignedInv, NEW b \in Buffers, NEW n \in 1..Asked(b), Whole(b, n)
  PROVE  Frames!Process
<1> DEFINE k == Len(done) + 1
<1>1. /\ conn = "up" /\ UNCHANGED <<stream, conn>>
      /\ done' = Append(done, Grown(b, n))
  BY DEF Whole, Got, Listening
<1>2. /\ k \in 1..MaxFrames /\ stream[k].flaw = "none"
      /\ stream[k].len <= Limit
  BY WholeFrame
<1>3. DOMAIN stream = 1..MaxFrames /\ \A m \in 1..MaxFrames : stream[m] \in HostFrame
  BY DEF AlignedInv, ReaderInv, TypeOK
<1>4. Len(Processed) + 1 = k /\ Len(done) \in Nat
  BY ProcessedFacts
<1>5. Welcome(stream[k], Processed)
  BY <1>2, ProcessedFacts DEF Welcome
<1>6. Processed' = Append(Processed, stream[k])
  <2>1. DOMAIN done' = 1..k /\ \A m \in 1..k : m \in 1..Len(done) \/ m = k
    <3>1. done \in Seq(Buffer)
      BY DEF AlignedInv, ReaderInv, TypeOK
    <3> QED BY <1>1, <3>1
  <2>2. Processed' = [m \in 1..k |-> stream[m]]
    <3>1. ASSUME NEW m \in 1..k PROVE Frame(done[m])' = stream[m]
      <4>1. CASE m \in 1..Len(done)
        <5>1. m \in DOMAIN done /\ done'[m] = done[m]
          BY <1>1, <4>1 DEF AlignedInv, ReaderInv, TypeOK
        <5>2. Frame(done[m]) = stream[m]
          BY <5>1, DoneFrame
        <5> QED BY <1>1, <5>1, <5>2, FrameStays
      <4>2. CASE m = k
        <5>1. done'[m] = Grown(b, n)
          BY <1>1, <4>2 DEF AlignedInv, ReaderInv, TypeOK
        <5>2. Frame(Grown(b, n)) = stream[k]
          BY <1>1, WholeFrame, GrownFits DEF Frame, Holds, AlignedInv
        <5> QED BY <1>1, <4>2, <5>1, <5>2, FrameStays
      <4> QED BY <2>1, <4>1, <4>2
    <3> QED BY <2>1, <3>1 DEF Processed
  <2>3. Processed = [m \in 1..Len(done) |-> stream[m]] /\ Processed \in Seq(HostFrame)
        /\ Len(Processed) = Len(done)
    BY ProcessedFacts
  <2>4. Append(Processed, stream[k]) = [m \in 1..k |-> stream[m]]
    <3> DEFINE longer == Append(Processed, stream[k])
    <3>1. stream[k] \in HostFrame
      BY <1>2, <1>3
    <3>2. /\ longer \in Seq(HostFrame) /\ Len(longer) = k
          /\ \A m \in 1..Len(done) : longer[m] = Processed[m]
          /\ longer[k] = stream[k]
      BY <2>3, <3>1, AppendProperties
    <3> HIDE DEF longer
    <3>3. longer = [m \in 1..k |-> longer[m]]
      BY <3>2, LenProperties
    <3>4. \A m \in 1..k : IF m <= Len(done) THEN m \in 1..Len(done) ELSE m = k
      BY <1>4
    <3>5. \A m \in 1..k : longer[m] = stream[m]
      BY <2>3, <3>2, <3>4
    <3> QED BY <3>3, <3>5 DEF longer
  <2> QED BY <2>2, <2>4
<1> HIDE DEF k
<1> QED BY <1>1, <1>2, <1>3, <1>4, <1>5, <1>6
    DEF Frames!Process, Frames!Due, Processed

LEMMA StreamRejected ==
  ASSUME AlignedInv, NEW b \in Buffers, NEW n \in 1..Asked(b), Rejected(b, n)
  PROVE  Frames!Reject
<1> DEFINE k == Len(done) + 1
<1>1. /\ Got(b, n) /\ conn = "up" /\ conn' = "closing"
      /\ UNCHANGED <<stream, done>>
  BY DEF Rejected, Got, Listening
<1>2. k \in 1..MaxFrames /\ Announced(b) = stream[k]
  BY <1>1, Due
<1>3. DOMAIN stream = 1..MaxFrames
  BY DEF AlignedInv, ReaderInv, TypeOK
<1>4. Len(Processed) + 1 = k
  BY ProcessedFacts
<1>5. stream[k].flaw # "none" \/ ~(stream[k].len <= Limit)
  BY <1>2 DEF Rejected, GoodHeader
<1>6. ~Welcome(stream[k], Processed)
  BY <1>5, ProcessedFacts DEF Welcome
<1>7. UNCHANGED Processed
  BY <1>1, FrameStays DEF Processed
<1> HIDE DEF k
<1> QED BY <1>1, <1>2, <1>3, <1>4, <1>6, <1>7
    DEF Frames!Reject, Frames!Due, Processed

\* Every step of the reader is one of FrameStream, or none.
LEMMA StreamStep ==
  ASSUME AlignedInv, [Next]_rvars
  PROVE  [Frames!StreamNext]_(Frames!streamVars)
<1>1. ASSUME UNCHANGED <<stream, conn, done>>
      PROVE  UNCHANGED Frames!streamVars
  BY <1>1, FrameStays DEF Frames!streamVars
<1>2. CASE Refused \/ Kick \/ UNCHANGED rvars
  BY <1>1, <1>2 DEF Refused, Kick, rvars
<1>3. ASSUME NEW b \in Buffers, NEW n \in 1..Asked(b), Partial(b, n)
      PROVE  UNCHANGED Frames!streamVars
  BY <1>1, <1>3 DEF Partial
<1> QED
  BY <1>2, <1>3, StreamWhole, StreamRejected
  DEF Next, Receive, Frames!StreamNext

(* Reception implements FrameStream: however the bytes are cut and whenever  *)
(* the pool is empty, adb_uv_on_data_available() hands over the frames of    *)
(* the host whole, once and in order, and the first bad one ends it.         *)
THEOREM FrameStreamImplemented == Spec => ImplementsFrameStream
<1>1. Init => Frames!StreamInit
  BY DEF Init, Frames!StreamInit
<1>2. HostInv => AlignedInv
  BY DEF HostInv
<1> QED
  BY <1>1, <1>2, StreamStep, ReceptionInvariance, PTL
  DEF Spec, ImplementsFrameStream, Frames!StreamSpec
=============================================================================
