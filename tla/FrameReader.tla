---------------------------- MODULE FrameReader -----------------------------
(***************************************************************************)
(* The reception of frames: adb_uv_allocate_frame() and                    *)
(* adb_uv_on_data_available() (hal/hal_uv_packet.c), which read the bytes  *)
(* of the host in pieces cut anywhere, with the checks of adb_frame.c.     *)
(* AdbClient takes the reception of a frame for two steps, its first bytes *)
(* and its last; this module is what lies between them.                    *)
(*                                                                         *)
(* libuv (external) asks for a buffer and reads into it in one go: one     *)
(* step.  The contents of a buffer are a range of the host's bytes.        *)
(***************************************************************************)
EXTENDS Naturals, Sequences

CONSTANTS
  HdrLen,         \* sizeof(amessage)
  Payload,        \* CONFIG_ADBD_PAYLOAD_SIZE
  CnxnPayload,    \* CONFIG_ADBD_CNXN_PAYLOAD_SIZE
  TokenLen,       \* CONFIG_ADBD_TOKEN_SIZE
  Lengths,        \* payload lengths the host announces
  MaxFrames,      \* BOUND: frames the host sends
  Flaws           \* what may be wrong with a frame: "magic", "sum"

ASSUME FrameReaderAssumption ==
  /\ HdrLen \in Nat \ {0}
  /\ {Payload, CnxnPayload, TokenLen, MaxFrames} \subseteq Nat
  /\ TokenLen <= CnxnPayload
  /\ Lengths \subseteq Nat
  /\ Flaws \subseteq {"magic", "sum"}

VARIABLES
  stream,         \* the frames the host sends
  at,             \* the bytes of them that were read
  conn,           \* "up" or "closing"
  is_connected,   \* the handshake is done
  reading,        \* reading of the host's socket is started
  starved,        \* the pool has refused a frame and will kick
  cur,            \* client->cur_packet: {} or the frame being received
  done            \* the frames handed to adb_process_packet()

rvars == <<stream, at, conn, is_connected, reading, starved, cur, done>>

\* greet: the frame that completes the handshake; token: one that is answered
\* with a token challenge; data: any frame after the handshake.
HostFrame ==
  [kind : {"greet", "token", "data"}, len : Lengths,
   flaw : Flaws \cup {"none"}]

\* The host does its handshake first, and once.
Ordered(s) ==
  \A j, k \in DOMAIN s :
    /\ s[j].kind = "data" /\ j < k => s[k].kind = "data"
    /\ s[j].kind = "greet" /\ j # k => s[k].kind = IF j < k THEN "data"
                                                            ELSE "token"
    /\ s[j].kind = "data" => \E i \in DOMAIN s : s[i].kind = "greet"

Init ==
  /\ stream \in {s \in [1..MaxFrames -> HostFrame] : Ordered(s)}
  /\ at = 0
  /\ conn = "up" /\ is_connected = FALSE
  /\ reading = TRUE /\ starved = FALSE
  /\ cur = {} /\ done = <<>>

-----------------------------------------------------------------------------
FrameLen(f) == HdrLen + f.len

\* Where each frame of the host starts, and where the last one ends.
Starts ==
  LET Start[k \in 1..(MaxFrames + 1)] ==
        IF k = 1 THEN 0 ELSE Start[k - 1] + FrameLen(stream[k - 1])
  IN Start

\* What bytes that are not a frame look like.
Nonsense == [kind |-> "data", len |-> 0, flaw |-> "magic"]

(* Buffers.  from: where the bytes in the buffer start; len: cur_len; cap:   *)
(* the bytes of payload there is memory for.                                 *)

\* What the header in buffer b says.
Announced(b) ==
  IF \E k \in DOMAIN stream : Starts[k] = b.from
  THEN stream[CHOOSE k \in DOMAIN stream : Starts[k] = b.from]
  ELSE Nonsense

\* Mutation: the memory is always that of a data frame.
FreshSmall ==
  [from |-> at, len |-> 0, cap |-> Payload]

\* adb_uv_packet_allocate(client, !is_connected)
Fresh ==
  [from |-> at, len |-> 0, cap |-> IF is_connected THEN Payload
                                                   ELSE CnxnPayload]

\* Mutations: a header is not asked for separately; a payload is asked for
\* when there is none.
AskedGreedy(b) ==
  IF b.len < HdrLen THEN HdrLen + b.cap - b.len
                    ELSE HdrLen + Announced(b).len - b.len

AskedBoth(b) ==
  IF b.len <= HdrLen THEN HdrLen - b.len
                     ELSE HdrLen + Announced(b).len - b.len

\* buf->len
Asked(b) ==
  IF b.len < HdrLen THEN HdrLen - b.len
                    ELSE HdrLen + Announced(b).len - b.len

\* Mutation: the limit does not depend on the handshake.
LimitFixed == CnxnPayload

\* adb_check_frame_header() or adb_check_auth_frame_header()
Limit == IF is_connected THEN Payload ELSE CnxnPayload

GoodHeader(b) == Announced(b).flaw # "magic" /\ Announced(b).len <= Limit

-----------------------------------------------------------------------------
(* adb_uv_allocate_frame() *)

\* The frame being received, or a new one if the pool has any.
Buffers == IF cur = {} THEN {Fresh} ELSE cur

Listening == conn = "up" /\ reading

\* A new frame is refused: reading stops.
Refused ==
  /\ Listening /\ cur = {}
  /\ reading' = FALSE /\ starved' = TRUE
  /\ UNCHANGED <<stream, at, conn, is_connected, cur, done>>

\* The pool kicks.
Kick ==
  /\ conn = "up" /\ starved
  /\ reading' = TRUE /\ starved' = FALSE
  /\ UNCHANGED <<stream, at, conn, is_connected, cur, done>>

-----------------------------------------------------------------------------
(* adb_uv_on_data_available() *)

\* libuv got n bytes for b.
Got(b, n) ==
  /\ Listening
  /\ n <= Asked(b) /\ at + n <= Starts[MaxFrames + 1]
  /\ at' = at + n

Grown(b, n) == [b EXCEPT !.len = @ + n]

\* The header is complete with these n bytes.
HeaderEnds(b, n) == b.len < HdrLen /\ b.len + n >= HdrLen

Complete(b, n) == b.len + n >= HdrLen /\ b.len + n >= FrameLen(Announced(b))

\* More is to come.
Partial(b, n) ==
  /\ Got(b, n)
  /\ HeaderEnds(b, n) => GoodHeader(b)
  /\ ~Complete(b, n)
  /\ cur' = {Grown(b, n)}
  /\ UNCHANGED <<stream, conn, is_connected, reading, starved, done>>

\* The frame is processed.  The token challenge and data leave the handshake
\* as it is.
Whole(b, n) ==
  /\ Got(b, n)
  /\ HeaderEnds(b, n) => GoodHeader(b)
  /\ Complete(b, n) /\ Announced(b).flaw # "sum"
  /\ cur' = {}
  /\ done' = Append(done, Grown(b, n))
  /\ is_connected' = (is_connected \/ Announced(b).kind = "greet")
  /\ UNCHANGED <<stream, conn, reading, starved>>

\* Bad magic, a payload that is too long, or a wrong checksum.
Rejected(b, n) ==
  /\ Got(b, n)
  /\ \/ HeaderEnds(b, n) /\ ~GoodHeader(b)
     \/ /\ HeaderEnds(b, n) => GoodHeader(b)
        /\ Complete(b, n) /\ Announced(b).flaw = "sum"
  /\ conn' = "closing"
  /\ cur' = {Grown(b, n)}
  /\ UNCHANGED <<stream, is_connected, reading, starved, done>>

Receive ==
  \E b \in Buffers : \E n \in 1..Asked(b) :
    Partial(b, n) \/ Whole(b, n) \/ Rejected(b, n)

Next == Refused \/ Kick \/ Receive

Spec == Init /\ [][Next]_rvars

\* Bytes that were sent arrive; a reader that asks for frames again and again
\* gets one in the end: so do hosts in HostSession, else their writes would
\* have no answer there.
FairSpec == Spec /\ WF_rvars(Kick) /\ SF_rvars(Receive)

-----------------------------------------------------------------------------
(* Properties *)

Buffer == [from : Nat, len : Nat, cap : {Payload, CnxnPayload}]

\* Types; what was written into a buffer is within its memory.
TypeOK ==
  /\ stream \in [1..MaxFrames -> HostFrame]
  /\ at \in Nat
  /\ conn \in {"up", "closing"}
  /\ is_connected \in BOOLEAN /\ reading \in BOOLEAN /\ starved \in BOOLEAN
  /\ \A b \in cur : cur = {b} /\ b \in Buffer /\ b.len <= HdrLen + b.cap
  /\ done \in Seq(Buffer)

\* What is asked of libuv fits the memory of the frame, which was allocated
\* when the handshake may not have been done; and it is never nothing, which
\* libuv would take for an empty pool that nobody is going to kick.
WritesFit ==
  conn = "up" => \A b \in cur : /\ b.len + Asked(b) <= HdrLen + b.cap
                                /\ Asked(b) > 0

\* What a handler may write into the frame it answers in: the banner, a token,
\* or the data of a service.
AnswerLen(kind) ==
  CASE kind = "greet" -> CnxnPayload
    [] kind = "token" -> TokenLen
    [] kind = "data"  -> Payload

\* The answer to a frame fits the memory of that frame, for a host that does
\* its handshake first, and once.
AnswerFits ==
  \A k \in DOMAIN done : AnswerLen(Announced(done[k]).kind) <= done[k].cap

\* What was processed as a frame, if it is one.
Frame(b) ==
  IF b.len = FrameLen(Announced(b)) THEN Announced(b) ELSE Nonsense

Welcome(f, before) ==
  /\ f.flaw = "none"
  /\ f.len <= IF \E k \in DOMAIN before : before[k].kind = "greet"
              THEN Payload ELSE CnxnPayload

Frames == INSTANCE FrameStream WITH
            Acceptable <- Welcome,
            processed <- [k \in DOMAIN done |-> Frame(done[k])],
            up <- (conn = "up")

\* However the bytes are cut and whenever the pool is empty, frames are
\* processed whole, once, in order, and no bad one is.
ImplementsFrameStream == Frames!StreamSpec

\* Every frame of the host is processed, or the connection ends.
AllProcessed == <>(conn # "up" \/ Len(done) = MaxFrames)
=============================================================================
