------------------------------- MODULE Banner -------------------------------
(***************************************************************************)
(* adb_fill_connect_data() (adb_banner.c): the parts of the banner are     *)
(* printed one after the other into the buffer of a frame, each with       *)
(* snprintf(), which writes what fits and a null byte, and returns how     *)
(* long the part is.  The parts are what the build configures: the device, *)
(* up to three optional products, the features.  Only lengths matter.      *)
(***************************************************************************)
EXTENDS Integers, Sequences

CONSTANTS
  Bufsize,      \* CONFIG_ADBD_CNXN_PAYLOAD_SIZE
  PartLengths,  \* lengths a part may have
  Words         \* values of msg.data_length, an unsigned int: 2^32

ASSUME BannerAssumption ==
  /\ Bufsize \in Nat \ {0} /\ PartLengths \subseteq Nat
  /\ Words \in Nat /\ Bufsize + 1 < Words

VARIABLES
  parts,       \* the lengths of the parts
  next,        \* the part to print next
  remaining,   \* room from buf on
  len,         \* what the last snprintf() returned
  written,     \* bytes of the buffer that were written
  done,        \* the function returned
  result       \* what it returned

bvars == <<parts, next, remaining, len, written, done, result>>

Min2(a, b) == IF a <= b THEN a ELSE b

Init ==
  /\ parts \in UNION {[1..n -> PartLengths] : n \in 2..5}
  /\ next = 1
  /\ remaining = Bufsize
  /\ len = 0
  /\ written = 0
  /\ done = FALSE
  /\ result = 0

\* return value, if the part does not fit
ReturnIf(cut, value) ==
  /\ done' = cut
  /\ result' = IF cut THEN value ELSE result

\* snprintf(buf, room, part)
Snprintf(room, part) ==
  /\ len' = part
  /\ written' = Bufsize - room + Min2(part + 1, room)

\* The device is too long: no banner.
PrintDevice ==
  /\ ~done /\ next = 1
  /\ Snprintf(remaining, parts[1])
  /\ ReturnIf(parts[1] >= remaining, -1)
  /\ next' = 2
  /\ UNCHANGED <<parts, remaining>>

\* Mutation: the room for a part is that for the one before.
PrintNextInPlace ==
  /\ ~done /\ next > 1 /\ next <= Len(parts)
  /\ Snprintf(remaining, parts[next])
  /\ ReturnIf(parts[next] >= remaining, Bufsize)
  /\ next' = next + 1
  /\ UNCHANGED <<parts, remaining>>

\* Mutation: a later part is counted, and not printed.
PrintNextSkips ==
  /\ ~done /\ next > 1 /\ next <= Len(parts)
  /\ LET room == remaining - len IN
     /\ remaining' = room
     /\ len' = parts[next]
     /\ UNCHANGED <<written, done, result>>
  /\ next' = next + 1
  /\ UNCHANGED parts

\* A later part that does not fit ends the banner where the buffer ends.
PrintNext ==
  /\ ~done /\ next > 1 /\ next <= Len(parts)
  /\ LET room == remaining - len IN
     /\ remaining' = room
     /\ Snprintf(room, parts[next])
     /\ ReturnIf(parts[next] >= room, Bufsize)
  /\ next' = next + 1
  /\ UNCHANGED parts

Return ==
  /\ ~done /\ next > Len(parts)
  /\ ReturnIf(TRUE, Bufsize - remaining + len)
  /\ UNCHANGED <<parts, next, remaining, len, written>>

\* What send_cnxn_frame() makes of the result: the length of its payload.
DataLength == IF result < 0 THEN result + Words ELSE result

Next == PrintDevice \/ PrintNext \/ Return

Spec == Init /\ [][Next]_bvars

-----------------------------------------------------------------------------
(* Properties *)

\* The buffer is never overrun, and all that send_cnxn_frame() sends of it was
\* written, except when the device alone does not fit: send_cnxn_frame() takes
\* the error for a length, and much more is sent than the frame has.
OnlyBannerSent ==
  done => /\ written <= Bufsize
          /\ IF parts[1] < Bufsize THEN DataLength <= written
                                   ELSE DataLength > Bufsize

Total[n \in 0..Len(parts)] == IF n = 0 THEN 0 ELSE Total[n - 1] + parts[n]

\* Truncation takes from the end: the banner is all of its parts, or as much of
\* them as there is room for.
BannerComplete ==
  done =>
    result = IF parts[1] >= Bufsize THEN -1
                                    ELSE Min2(Total[Len(parts)], Bufsize)
=============================================================================
