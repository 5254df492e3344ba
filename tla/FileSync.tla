------------------------------ MODULE FileSync ------------------------------
(***************************************************************************)
(* One session of the file service (file_sync_service.c): stat, list,      *)
(* send (a file or a link) and recv.                                       *)
(*                                                                         *)
(* A frame of the host is processed in a loop; each pass of the loop is a  *)
(* step here.  Replies are written at the start of the frame that is being *)
(* read, behind the replies of earlier passes.  Contents are chosen when   *)
(* they are read.  Lengths are in words of four bytes.                     *)
(***************************************************************************)
EXTENDS Integers

CONSTANTS
  Payload,      \* CONFIG_ADBD_PAYLOAD_SIZE
  PathMax,      \* PATH_MAX, also SYNC_TEMP_BUFF_SIZE
  Lengths,      \* lengths the host announces
  MaxRest,      \* BOUND: length of a file, entries of a directory
  MaxUnacked,   \* BOUND: replies the host leaves unacknowledged
  Hosts,        \* the hosts there may be, see lockstep
  Symlinks,     \* CONFIG_ADBD_FILE_SYMLINK
  Failures      \* open, read, write, mkdir, symlink, malloc... may fail

HdrLen == 2     \* sizeof(msg->req), msg->data and msg->status
StatLen == 4    \* sizeof(msg->stat)
DentLen == 5    \* sizeof(msg->dent)
ReasonLen == 1  \* the text of a failure
NameLen == 1    \* the name of a directory entry

ASSUME FileSyncAssumption ==
  /\ Payload \in Nat /\ PathMax \in Nat /\ MaxRest \in Nat /\ MaxUnacked \in Nat
  /\ Payload >= DentLen + NameLen /\ PathMax >= HdrLen
  /\ Lengths \subseteq Nat
  /\ Hosts \subseteq BOOLEAN /\ {Symlinks, Failures} \subseteq BOOLEAN

VARIABLES
  lockstep,   \* the host sends well-formed requests, one at a time
  session,    \* "open" or "closed" (freed)
  state,      \* svc->state
  cmd,        \* svc->cmd
  namelen,    \* svc->namelen
  size,       \* svc->size: bytes collected in svc->buff
  held,       \* what the union of the service owns
  rest,       \* what is left of the file or directory that is open for reading
  busy,       \* a frame of the host is being processed
  left,       \* p->msg.data_length: not read yet
  pos,        \* svc->packet_ptr - p->data: read
  wlen,       \* p->write_len: replies written
  told,       \* the last reply written
  unacked,    \* replies sent that the host has not acknowledged
  sending     \* the host is sending a file or a link

frame == <<busy, left, pos>>
reply == <<wlen, told>>
host == <<unacked, sending>>
fsvars == <<lockstep, session, state, cmd, namelen, size, held, rest, frame,
            reply, host>>

Requests == {"STAT", "LIST", "SEND", "RECV"}
SendStates == {"FILE_HDR", "FILE_DATA", "SYM_HDR", "SYM_DATA"}
States == {"WAIT_CMD", "WAIT_CMD_DATA", "RECV", "LIST"} \cup SendStates

Smaller(a, b) == IF a < b THEN a ELSE b

Init ==
  /\ lockstep \in Hosts
  /\ session = "open" /\ state = "WAIT_CMD" /\ cmd = "none"
  /\ namelen = 0 /\ size = 0 /\ held = {} /\ rest = 0
  /\ busy = FALSE /\ left = 0 /\ pos = 0
  /\ wlen = 0 /\ told = "none"
  /\ unacked = 0 /\ sending = FALSE

-----------------------------------------------------------------------------
(* Shared pieces *)

\* What state_reset() releases.
Owned(s) ==
  CASE s = "LIST"                    -> {"path", "dir"}
    [] s \in {"RECV", "FILE_HDR", "FILE_DATA"} -> {"fd"}
    [] s \in {"SYM_HDR", "SYM_DATA"} -> {"path"}
    [] OTHER                         -> {}

\* The service goes on in state s and owns h.
Becomes(s, h) ==
  /\ state' = s /\ held' = h
  /\ UNCHANGED session

\* state_reset() in state s, owning h.
Resets(s, h) == Becomes("WAIT_CMD", h \ Owned(s)) /\ size' = 0

\* A handler fails: reset, then adb_service_close() ends in
\* file_sync_on_close(), and the frame leaves as CLSE without its replies.
Ends ==
  /\ session' = "closed"
  /\ state' = "WAIT_CMD" /\ size' = 0 /\ held' = held \ Owned(state)
  /\ busy' = FALSE

\* A reply is added behind the others.
Tells(what, length) == told' = what /\ wlen' = wlen + length

\* prepare_fail_message(): the text is cut to what is left of the payload.
FailLen(w) ==
  HdrLen + IF w + HdrLen <= Payload THEN Smaller(ReasonLen, Payload - HdrLen - w)
                                    ELSE ReasonLen

Fails == Tells("FAIL", FailLen(wlen)) /\ Resets(state, held)

Takes(n) == left' = left - n /\ pos' = pos + n /\ UNCHANGED busy

\* read_from_packet(): the field of length want is incomplete, complete, or
\* larger than the buffer.
ReadMoreUnchecked(want) ==
  /\ size + left < want
  /\ size' = size + left
  /\ Takes(left)

ReadMore(want) ==
  /\ want <= PathMax /\ size + left < want
  /\ size' = size + left
  /\ Takes(left)

ReadAll(want) ==
  /\ size <= want /\ want <= PathMax /\ size + left >= want
  /\ Takes(want - size)

ReadRejected(want) == size > want \/ want > PathMax

\* A pass that only collected bytes.
OnlyRead ==
  UNCHANGED <<session, state, cmd, namelen, held, rest, reply, host>>

-----------------------------------------------------------------------------
(* state_wait_cmd() *)

\* What the header of a request says.  A host that still sends a transfer
\* which failed is not understood.
Header ==
  IF lockstep
  THEN IF sending THEN {"other"} \X Lengths
       ELSE {h \in (Requests \cup {"QUIT"}) \X (Lengths \ {0}) :
               h[1] # "SEND" => h[2] >= left - (HdrLen - size)}
  ELSE (Requests \cup {"QUIT", "other"}) \X Lengths

WaitCmd ==
  /\ state = "WAIT_CMD"
  /\ \/ ReadMore(HdrLen) /\ OnlyRead
     \/ /\ ReadAll(HdrLen)
        /\ \E h \in Header :
             /\ h[1] # "QUIT" /\ h[2] < PathMax
             /\ cmd' = h[1] /\ namelen' = h[2] /\ size' = 0
             /\ sending' = (sending \/ h[1] = "SEND")
             /\ Becomes("WAIT_CMD_DATA", held)
        /\ UNCHANGED <<rest, reply, unacked>>

\* QUIT, or a path that is too long.
WaitCmdEnds ==
  /\ state = "WAIT_CMD"
  /\ size + left >= HdrLen
  /\ \E h \in Header : h[1] = "QUIT" \/ h[2] >= PathMax
  /\ Ends
  /\ UNCHANGED <<cmd, namelen, rest, left, pos, reply, host>>

-----------------------------------------------------------------------------
(* The requests: what is sent of a file or a directory of which r is left   *)
(* when w words of replies are already in the frame                        *)

\* Mutation: a read that does not fill the frame is taken for the last one.
RecvResultsShort(r, w) ==
  LET space == Payload - HdrLen - w IN
  {[told |-> IF k < space THEN "DONE" ELSE "DATA", rest |-> r - k,
    wlen |-> w + HdrLen + k] : k \in 0..Smaller(space, r)}

\* Mutation: the header of the reply is not counted.
RecvResultsWide(r, w) ==
  IF r = 0 THEN {[told |-> "DONE", rest |-> r, wlen |-> w + HdrLen]}
  ELSE {[told |-> "DATA", rest |-> r - k, wlen |-> w + HdrLen + k] :
          k \in 1..Smaller(Payload - w, r)}

\* state_process_recv().  Reading nothing means the end of the file; a space
\* below zero is a huge one for read().
RecvResults(r, w) ==
  LET space == Payload - HdrLen - w IN
  (IF space = 0 \/ r = 0
   THEN {[told |-> "DONE", rest |-> r, wlen |-> w + HdrLen]}
   ELSE {[told |-> "DATA", rest |-> r - k, wlen |-> w + HdrLen + k] :
           k \in 1..(IF space > 0 THEN Smaller(space, r) ELSE r)})
  \cup
  (IF Failures
   THEN {[told |-> "FAIL", rest |-> r, wlen |-> w + FailLen(w)]} ELSE {})

\* state_process_list(): one entry, its name cut to the payload.  The header
\* of an entry is not checked against the payload.  readdir() finds no entry at
\* the end of the directory and when it fails; the host is told DONE, in the
\* form of an entry, for both.
ListResults(r, w) ==
  LET space == Payload - DentLen - w IN
  (IF r = 0 \/ Failures
   THEN {[told |-> "LISTED", rest |-> r, wlen |-> w + DentLen]} ELSE {})
  \cup
  (IF r > 0
   THEN {[told |-> "DENT", rest |-> r - 1,
          wlen |-> w + DentLen +
                     IF space >= 0 THEN Smaller(NameLen, space) ELSE 0]}
   ELSE {})

\* The result of reading on in state s, owning Owned(s).
ReadsOn(s, res) ==
  /\ told' = res.told /\ wlen' = res.wlen /\ rest' = res.rest
  /\ \/ /\ res.told \in {"DATA", "DENT"}
        /\ Becomes(s, Owned(s)) /\ size' = 0
     \/ /\ res.told \notin {"DATA", "DENT"}
        /\ Resets(s, Owned(s))

-----------------------------------------------------------------------------
(* state_wait_cmd_data() and the state_init functions *)

InitStat ==
  /\ cmd = "STAT"
  /\ Tells("STAT", StatLen) /\ Becomes("WAIT_CMD", held) /\ size' = 0
  /\ UNCHANGED rest

\* Mutation: the path stays allocated when the directory cannot be opened.
InitListLeaks ==
  /\ cmd = "LIST"
  /\ \/ /\ Failures
        /\ Tells("LISTED", DentLen) /\ rest' \in 0..MaxRest
        /\ Becomes("WAIT_CMD", held \cup {"path"}) /\ size' = 0
     \/ \E r \in 0..MaxRest : \E res \in ListResults(r, wlen) :
          ReadsOn("LIST", res)

\* A directory whose path is too long for the names in it, or that cannot be
\* opened, is reported as one without entries.
InitList ==
  /\ cmd = "LIST"
  /\ \/ /\ Failures \/ namelen = PathMax - 1
        /\ Tells("LISTED", DentLen) /\ rest' \in 0..MaxRest
        /\ Resets(state, held)
     \/ \E r \in 0..MaxRest : \E res \in ListResults(r, wlen) :
          ReadsOn("LIST", res)

InitSend ==
  /\ cmd = "SEND"
  /\ \/ Failures /\ Fails
     \/ \E s \in {"FILE_HDR", "SYM_HDR"} :
          Becomes(s, held \cup Owned(s)) /\ size' = 0 /\ UNCHANGED reply
  /\ UNCHANGED rest

InitRecv ==
  /\ cmd = "RECV"
  /\ \/ Failures /\ Fails /\ UNCHANGED rest
     \/ \E r \in 0..MaxRest : \E res \in RecvResults(r, wlen) :
          ReadsOn("RECV", res)

WaitCmdData ==
  /\ state = "WAIT_CMD_DATA"
  /\ \/ ReadMore(namelen) /\ OnlyRead
     \/ /\ ReadAll(namelen)
        /\ InitStat \/ InitList \/ InitSend \/ InitRecv
        /\ UNCHANGED <<cmd, namelen, host>>

\* A command nobody knows.
WaitCmdDataEnds ==
  /\ state = "WAIT_CMD_DATA" /\ cmd = "other"
  /\ size + left >= namelen
  /\ Ends
  /\ UNCHANGED <<cmd, namelen, rest, left, pos, reply, host>>

-----------------------------------------------------------------------------
(* A transfer to the device *)

DataState == [FILE_HDR |-> "FILE_DATA", SYM_HDR |-> "SYM_DATA"]

\* state_process_send_header().  A host that sends one request at a time has
\* nothing more to say after DONE.
SendHeader ==
  /\ state \in {"FILE_HDR", "SYM_HDR"}
  /\ \/ ReadMore(HdrLen) /\ OnlyRead
     \/ /\ ReadAll(HdrLen)
        /\ \/ /\ Becomes(DataState[state], held) /\ size' = 0
              /\ namelen' \in Lengths
              /\ UNCHANGED <<reply, sending>>
           \/ /\ lockstep => left' = 0
              /\ Resets(state, held) /\ Tells("OKAY", HdrLen)
              /\ sending' = FALSE
              /\ UNCHANGED namelen
           \/ ~lockstep /\ Fails /\ UNCHANGED <<namelen, sending>>
        /\ UNCHANGED <<cmd, rest, unacked>>

\* Mutation: a block is what is left of the frame.
SendFileGreedy ==
  /\ state = "FILE_DATA"
  /\ Takes(left)
  /\ namelen' = namelen - left
  /\ Becomes(IF namelen' = 0 THEN "FILE_HDR" ELSE state, held)
  /\ UNCHANGED <<cmd, size, rest, reply, host>>

\* Mutation: only a block that was written can be the last one.
SendFileStuck ==
  LET block == Smaller(left, namelen) IN
  /\ state = "FILE_DATA"
  /\ Takes(block)
  /\ namelen' = namelen - block
  /\ Becomes(IF namelen' = 0 /\ block > 0 THEN "FILE_HDR" ELSE state, held)
  /\ UNCHANGED <<cmd, size, rest, reply, host>>

\* state_process_send_file()
SendFile ==
  LET block == Smaller(left, namelen) IN
  /\ state = "FILE_DATA"
  /\ Takes(block)
  /\ namelen' = namelen - block
  /\ \/ /\ Becomes(IF namelen' = 0 THEN "FILE_HDR" ELSE state, held)
        /\ UNCHANGED <<size, reply>>
     \/ Failures /\ block > 0 /\ Fails
  /\ UNCHANGED <<cmd, rest, host>>

\* state_process_send_sym()
SendSym ==
  /\ state = "SYM_DATA" /\ Symlinks
  /\ \/ ReadMore(namelen) /\ OnlyRead
     \/ /\ \/ ReadRejected(namelen) /\ UNCHANGED frame /\ Fails
           \/ /\ ReadAll(namelen)
              /\ \/ namelen < PathMax /\ Becomes("SYM_HDR", held) /\ size' = 0
                    /\ UNCHANGED reply
                 \/ (namelen >= PathMax \/ Failures) /\ Fails
        /\ UNCHANGED <<cmd, namelen, rest, host>>

\* Links are not compiled in; or data for a service that is sending itself.
Unexpected ==
  /\ state \in {"RECV", "LIST"} \cup (IF Symlinks THEN {} ELSE {"SYM_DATA"})
  /\ Ends
  /\ UNCHANGED <<cmd, namelen, rest, left, pos, reply, host>>

-----------------------------------------------------------------------------
(* file_sync_on_write() and file_sync_on_ack() *)

\* One pass of the loop.
Pass ==
  /\ session = "open" /\ busy /\ left > 0 /\ wlen <= Payload
  /\ \/ WaitCmd \/ WaitCmdEnds \/ WaitCmdData \/ WaitCmdDataEnds
     \/ SendHeader \/ SendFile \/ SendSym \/ Unexpected

\* The frame is used up: it leaves as OKAY, followed by the replies.
Answer ==
  /\ session = "open" /\ busy /\ left = 0 /\ wlen <= Payload
  /\ busy' = FALSE
  /\ unacked' = unacked + IF wlen > 0 THEN 1 ELSE 0
  /\ UNCHANGED <<session, state, cmd, namelen, size, held, rest, left, pos,
                 reply, sending>>

\* A host that sends one request at a time starts one only when it has
\* acknowledged every answer to the last, and sends no more than the request.
OneAtATime ==
  /\ state \notin {"RECV", "LIST"}
  /\ state = "WAIT_CMD" /\ size = 0 /\ ~sending => unacked = 0
  /\ state = "WAIT_CMD_DATA" /\ ~sending => left' <= namelen - size

\* The host sends a frame.
HostWrites ==
  /\ session = "open" /\ ~busy /\ unacked < MaxUnacked
  /\ busy' = TRUE /\ left' \in 1..Payload /\ pos' = 0
  /\ lockstep => OneAtATime
  /\ wlen' = 0 /\ told' = "none"
  /\ UNCHANGED <<session, state, cmd, namelen, size, held, rest, host>>

QuietStates == {"FILE_HDR", "SYM_HDR", "WAIT_CMD"}

\* Mutation: a list is not continued.
AckMeansDeaf ==
  \/ /\ state = "RECV"
     /\ \E res \in RecvResults(rest, 0) : ReadsOn("RECV", res)
     /\ UNCHANGED busy
  \/ /\ state \in QuietStates \cup {"LIST"}
     /\ wlen' = 0
     /\ UNCHANGED <<session, state, size, held, rest, told, busy>>
  \/ /\ state \in {"WAIT_CMD_DATA", "FILE_DATA", "SYM_DATA"}
     /\ Ends
     /\ wlen' = 0 /\ UNCHANGED <<rest, told>>

\* What an acknowledgement does; its frame carries the next block or entry.
AckMeans ==
  \/ /\ state = "RECV"
     /\ \E res \in RecvResults(rest, 0) : ReadsOn("RECV", res)
     /\ UNCHANGED busy
  \/ /\ state = "LIST"
     /\ \E res \in ListResults(rest, 0) : ReadsOn("LIST", res)
     /\ UNCHANGED busy
  \/ /\ state \in QuietStates
     /\ Resets(state, held)
     /\ wlen' = 0 /\ UNCHANGED <<rest, told, busy>>
  \/ /\ state \in {"WAIT_CMD_DATA", "FILE_DATA", "SYM_DATA"}
     /\ Ends
     /\ wlen' = 0 /\ UNCHANGED <<rest, told>>

HostAcks ==
  /\ session = "open" /\ ~busy /\ unacked > 0
  /\ AckMeans
  /\ unacked' = unacked - 1 + IF wlen' > 0 THEN 1 ELSE 0
  /\ UNCHANGED <<cmd, namelen, left, pos, sending>>

Next == (Pass \/ Answer \/ HostWrites \/ HostAcks) /\ UNCHANGED lockstep

Spec == Init /\ [][Next]_fsvars

\* The loop runs; the host acknowledges what it receives.
FairSpec ==
  /\ Spec
  /\ WF_fsvars(Pass /\ UNCHANGED lockstep)
  /\ WF_fsvars(Answer /\ UNCHANGED lockstep)
  /\ WF_fsvars(HostAcks /\ UNCHANGED lockstep)

-----------------------------------------------------------------------------
(* Properties *)

TypeOK ==
  /\ lockstep \in BOOLEAN
  /\ session \in {"open", "closed"}
  /\ state \in States
  /\ cmd \in Requests \cup {"none", "other"}
  /\ namelen \in Nat /\ size \in 0..PathMax
  /\ held \subseteq {"path", "dir", "fd"}
  /\ rest \in 0..MaxRest
  /\ busy \in BOOLEAN /\ left \in 0..Payload /\ pos \in 0..Payload
  /\ wlen \in Nat
  /\ told \in {"none", "STAT", "DENT", "LISTED", "DATA", "DONE", "OKAY", "FAIL"}
  /\ unacked \in 0..MaxUnacked + 1 /\ sending \in BOOLEAN

\* The union of the service owns exactly what state_reset() of the current
\* state releases: no descriptor, directory or path is leaked or released
\* twice, and a closed session owns nothing.
ResourcesFollowState == held = Owned(state)

\* What is being collected in svc->buff.
Wanted ==
  CASE state \in {"WAIT_CMD", "FILE_HDR", "SYM_HDR"} -> HdrLen
    [] state \in {"WAIT_CMD_DATA", "SYM_DATA"}       -> namelen
    [] OTHER                                         -> 0

\* A field that is partly collected belongs to the state the service is in and
\* fits the buffer: no bytes of one field end up in the next.
PartialFits == size > 0 => size < Wanted /\ Wanted <= PathMax

\* The replies to a host that sends one request at a time fit the payload of
\* the frame.
ReplyFits == lockstep => wlen <= Payload

\* "There may be more data to process in current frame": the replies do not
\* overwrite what is still to be read of the frame.
InputIntact == busy /\ left > 0 => wlen <= pos

\* Such a host is told that a file is DONE when it has been sent the whole of
\* it.  (Of a directory nothing of the kind can be said, see ListResults.)
DoneMeansComplete == lockstep /\ told = "DONE" => rest = 0

\* The loop ends for every frame of such a host.
FrameProcessed == lockstep /\ busy ~> ~busy

\* A file or directory that is being sent to it is sent to its end.
TransferEnds ==
  lockstep /\ state \in {"RECV", "LIST"} ~> state \notin {"RECV", "LIST"}
=============================================================================
