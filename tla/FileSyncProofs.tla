--------------------------- MODULE FileSyncProofs ---------------------------
(***************************************************************************)
(* What holds of a file session.  Whatever the host sends, its resources    *)
(* follow its state, a partly read field belongs to the state and fits the  *)
(* buffer, and every variable keeps its type.  With a host that sends one   *)
(* request at a time (lockstep), the replies fit the frame and a file that  *)
(* is DONE is complete.                                                     *)
(***************************************************************************)
EXTENDS FileSync, TLAPS

\* The part of TypeOK the argument needs.
Lengthy == state \in States /\ {size, namelen, left} \subseteq Nat

\* The inductive invariant.
SessionInv == Lengthy /\ ResourcesFollowState /\ PartialFits

\* A session that collects nothing and owns what its state releases keeps the
\* invariant: where every step that changes state ends up.
LEMMA FreshState ==
  ASSUME state' \in States, size' = 0, {namelen', left'} \subseteq Nat,
         held' = Owned(state')
  PROVE  SessionInv'
  BY DEF SessionInv, Lengthy, ResourcesFollowState, PartialFits

\* The host announces natural numbers only.
LEMMA HeaderLength ==
  ASSUME NEW h \in Header
  PROVE  h[2] \in Nat
  BY FileSyncAssumption DEF Header

\* Reading a whole field takes no more than there is.
LEMMA ReadAllLeft ==
  ASSUME SessionInv, NEW want \in Nat, ReadAll(want)
  PROVE  left' \in Nat
  BY DEF ReadAll, Takes, SessionInv, Lengthy

\* A pass that collects part of a field.
LEMMA Collects ==
  ASSUME SessionInv, ReadMore(Wanted), Wanted \in Nat, OnlyRead
  PROVE  SessionInv'
<1>1. size' = size + left /\ size' < Wanted /\ Wanted <= PathMax /\ left' = 0
  BY DEF ReadMore, Takes, SessionInv, Lengthy
<1>2. UNCHANGED <<state, namelen, held>>
  BY DEF OnlyRead
<1>3. Wanted' = Wanted
  BY <1>2 DEF Wanted
<1>. QED
  BY <1>1, <1>2, <1>3, FileSyncAssumption
  DEF SessionInv, Lengthy, ResourcesFollowState, PartialFits

\* The end of the session releases everything.
LEMMA EndKeeps ==
  ASSUME SessionInv, Ends, UNCHANGED <<namelen, left>>
  PROVE  SessionInv'
<1>1. held' = Owned(state')
  BY DEF Ends, SessionInv, ResourcesFollowState, Owned
<1>. QED
  BY <1>1, FreshState DEF Ends, States, SessionInv, Lengthy

\* A failure releases everything, too.
LEMMA FailureKeeps ==
  ASSUME SessionInv, Resets(state, held), {namelen', left'} \subseteq Nat
  PROVE  SessionInv'
<1>1. held' = Owned(state')
  BY DEF Resets, Becomes, SessionInv, ResourcesFollowState, Owned
<1>. QED
  BY <1>1, FreshState DEF Resets, Becomes, States

\* Reading on keeps the descriptor, or the directory, until the end of it.
LEMMA ReadingKeeps ==
  ASSUME NEW s \in {"RECV", "LIST"}, NEW res, ReadsOn(s, res),
         {namelen', left'} \subseteq Nat
  PROVE  SessionInv'
<1>1. state' \in States /\ size' = 0 /\ held' = Owned(state')
  BY DEF ReadsOn, Resets, Becomes, States, Owned
<1>. QED
  BY <1>1, FreshState

\* The states that collect nothing have size zero.
LEMMA NothingCollected ==
  ASSUME SessionInv, state = "FILE_DATA"
  PROVE  size = 0
  BY DEF SessionInv, Lengthy, PartialFits, Wanted

-----------------------------------------------------------------------------

LEMMA WaitCmdKeeps == ASSUME SessionInv, WaitCmd PROVE SessionInv'
<1>1. CASE ReadMore(HdrLen) /\ OnlyRead
  BY <1>1, Collects DEF WaitCmd, Wanted, HdrLen
<1>2. ASSUME ReadAll(HdrLen), NEW h \in Header, namelen' = h[2], size' = 0,
             Becomes("WAIT_CMD_DATA", held)
      PROVE  SessionInv'
  <2>1. held' = Owned(state') /\ state' \in States
    BY <1>2 DEF WaitCmd, Becomes, SessionInv, ResourcesFollowState, Owned, States
  <2>2. namelen' \in Nat /\ left' \in Nat
    BY <1>2, HeaderLength, ReadAllLeft DEF HdrLen
  <2>. QED
    BY <1>2, <2>1, <2>2, FreshState
<1>. QED
  BY <1>1, <1>2 DEF WaitCmd

LEMMA WaitCmdDataKeeps == ASSUME SessionInv, WaitCmdData PROVE SessionInv'
<1>1. state = "WAIT_CMD_DATA" /\ Wanted = namelen /\ namelen \in Nat
  BY DEF WaitCmdData, Wanted, SessionInv, Lengthy
<1>2. CASE ReadMore(namelen) /\ OnlyRead
  BY <1>1, <1>2, Collects
<1>3. ASSUME ReadAll(namelen), UNCHANGED namelen,
             InitStat \/ InitList \/ InitSend \/ InitRecv
      PROVE  SessionInv'
  <2>1. held = {} /\ {namelen', left'} \subseteq Nat
    BY <1>1, <1>3, ReadAllLeft DEF SessionInv, ResourcesFollowState, Owned
  <2>2. CASE InitStat
    BY <2>1, <2>2, FreshState DEF InitStat, Becomes, Owned, States
  <2>3. CASE InitList
    BY <2>1, <2>3, FailureKeeps, ReadingKeeps DEF InitList
  <2>4. CASE InitSend
    <3>1. CASE Fails
      BY <2>1, <3>1, FailureKeeps DEF Fails
    <3>2. ASSUME NEW s \in {"FILE_HDR", "SYM_HDR"},
                 Becomes(s, held \cup Owned(s)), size' = 0
          PROVE  SessionInv'
      BY <2>1, <3>2, FreshState DEF Becomes, States, SendStates
    <3>. QED
      BY <2>4, <3>1, <3>2 DEF InitSend
  <2>5. CASE InitRecv
    BY <2>1, <2>5, FailureKeeps, ReadingKeeps DEF InitRecv, Fails
  <2>. QED
    BY <1>3, <2>2, <2>3, <2>4, <2>5
<1>. QED
  BY <1>2, <1>3 DEF WaitCmdData

LEMMA SendHeaderKeeps == ASSUME SessionInv, SendHeader PROVE SessionInv'
<1>1. state \in {"FILE_HDR", "SYM_HDR"} /\ Wanted = HdrLen /\ HdrLen \in Nat
  BY DEF SendHeader, Wanted, HdrLen
<1>2. CASE ReadMore(HdrLen) /\ OnlyRead
  BY <1>1, <1>2, Collects
<1>3. ASSUME ReadAll(HdrLen), Becomes(DataState[state], held), size' = 0,
             namelen' \in Lengths
      PROVE  SessionInv'
  <2>1. namelen' \in Nat /\ left' \in Nat
    BY <1>1, <1>3, ReadAllLeft, FileSyncAssumption
  <2>2. state' \in States /\ held' = Owned(state')
    BY <1>1, <1>3
    DEF Becomes, DataState, States, SendStates, SessionInv,
        ResourcesFollowState, Owned
  <2>. QED
    BY <1>3, <2>1, <2>2, FreshState
<1>4. ASSUME ReadAll(HdrLen), Resets(state, held), UNCHANGED namelen
      PROVE  SessionInv'
  BY <1>1, <1>4, ReadAllLeft, FailureKeeps DEF SessionInv, Lengthy
<1>. QED
  BY <1>2, <1>3, <1>4 DEF SendHeader, Fails

LEMMA SendFileKeeps == ASSUME SessionInv, SendFile PROVE SessionInv'
<1>1. state = "FILE_DATA" /\ {namelen', left'} \subseteq Nat
  BY DEF SendFile, Takes, Smaller, SessionInv, Lengthy
<1>2. CASE Fails
  BY <1>1, <1>2, FailureKeeps DEF Fails
<1>3. CASE /\ Becomes(IF namelen' = 0 THEN "FILE_HDR" ELSE state, held)
           /\ UNCHANGED size
  <2>1. state' \in States /\ held' = Owned(state')
    BY <1>1, <1>3
    DEF Becomes, States, SendStates, SessionInv, ResourcesFollowState, Owned
  <2>. QED
    BY <1>1, <1>3, <2>1, NothingCollected, FreshState
<1>. QED
  BY <1>2, <1>3 DEF SendFile

LEMMA SendSymKeeps == ASSUME SessionInv, SendSym PROVE SessionInv'
<1>1. state = "SYM_DATA" /\ Wanted = namelen /\ {namelen, left} \subseteq Nat
  BY DEF SendSym, Wanted, SessionInv, Lengthy
<1>2. CASE ReadMore(namelen) /\ OnlyRead
  BY <1>1, <1>2, Collects
<1>3. CASE UNCHANGED <<frame, namelen>> /\ Fails
  BY <1>1, <1>3, FailureKeeps DEF Fails, frame
<1>4. ASSUME ReadAll(namelen), Becomes("SYM_HDR", held), size' = 0,
             UNCHANGED namelen
      PROVE  SessionInv'
  <2>1. held' = Owned(state') /\ state' \in States
    BY <1>1, <1>4
    DEF Becomes, States, SendStates, SessionInv, ResourcesFollowState, Owned
  <2>. QED
    BY <1>1, <1>4, <2>1, ReadAllLeft, FreshState
<1>5. ASSUME ReadAll(namelen), Fails, UNCHANGED namelen
      PROVE  SessionInv'
  BY <1>1, <1>5, ReadAllLeft, FailureKeeps DEF Fails
<1>. QED
  BY <1>2, <1>3, <1>4, <1>5 DEF SendSym

LEMMA HostAcksKeeps == ASSUME SessionInv, HostAcks PROVE SessionInv'
<1>1. AckMeans /\ {namelen', left'} \subseteq Nat /\ UNCHANGED <<namelen, left>>
  BY DEF HostAcks, SessionInv, Lengthy
<1>2. ASSUME NEW s \in {"RECV", "LIST"}, NEW res, ReadsOn(s, res)
      PROVE  SessionInv'
  BY <1>1, <1>2, ReadingKeeps
<1>3. CASE Resets(state, held)
  BY <1>1, <1>3, FailureKeeps
<1>4. CASE Ends
  BY <1>1, <1>4, EndKeeps
<1>. QED
  BY <1>1, <1>2, <1>3, <1>4 DEF AckMeans

-----------------------------------------------------------------------------

LEMMA SessionInvInit == Init => SessionInv
  BY DEF Init, SessionInv, Lengthy, ResourcesFollowState, PartialFits, Owned,
         States

LEMMA SessionInvStep == SessionInv /\ [Next]_fsvars => SessionInv'
<1>. SUFFICES ASSUME SessionInv, [Next]_fsvars PROVE SessionInv'
  OBVIOUS
<1>1. CASE Pass
  <2>1. CASE WaitCmdEnds \/ WaitCmdDataEnds \/ Unexpected
    BY <2>1, EndKeeps DEF WaitCmdEnds, WaitCmdDataEnds, Unexpected
  <2>. QED
    BY <1>1, <2>1, WaitCmdKeeps, WaitCmdDataKeeps, SendHeaderKeeps,
       SendFileKeeps, SendSymKeeps DEF Pass
<1>2. CASE Answer
  BY <1>2 DEF Answer, SessionInv, Lengthy, ResourcesFollowState, PartialFits,
              Wanted
<1>3. CASE HostWrites
  <2>1. left' \in Nat /\ UNCHANGED <<state, size, namelen, held>>
    BY <1>3, FileSyncAssumption DEF HostWrites
  <2>. QED
    BY <2>1 DEF SessionInv, Lengthy, ResourcesFollowState, PartialFits, Wanted
<1>4. CASE HostAcks
  BY <1>4, HostAcksKeeps
<1>5. CASE UNCHANGED fsvars
  BY <1>5 DEF fsvars, frame, SessionInv, Lengthy, ResourcesFollowState,
              PartialFits, Wanted
<1>. QED
  BY <1>1, <1>2, <1>3, <1>4, <1>5 DEF Next

\* state_reset() (file_sync_service.c:265) and the state it is called in never
\* disagree on what the session owns, for every size, host and failure.
THEOREM ResourcesCorrect == Spec => []ResourcesFollowState
<1>1. SessionInv => ResourcesFollowState
  BY DEF SessionInv
<1>. QED
  BY <1>1, SessionInvInit, SessionInvStep, PTL DEF Spec

\* read_from_packet() (file_sync_service.c:215) never continues the field of
\* another state and never writes behind svc->buff.
THEOREM FieldsCorrect == Spec => []PartialFits
<1>1. SessionInv => PartialFits
  BY DEF SessionInv
<1>. QED
  BY <1>1, SessionInvInit, SessionInvStep, PTL DEF Spec

-----------------------------------------------------------------------------
(* Types *)

Told == {"none", "STAT", "DENT", "LISTED", "DATA", "DONE", "OKAY", "FAIL"}

\* TypeOK and what bounds the positions in a frame and the acknowledgements.
FileTypes ==
  /\ TypeOK
  /\ pos + left <= Payload
  /\ busy => unacked < MaxUnacked

LEMMA FailLength ==
  ASSUME NEW w \in Nat
  PROVE  FailLen(w) \in Nat /\ FailLen(0) <= Payload
BY FileSyncAssumption DEF FailLen, Smaller, HdrLen, ReasonLen, DentLen, NameLen

\* What is read on of a file: a full frame at most when the frame was empty,
\* and never DONE before the end then.
LEMMA RecvTypes ==
  ASSUME NEW r \in 0..MaxRest, NEW w \in Nat, NEW res \in RecvResults(r, w)
  PROVE  /\ res.told \in {"DATA", "DONE", "FAIL"}
         /\ res.rest \in 0..MaxRest /\ res.wlen \in Nat
         /\ w = 0 => res.wlen <= Payload /\ (res.told = "DONE" => res.rest = 0)
<1> DEFINE space == Payload - HdrLen - w
<1>1. /\ HdrLen = 2 /\ FailLen(w) \in Nat /\ FailLen(0) <= Payload
      /\ Payload \in Nat /\ Payload >= 6 /\ MaxRest \in Nat
  BY FailLength, FileSyncAssumption DEF HdrLen, DentLen, NameLen
<1>2. CASE /\ space = 0 \/ r = 0
           /\ res = [told |-> "DONE", rest |-> r, wlen |-> w + HdrLen]
  BY <1>1, <1>2
<1>3. ASSUME NEW k \in 1..(IF space > 0 THEN Smaller(space, r) ELSE r),
             res = [told |-> "DATA", rest |-> r - k, wlen |-> w + HdrLen + k]
      PROVE  /\ res.told = "DATA" /\ res.rest \in 0..MaxRest /\ res.wlen \in Nat
             /\ w = 0 => res.wlen <= Payload
  <2>1. k \in Nat /\ k <= r /\ (space > 0 => k <= space)
    BY <1>1 DEF Smaller
  <2> QED BY <1>1, <1>3, <2>1
<1>4. CASE res = [told |-> "FAIL", rest |-> r, wlen |-> w + FailLen(w)]
  BY <1>1, <1>4
<1> QED BY <1>2, <1>3, <1>4 DEF RecvResults

\* The same of a directory, which is never DONE in the way of a file.
LEMMA ListTypes ==
  ASSUME NEW r \in 0..MaxRest, NEW w \in Nat, NEW res \in ListResults(r, w)
  PROVE  /\ res.told \in {"DENT", "LISTED"}
         /\ res.rest \in 0..MaxRest /\ res.wlen \in Nat
         /\ w = 0 => res.wlen <= Payload
<1> DEFINE space == Payload - DentLen - w
           name == IF space >= 0 THEN Smaller(NameLen, space) ELSE 0
<1>1. /\ DentLen = 5 /\ NameLen = 1 /\ Payload \in Nat /\ Payload >= 6
      /\ MaxRest \in Nat
  BY FileSyncAssumption DEF DentLen, NameLen
<1>2. name \in Nat /\ (w = 0 => name <= Payload - DentLen)
  BY <1>1 DEF Smaller
<1>3. CASE res = [told |-> "LISTED", rest |-> r, wlen |-> w + DentLen]
  BY <1>1, <1>3
<1>4. CASE /\ r > 0
           /\ res = [told |-> "DENT", rest |-> r - 1, wlen |-> w + DentLen + name]
  <2> HIDE DEF name
  <2> QED BY <1>1, <1>2, <1>4
<1> QED BY <1>3, <1>4 DEF ListResults

\* What a step leaves of a frame.
LEMMA TakenTypes ==
  ASSUME FileTypes, NEW n \in 0..left, Takes(n)
  PROVE  /\ left' \in 0..Payload /\ pos' \in 0..Payload
         /\ pos' + left' <= Payload /\ busy' = busy
BY FileSyncAssumption DEF Takes, FileTypes, TypeOK

LEMMA ReadTypes ==
  ASSUME FileTypes, NEW want \in Nat, ReadMore(want) \/ ReadAll(want)
  PROVE  /\ left' \in 0..Payload /\ pos' \in 0..Payload
         /\ pos' + left' <= Payload /\ busy' = busy
         /\ ReadMore(want) => size' \in 0..PathMax
<1>1. size \in Nat /\ left \in Nat
  BY FileSyncAssumption DEF FileTypes, TypeOK
<1>2. CASE ReadMore(want)
  BY <1>1, <1>2, TakenTypes, FileSyncAssumption DEF ReadMore
<1>3. CASE ReadAll(want) /\ ~ReadMore(want)
  <2>1. want - size \in 0..left
    BY <1>1, <1>3 DEF ReadAll
  <2> QED BY <1>3, <2>1, TakenTypes DEF ReadAll
<1> QED BY <1>2, <1>3

LEMMA ReadOnTypes ==
  ASSUME NEW s \in {"RECV", "LIST"}, NEW res, ReadsOn(s, res),
         res.told \in Told, res.rest \in 0..MaxRest, res.wlen \in Nat
  PROVE  /\ told' \in Told /\ rest' \in 0..MaxRest /\ wlen' \in Nat
         /\ state' \in States /\ size' = 0 /\ UNCHANGED session
         /\ held' \subseteq {"path", "dir", "fd"}
BY DEF ReadsOn, Resets, Becomes, States, Owned

\* The parts of FileTypes a pass may touch, in the order they are shown.
LEMMA PassTypes ==
  ASSUME FileTypes, UNCHANGED lockstep, busy, session' \in {"open", "closed"}, state' \in States,
         cmd' \in Requests \cup {"none", "other"}, namelen' \in Nat,
         size' \in 0..PathMax, held' \subseteq {"path", "dir", "fd"},
         rest' \in 0..MaxRest, busy' \in BOOLEAN, left' \in 0..Payload,
         pos' \in 0..Payload, pos' + left' <= Payload,
         wlen' \in Nat, told' \in Told,
         sending' \in BOOLEAN, UNCHANGED unacked
  PROVE  FileTypes'
BY FileSyncAssumption DEF FileTypes, TypeOK, Told

\* A step that only collected bytes.
LEMMA CollectedTypes ==
  ASSUME FileTypes, UNCHANGED lockstep, busy, NEW want \in Nat, ReadMore(want), OnlyRead
  PROVE  FileTypes'
<1>1. /\ left' \in 0..Payload /\ pos' \in 0..Payload
      /\ pos' + left' <= Payload /\ busy' = busy /\ size' \in 0..PathMax
  BY ReadTypes
<1>2. UNCHANGED <<session, state, cmd, namelen, held, rest, wlen, told,
                  unacked, sending>>
  BY DEF OnlyRead, reply, host
<1> QED BY <1>1, <1>2, PassTypes DEF FileTypes, TypeOK, Told

LEMMA EndTypes ==
  ASSUME FileTypes, UNCHANGED lockstep, busy, Ends,
         UNCHANGED <<cmd, namelen, rest, left, pos, reply, host>>
  PROVE  FileTypes'
<1>1. /\ session' = "closed" /\ state' \in States /\ size' \in 0..PathMax
      /\ held' \subseteq {"path", "dir", "fd"} /\ busy' = FALSE
  <2>1. 0 \in 0..PathMax /\ held \subseteq {"path", "dir", "fd"}
    BY FileSyncAssumption DEF FileTypes, TypeOK
  <2> QED BY <2>1 DEF Ends, States
<1>2. UNCHANGED <<cmd, namelen, rest, left, pos, wlen, told, unacked, sending>>
  BY DEF reply, host
<1> QED BY <1>1, <1>2, PassTypes DEF FileTypes, TypeOK, Told

\* A step that reports a failure.
LEMMA FailTypes ==
  ASSUME FileTypes, Fails
  PROVE  /\ told' \in Told /\ wlen' \in Nat /\ state' \in States
         /\ size' \in 0..PathMax /\ held' \subseteq {"path", "dir", "fd"}
         /\ UNCHANGED session
<1>1. wlen \in Nat /\ held \subseteq {"path", "dir", "fd"} /\ PathMax \in Nat
  BY FileSyncAssumption DEF FileTypes, TypeOK
<1>2. told' = "FAIL" /\ wlen' = wlen + FailLen(wlen)
  BY DEF Fails, Tells
<1>3. /\ state' \in States /\ size' = 0 /\ UNCHANGED session
      /\ held' \subseteq held
  BY DEF Fails, Resets, Becomes, States
<1> QED BY <1>1, <1>2, <1>3, FailLength DEF Told

LEMMA WaitCmdTypes ==
  ASSUME FileTypes, UNCHANGED lockstep, busy, WaitCmd
  PROVE  FileTypes'
<1>1. HdrLen \in Nat
  BY DEF HdrLen
<1>2. CASE ReadMore(HdrLen) /\ OnlyRead
  BY <1>1, <1>2, CollectedTypes
<1>3. ASSUME ReadAll(HdrLen), NEW h \in Header, h[1] # "QUIT",
             cmd' = h[1], namelen' = h[2], size' = 0,
             sending' = (sending \/ h[1] = "SEND"),
             Becomes("WAIT_CMD_DATA", held), UNCHANGED <<rest, reply, unacked>>
      PROVE  FileTypes'
  <2>1. cmd' \in Requests \cup {"none", "other"}
    BY <1>3 DEF Header, Requests
  <2>2. namelen' \in Nat /\ size' \in 0..PathMax /\ sending' \in BOOLEAN
    BY <1>3, HeaderLength, FileSyncAssumption DEF FileTypes, TypeOK
  <2>3. /\ left' \in 0..Payload /\ pos' \in 0..Payload
        /\ pos' + left' <= Payload /\ busy' = busy
    BY <1>1, <1>3, ReadTypes
  <2>4. /\ state' \in States /\ UNCHANGED <<session, held, rest, wlen, told>>
    BY <1>3 DEF Becomes, reply, States
  <2> QED BY <1>3, <2>1, <2>2, <2>3, <2>4, PassTypes DEF FileTypes, TypeOK, Told
<1> QED BY <1>2, <1>3 DEF WaitCmd

LEMMA WaitCmdDataTypes ==
  ASSUME FileTypes, UNCHANGED lockstep, busy, WaitCmdData
  PROVE  FileTypes'
<1>1. namelen \in Nat /\ wlen \in Nat /\ held \subseteq {"path", "dir", "fd"}
      /\ 0 \in 0..PathMax /\ 0 \in 0..MaxRest /\ rest \in 0..MaxRest
      /\ session \in {"open", "closed"} /\ told \in Told
  BY FileSyncAssumption DEF FileTypes, TypeOK, Told
<1>2. CASE ReadMore(namelen) /\ OnlyRead
  BY <1>1, <1>2, CollectedTypes
<1>3. ASSUME ReadAll(namelen), InitStat \/ InitList \/ InitSend \/ InitRecv,
             UNCHANGED <<cmd, namelen, host>>
      PROVE  FileTypes'
  <2>1. /\ left' \in 0..Payload /\ pos' \in 0..Payload
        /\ pos' + left' <= Payload /\ busy' = busy
    BY <1>1, <1>3, ReadTypes
  <2>2. SUFFICES /\ told' \in Told /\ rest' \in 0..MaxRest /\ wlen' \in Nat
                 /\ state' \in States /\ size' \in 0..PathMax
                 /\ UNCHANGED session /\ held' \subseteq {"path", "dir", "fd"}
    BY <1>1, <1>3, <2>1, PassTypes DEF FileTypes, TypeOK, host
  <2>3. CASE InitStat
    BY <1>1, <2>3 DEF InitStat, Tells, StatLen, Becomes, States, Told
  <2>4. CASE InitList
    <3>1. CASE /\ Tells("LISTED", DentLen) /\ rest' \in 0..MaxRest
               /\ Resets(state, held)
      <4>1. told' \in Told /\ wlen' \in Nat
        BY <1>1, <3>1 DEF Tells, DentLen, Told
      <4>2. /\ state' \in States /\ size' = 0 /\ UNCHANGED session
            /\ held' \subseteq held
        BY <3>1 DEF Resets, Becomes, States
      <4> QED BY <1>1, <3>1, <4>1, <4>2
    <3>2. ASSUME NEW r \in 0..MaxRest, NEW res \in ListResults(r, wlen),
                 ReadsOn("LIST", res)
          PROVE  /\ told' \in Told /\ rest' \in 0..MaxRest /\ wlen' \in Nat
                 /\ state' \in States /\ size' \in 0..PathMax
                 /\ UNCHANGED session /\ held' \subseteq {"path", "dir", "fd"}
      <4>1. res.told \in Told /\ res.rest \in 0..MaxRest /\ res.wlen \in Nat
        BY <1>1, ListTypes DEF Told
      <4> QED BY <1>1, <3>2, <4>1, ReadOnTypes
    <3> QED BY <2>4, <3>1, <3>2 DEF InitList
  <2>5. CASE InitSend
    <3>1. CASE Fails
      BY <1>1, <2>5, <3>1, FailTypes DEF InitSend
    <3>2. ASSUME NEW s \in {"FILE_HDR", "SYM_HDR"},
                 Becomes(s, held \cup Owned(s)), size' = 0, UNCHANGED reply
          PROVE  /\ told' \in Told /\ wlen' \in Nat
                 /\ state' \in States /\ size' \in 0..PathMax
                 /\ UNCHANGED session /\ held' \subseteq {"path", "dir", "fd"}
      BY <1>1, <3>2 DEF Becomes, Owned, reply, States, SendStates
    <3> QED BY <1>1, <2>5, <3>1, <3>2 DEF InitSend
  <2>6. CASE InitRecv
    <3>1. CASE Fails /\ UNCHANGED rest
      BY <1>1, <3>1, FailTypes
    <3>2. ASSUME NEW r \in 0..MaxRest, NEW res \in RecvResults(r, wlen),
                 ReadsOn("RECV", res)
          PROVE  /\ told' \in Told /\ rest' \in 0..MaxRest /\ wlen' \in Nat
                 /\ state' \in States /\ size' \in 0..PathMax
                 /\ UNCHANGED session /\ held' \subseteq {"path", "dir", "fd"}
      <4>1. res.told \in Told /\ res.rest \in 0..MaxRest /\ res.wlen \in Nat
        BY <1>1, RecvTypes DEF Told
      <4> QED BY <1>1, <3>2, <4>1, ReadOnTypes
    <3> QED BY <2>6, <3>1, <3>2 DEF InitRecv
  <2> QED BY <1>3, <2>3, <2>4, <2>5, <2>6
<1> QED BY <1>2, <1>3 DEF WaitCmdData

LEMMA SendHeaderTypes ==
  ASSUME FileTypes, UNCHANGED lockstep, busy, SendHeader
  PROVE  FileTypes'
<1>1. /\ HdrLen \in Nat /\ wlen \in Nat /\ held \subseteq {"path", "dir", "fd"}
      /\ 0 \in 0..PathMax /\ namelen \in Nat /\ told \in Told /\ sending \in BOOLEAN
      /\ wlen + HdrLen \in Nat
  BY FileSyncAssumption DEF HdrLen, FileTypes, TypeOK, Told
<1>2. CASE ReadMore(HdrLen) /\ OnlyRead
  BY <1>1, <1>2, CollectedTypes
<1>3. ASSUME ReadAll(HdrLen), UNCHANGED <<cmd, rest, unacked>>,
             /\ told' \in Told /\ wlen' \in Nat /\ state' \in States
             /\ size' \in 0..PathMax /\ held' \subseteq {"path", "dir", "fd"}
             /\ UNCHANGED session /\ namelen' \in Nat /\ sending' \in BOOLEAN
      PROVE  FileTypes'
  <2>1. /\ left' \in 0..Payload /\ pos' \in 0..Payload
        /\ pos' + left' <= Payload /\ busy' = busy
    BY <1>1, <1>3, ReadTypes
  <2> QED BY <1>3, <2>1, PassTypes DEF FileTypes, TypeOK
<1>4. CASE /\ Becomes(DataState[state], held) /\ size' = 0
           /\ namelen' \in Lengths
           /\ UNCHANGED <<reply, sending>>
           /\ ReadAll(HdrLen) /\ UNCHANGED <<cmd, rest, unacked>>
  <2>1. state' \in States /\ namelen' \in Nat
    BY <1>4, FileSyncAssumption
    DEF SendHeader, Becomes, DataState, States, SendStates
  <2> QED BY <1>1, <1>3, <1>4, <2>1 DEF Becomes, reply
<1>5. CASE /\ Resets(state, held) /\ Tells("OKAY", HdrLen)
           /\ sending' = FALSE
           /\ UNCHANGED namelen
           /\ ReadAll(HdrLen) /\ UNCHANGED <<cmd, rest, unacked>>
  BY <1>1, <1>3, <1>5 DEF Resets, Becomes, Tells, States, Told
<1>6. CASE /\ Fails /\ UNCHANGED <<namelen, sending>>
           /\ ReadAll(HdrLen) /\ UNCHANGED <<cmd, rest, unacked>>
  BY <1>1, <1>3, <1>6, FailTypes
<1> QED BY <1>2, <1>4, <1>5, <1>6 DEF SendHeader

LEMMA SendFileTypes ==
  ASSUME FileTypes, UNCHANGED lockstep, busy, SendFile
  PROVE  FileTypes'
<1> DEFINE block == Smaller(left, namelen)
<1>1. /\ wlen \in Nat /\ held \subseteq {"path", "dir", "fd"} /\ namelen \in Nat
      /\ told \in Told /\ left \in Nat
  BY DEF FileTypes, TypeOK, Told
<1>2. block \in 0..left /\ namelen - block \in Nat
  BY <1>1 DEF Smaller
<1>3. /\ left' \in 0..Payload /\ pos' \in 0..Payload /\ pos' + left' <= Payload
      /\ busy' = busy /\ namelen' \in Nat
  BY <1>2, TakenTypes DEF SendFile
<1>4. /\ told' \in Told /\ wlen' \in Nat /\ state' \in States
      /\ size' \in 0..PathMax /\ held' \subseteq {"path", "dir", "fd"}
      /\ UNCHANGED session
  <2>1. CASE Fails
    BY <2>1, FailTypes
  <2>2. CASE /\ Becomes(IF namelen' = 0 THEN "FILE_HDR" ELSE state, held)
             /\ UNCHANGED <<size, reply>>
    BY <1>1, <2>2 DEF Becomes, reply, States, SendStates, FileTypes, TypeOK
  <2> QED BY <2>1, <2>2 DEF SendFile
<1>5. UNCHANGED <<cmd, rest, unacked, sending>>
  BY DEF SendFile, host
<1> QED BY <1>3, <1>4, <1>5, PassTypes DEF FileTypes, TypeOK

LEMMA SendSymTypes ==
  ASSUME FileTypes, UNCHANGED lockstep, busy, SendSym
  PROVE  FileTypes'
<1>1. /\ wlen \in Nat /\ held \subseteq {"path", "dir", "fd"} /\ namelen \in Nat
      /\ told \in Told /\ 0 \in 0..PathMax
  BY FileSyncAssumption DEF FileTypes, TypeOK, Told
<1>2. CASE ReadMore(namelen) /\ OnlyRead
  BY <1>1, <1>2, CollectedTypes
<1>3. ASSUME UNCHANGED frame \/ ReadAll(namelen),
             \/ Becomes("SYM_HDR", held) /\ size' = 0 /\ UNCHANGED reply
             \/ Fails,
             UNCHANGED <<cmd, namelen, rest, host>>
      PROVE  FileTypes'
  <2>1. /\ left' \in 0..Payload /\ pos' \in 0..Payload
        /\ pos' + left' <= Payload /\ busy' = busy
    BY <1>1, <1>3, ReadTypes DEF frame, FileTypes, TypeOK
  <2>2. /\ told' \in Told /\ wlen' \in Nat /\ state' \in States
        /\ size' \in 0..PathMax /\ held' \subseteq {"path", "dir", "fd"}
        /\ UNCHANGED session
    BY <1>1, <1>3, FailTypes DEF Becomes, reply, States, SendStates
  <2>3. UNCHANGED <<cmd, namelen, rest, unacked, sending>>
    BY <1>3 DEF host
  <2> QED BY <2>1, <2>2, <2>3, PassTypes DEF FileTypes, TypeOK
<1> QED BY <1>2, <1>3 DEF SendSym

LEMMA HostAcksTypes ==
  ASSUME FileTypes, UNCHANGED lockstep, HostAcks
  PROVE  FileTypes'
<1>1. /\ rest \in 0..MaxRest /\ 0 \in Nat /\ held \subseteq {"path", "dir", "fd"}
      /\ told \in Told /\ unacked \in Nat /\ MaxUnacked \in Nat
      /\ unacked <= MaxUnacked + 1 /\ 0 \in 0..PathMax
      /\ session \in {"open", "closed"}
  BY FileSyncAssumption DEF FileTypes, TypeOK, Told
<1>2. /\ UNCHANGED <<cmd, namelen, left, pos, sending>> /\ busy = FALSE
      /\ AckMeans /\ unacked > 0
      /\ unacked' = unacked - 1 + IF wlen' > 0 THEN 1 ELSE 0
  BY DEF HostAcks, FileTypes, TypeOK
<1> DEFINE Typed == /\ told' \in Told /\ rest' \in 0..MaxRest /\ wlen' \in Nat
                    /\ state' \in States /\ size' \in 0..PathMax
                    /\ session' \in {"open", "closed"}
                    /\ held' \subseteq {"path", "dir", "fd"} /\ busy' = FALSE
<1>3. ASSUME NEW res \in RecvResults(rest, 0), ReadsOn("RECV", res),
             UNCHANGED busy
      PROVE  Typed
  <2>1. res.told \in Told /\ res.rest \in 0..MaxRest /\ res.wlen \in Nat
    BY <1>1, RecvTypes DEF Told
  <2> QED BY <1>1, <1>2, <1>3, <2>1, ReadOnTypes
<1>4. ASSUME NEW res \in ListResults(rest, 0), ReadsOn("LIST", res),
             UNCHANGED busy
      PROVE  Typed
  <2>1. res.told \in Told /\ res.rest \in 0..MaxRest /\ res.wlen \in Nat
    BY <1>1, ListTypes DEF Told
  <2> QED BY <1>1, <1>2, <1>4, <2>1, ReadOnTypes
<1>5. ASSUME Resets(state, held), wlen' = 0, UNCHANGED <<rest, told, busy>>
      PROVE  Typed
  <2>1. /\ state' \in States /\ size' = 0 /\ UNCHANGED session
        /\ held' \subseteq held
    BY <1>5 DEF Resets, Becomes, States
  <2> QED BY <1>1, <1>2, <1>5, <2>1
<1>6. ASSUME Ends, wlen' = 0, UNCHANGED <<rest, told>>
      PROVE  Typed
  <2>1. /\ state' \in States /\ size' = 0 /\ session' = "closed"
        /\ held' \subseteq held /\ busy' = FALSE
    BY <1>6 DEF Ends, States
  <2> QED BY <1>1, <1>6, <2>1
<1>7. Typed
  BY <1>2, <1>3, <1>4, <1>5, <1>6 DEF AckMeans
<1> HIDE DEF Typed
<1>8. unacked' \in Nat /\ unacked' <= unacked
  BY <1>1, <1>2
<1>9. TypeOK' /\ busy' = FALSE /\ (pos + left <= Payload)'
  <2>1. unacked' \in 0..MaxUnacked + 1
    BY <1>1, <1>8
  <2>2. TypeOK'
    BY <1>2, <1>7, <2>1 DEF Typed, FileTypes, TypeOK, Told
  <2>3. (pos + left <= Payload)'
    BY <1>2 DEF FileTypes
  <2> QED BY <1>7, <2>2, <2>3 DEF Typed
<1> QED BY <1>9 DEF FileTypes

LEMMA FileTypesStep == FileTypes /\ [Next]_fsvars => FileTypes'
<1> SUFFICES ASSUME FileTypes, [Next]_fsvars, UNCHANGED lockstep
             PROVE  FileTypes'
  BY DEF Next, fsvars
<1>1. CASE Pass
  <2>1. CASE WaitCmdEnds \/ WaitCmdDataEnds \/ Unexpected
    BY <1>1, <2>1, EndTypes DEF Pass, WaitCmdEnds, WaitCmdDataEnds, Unexpected
  <2> QED
    BY <1>1, <2>1, WaitCmdTypes, WaitCmdDataTypes, SendHeaderTypes,
       SendFileTypes, SendSymTypes DEF Pass
<1>2. CASE Answer
  <2>1. /\ UNCHANGED <<session, state, cmd, namelen, size, held, rest, left,
                        pos, wlen, told, sending>>
        /\ busy' = FALSE
    BY <1>2 DEF Answer, reply
  <2>2. unacked' \in 0..MaxUnacked + 1
    BY <1>2, FileSyncAssumption DEF Answer, FileTypes, TypeOK
  <2> QED BY <2>1, <2>2 DEF FileTypes, TypeOK
<1>3. CASE HostWrites
  <2>1. /\ UNCHANGED <<session, state, cmd, namelen, size, held, rest,
                        unacked, sending>>
        /\ busy' = TRUE /\ told' = "none" /\ unacked < MaxUnacked
    BY <1>3 DEF HostWrites, host
  <2>2. left' \in 1..Payload /\ pos' = 0 /\ wlen' = 0
    BY <1>3 DEF HostWrites
  <2>3. /\ left' \in 0..Payload /\ pos' \in 0..Payload /\ wlen' \in Nat
        /\ pos' + left' <= Payload
    <3>1. Payload \in Nat
      BY FileSyncAssumption
    <3>2. left' \in Nat /\ left' <= Payload
      BY <2>2, <3>1
    <3>3. \A p \in Nat : \A l \in Nat :
            l <= p => 0 \in 0..p /\ l \in 0..p /\ 0 + l <= p
      OBVIOUS
    <3>4. 0 \in 0..Payload /\ left' \in 0..Payload /\ 0 + left' <= Payload
      BY <3>1, <3>2, <3>3
    <3> QED BY <2>2, <3>4
  <2> QED BY <2>1, <2>3 DEF FileTypes, TypeOK
<1>4. CASE HostAcks
  BY <1>4, HostAcksTypes
<1>5. CASE UNCHANGED fsvars
  BY <1>5 DEF fsvars, frame, reply, host, FileTypes, TypeOK
<1> QED BY <1>1, <1>2, <1>3, <1>4, <1>5 DEF Next

LEMMA FileTypesInit == Init => FileTypes
<1>1. /\ 0 \in Nat /\ 0 \in 0..PathMax /\ 0 \in 0..MaxRest
      /\ 0 \in 0..Payload /\ 0 + 0 <= Payload /\ 0 \in 0..MaxUnacked + 1
  BY FileSyncAssumption
<1>2. /\ "WAIT_CMD" \in States /\ FALSE \in BOOLEAN
      /\ {} \subseteq {"path", "dir", "fd"}
  BY DEF States
<1>3. Init => lockstep \in BOOLEAN
  BY FileSyncAssumption DEF Init
<1> QED BY <1>1, <1>2, <1>3 DEF Init, FileTypes, TypeOK

\* file_sync_service.c: types and bounds, whatever the host sends; of a frame
\* no more is read than it has.
THEOREM FileTypeCorrect == Spec => []TypeOK
<1>1. FileTypes => TypeOK
  BY DEF FileTypes
<1> QED BY <1>1, FileTypesInit, FileTypesStep, PTL DEF Spec

-----------------------------------------------------------------------------
(* A host that sends one request at a time *)

\* The host is sending a transfer that the service gave up.
Desync ==
  /\ sending /\ state \notin SendStates
  /\ ~(state = "WAIT_CMD_DATA" /\ cmd = "SEND")

\* Transferring: the service receives what a sending host sends.
Transferring ==
  state \in SendStates \/ (state = "WAIT_CMD_DATA" /\ cmd = "SEND")

\* Nothing of a request is there: the service waits, or it is sending itself.
Resting ==
  /\ ~sending
  /\ state \in {"RECV", "LIST"} \/ (state = "WAIT_CMD" /\ size = 0)

LockInv ==
  /\ Transferring => sending
  /\ Desync => state \in {"WAIT_CMD", "WAIT_CMD_DATA"}
  /\ Desync /\ state = "WAIT_CMD_DATA" => cmd = "other"
  /\ busy /\ state = "WAIT_CMD_DATA" /\ ~sending => left <= namelen - size
  /\ busy /\ state \in {"RECV", "LIST"} => left = 0
  /\ busy /\ wlen > 0 /\ ~Desync => left = 0 /\ Resting
  /\ unacked > 0 /\ ~Desync => ~busy /\ Resting
  /\ wlen <= Payload
  /\ told = "DONE" => rest = 0

\* While a frame of such a host is read, nothing was replied yet and nothing
\* waits to be acknowledged.
LEMMA NothingSaid ==
  ASSUME FileTypes, LockInv, busy, left > 0, ~Desync
  PROVE  wlen = 0 /\ unacked = 0 /\ state \notin {"RECV", "LIST"}
BY DEF LockInv, FileTypes, TypeOK

\* A frame that was read to its end, and answered.
LEMMA RestingLock ==
  ASSUME FileTypes, LockInv, ~sending', left' = 0, unacked' = 0 \/ ~busy',
         state' \in {"WAIT_CMD", "RECV", "LIST"}, size' = 0,
         wlen' <= Payload, told' = "DONE" => rest' = 0
  PROVE  LockInv'
BY DEF LockInv, Transferring, Desync, Resting, SendStates

\* A transfer goes on, without a reply.
LEMMA TransferLock ==
  ASSUME FileTypes, LockInv, sending', Transferring', wlen' = 0, unacked' = 0,
         told' = "DONE" => rest' = 0
  PROVE  LockInv'
<1>1. 0 <= Payload
  BY FileSyncAssumption
<1>2. ~Desync' /\ state' \notin {"RECV", "LIST"}
  BY DEF Transferring, Desync, SendStates
<1> QED BY <1>1, <1>2 DEF LockInv

\* A transfer was given up.
LEMMA DesyncLock ==
  ASSUME sending', state' = "WAIT_CMD",
         wlen' <= Payload, told' = "DONE" => rest' = 0
  PROVE  LockInv'
<1>1. Desync' /\ ~Transferring'
  BY DEF Transferring, Desync, SendStates
<1> QED BY <1>1 DEF LockInv

LEMMA EndLock ==
  ASSUME LockInv, Ends, UNCHANGED sending,
         wlen' <= Payload, UNCHANGED <<told, rest>>
  PROVE  LockInv'
<1>1. /\ state' = "WAIT_CMD" /\ size' = 0 /\ busy' = FALSE
      /\ told' = "DONE" => rest' = 0
  BY DEF Ends, LockInv
<1>2. CASE sending
  BY <1>1, <1>2, DesyncLock
<1>3. CASE ~sending
  BY <1>1, <1>3 DEF LockInv, Transferring, Desync, Resting, SendStates
<1> QED BY <1>2, <1>3

LEMMA CollectedLock ==
  ASSUME FileTypes, LockInv, busy, left > 0, NEW want \in Nat,
         ReadMore(want), OnlyRead, state = "WAIT_CMD_DATA" => want = namelen
  PROVE  LockInv'
<1>1. /\ left' = 0 /\ size' = size + left /\ size' < want /\ busy' = busy
  BY DEF ReadMore, Takes, FileTypes, TypeOK
<1>2. UNCHANGED <<state, cmd, namelen, rest, wlen, told, unacked, sending>>
  BY DEF OnlyRead, reply, host
<1>3. UNCHANGED <<Desync, Transferring>>
  BY <1>2 DEF Desync, Transferring
<1>4. state = "WAIT_CMD_DATA" => 0 <= namelen' - size'
  BY <1>1, <1>2 DEF FileTypes, TypeOK
<1>5. ~Desync => wlen = 0 /\ unacked = 0 /\ state \notin {"RECV", "LIST"}
  BY NothingSaid
<1> QED BY <1>1, <1>2, <1>3, <1>4, <1>5 DEF LockInv

LEMMA WaitCmdLock ==
  ASSUME lockstep, FileTypes, LockInv, busy, left > 0, WaitCmd
  PROVE  LockInv'
<1>1. state = "WAIT_CMD" /\ HdrLen \in Nat
  BY DEF WaitCmd, HdrLen
<1>2. CASE ReadMore(HdrLen) /\ OnlyRead
  BY <1>1, <1>2, CollectedLock
<1>3. ASSUME ReadAll(HdrLen), NEW h \in Header, h[1] # "QUIT",
             cmd' = h[1], namelen' = h[2], size' = 0,
             sending' = (sending \/ h[1] = "SEND"),
             Becomes("WAIT_CMD_DATA", held), UNCHANGED <<rest, reply, unacked>>
      PROVE  LockInv'
  <2>1. /\ state' = "WAIT_CMD_DATA" /\ wlen' = wlen /\ told' = told
        /\ rest' = rest /\ unacked' = unacked /\ busy' = busy
    BY <1>3 DEF Becomes, reply, ReadAll, Takes
  <2>2. CASE sending
    <3>1. cmd' = "other" /\ sending'
      BY <1>3, <2>2 DEF Header
    <3>2. Desync' /\ ~Transferring'
      BY <2>1, <3>1 DEF Desync, Transferring, SendStates
    <3> QED BY <2>1, <3>1, <3>2 DEF LockInv
  <2>3. CASE ~sending /\ h[1] = "SEND"
    <3>1. ~Desync
      BY <2>3 DEF Desync
    <3>2. Transferring' /\ sending'
      BY <1>3, <2>1, <2>3 DEF Transferring
    <3>3. told' = "DONE" => rest' = 0
      BY <2>1 DEF LockInv
    <3> QED BY <2>1, <3>1, <3>2, <3>3, NothingSaid, TransferLock
  <2>4. CASE ~sending /\ h[1] # "SEND"
    <3>1. ~Desync /\ ~sending'
      BY <1>3, <2>4 DEF Desync
    <3>2. namelen' \in Nat /\ namelen' >= left - (HdrLen - size)
      BY <1>3, <2>4, HeaderLength DEF Header
    <3>3. left' = left - (HdrLen - size)
      BY <1>3 DEF ReadAll, Takes
    <3>4. left' <= namelen' - size'
      BY <1>3, <3>2, <3>3 DEF FileTypes, TypeOK, HdrLen
    <3>5. ~Transferring' /\ ~Desync'
      BY <1>3, <2>1, <2>4, <3>1 DEF Transferring, Desync, SendStates
    <3>6. wlen = 0 /\ unacked = 0
      BY <3>1, NothingSaid
    <3> QED BY <2>1, <3>1, <3>4, <3>5, <3>6 DEF LockInv
  <2> QED BY <2>2, <2>3, <2>4
<1> QED BY <1>2, <1>3 DEF WaitCmd

\* Reading on starts with an empty frame.
LEMMA ReadOnLock ==
  ASSUME FileTypes, LockInv, NEW s \in {"RECV", "LIST"}, NEW res, ReadsOn(s, res),
         res.wlen <= Payload, res.told = "DONE" => res.rest = 0,
         left' = 0 \/ ~busy', ~sending', unacked' = 0 \/ ~busy'
  PROVE  LockInv'
<1>1. /\ state' \in {"WAIT_CMD", "RECV", "LIST"} /\ size' = 0
      /\ wlen' <= Payload /\ (told' = "DONE" => rest' = 0)
  BY DEF ReadsOn, Becomes, Resets
<1> QED BY <1>1 DEF LockInv, Transferring, Desync, Resting, SendStates

LEMMA WaitCmdDataLock ==
  ASSUME lockstep, FileTypes, LockInv, busy, left > 0, WaitCmdData
  PROVE  LockInv'
<1>1. state = "WAIT_CMD_DATA" /\ namelen \in Nat
  BY DEF WaitCmdData, FileTypes, TypeOK
<1>2. CASE ReadMore(namelen) /\ OnlyRead
  BY <1>1, <1>2, CollectedLock
<1>3. ASSUME ReadAll(namelen), InitStat \/ InitList \/ InitSend \/ InitRecv,
             UNCHANGED <<cmd, namelen, host>>
      PROVE  LockInv'
  <2>1. /\ ~Desync /\ wlen = 0 /\ unacked' = 0 /\ wlen \in Nat
        /\ (told = "DONE" => rest = 0)
    <3>1. cmd # "other"
      BY <1>3 DEF InitStat, InitList, InitSend, InitRecv
    <3>2. ~Desync
      BY <1>1, <3>1 DEF LockInv
    <3> QED BY <1>3, <3>2, NothingSaid DEF host, LockInv
  <2>2. ASSUME cmd # "SEND"
        PROVE  left' = 0 /\ ~sending'
    <3>1. ~sending
      BY <1>1, <2>1, <2>2 DEF Desync, SendStates
    <3>2. left <= namelen - size
      BY <1>1, <3>1 DEF LockInv
    <3>3. left' = left - (namelen - size) /\ size + left >= namelen
      BY <1>3 DEF ReadAll, Takes
    <3> QED BY <1>1, <1>3, <3>1, <3>2, <3>3 DEF host, FileTypes, TypeOK
  <2>3. CASE InitStat
    <3>1. /\ state' = "WAIT_CMD" /\ size' = 0 /\ wlen' = 4 /\ told' = "STAT"
          /\ cmd = "STAT"
      BY <2>1, <2>3 DEF InitStat, Becomes, Tells, StatLen
    <3>2. 4 <= Payload
      BY FileSyncAssumption DEF DentLen, NameLen
    <3> QED BY <2>1, <2>2, <3>1, <3>2, RestingLock
  <2>4. CASE InitList
    <3>1. cmd = "LIST"
      BY <2>4 DEF InitList
    <3>2. CASE Tells("LISTED", DentLen) /\ Resets(state, held)
      <4>1. /\ state' = "WAIT_CMD" /\ size' = 0 /\ wlen' = 5 /\ told' = "LISTED"
        BY <2>1, <3>2 DEF Resets, Becomes, Tells, DentLen
      <4>2. 5 <= Payload
        BY FileSyncAssumption DEF DentLen, NameLen
      <4> QED BY <2>1, <2>2, <3>1, <3>2, <4>1, <4>2, RestingLock
    <3>3. ASSUME NEW r \in 0..MaxRest, NEW res \in ListResults(r, wlen),
                 ReadsOn("LIST", res)
          PROVE  LockInv'
      <4>1. res.wlen <= Payload /\ (res.told = "DONE" => res.rest = 0)
        BY <2>1, ListTypes
      <4> QED BY <2>1, <2>2, <3>1, <3>3, <4>1, ReadOnLock
    <3> QED BY <2>4, <3>2, <3>3 DEF InitList
  <2>5. CASE InitSend
    <3>1. cmd = "SEND" /\ sending'
      BY <1>1, <1>3, <2>5 DEF InitSend, LockInv, Transferring, host
    <3>2. CASE Fails
      <4>1. /\ state' = "WAIT_CMD" /\ told' = "FAIL" /\ wlen' = 0 + FailLen(0)
        BY <2>1, <3>2 DEF Fails, Resets, Becomes, Tells
      <4>2. wlen' <= Payload
        BY <4>1, FailLength
      <4> QED BY <3>1, <4>1, <4>2, DesyncLock
    <3>3. ASSUME NEW s \in {"FILE_HDR", "SYM_HDR"},
                 Becomes(s, held \cup Owned(s)), UNCHANGED <<reply, rest>>
          PROVE  LockInv'
      <4>1. Transferring' /\ wlen' = 0 /\ (told' = "DONE" => rest' = 0)
        BY <2>1, <3>3 DEF Transferring, Becomes, SendStates, reply
      <4> QED BY <2>1, <3>1, <4>1, TransferLock
    <3> QED BY <2>5, <3>2, <3>3 DEF InitSend
  <2>6. CASE InitRecv
    <3>1. cmd = "RECV"
      BY <2>6 DEF InitRecv
    <3>2. CASE Fails
      <4>1. /\ state' = "WAIT_CMD" /\ size' = 0 /\ told' = "FAIL"
            /\ wlen' = 0 + FailLen(0)
        BY <2>1, <3>2 DEF Fails, Resets, Becomes, Tells
      <4>2. wlen' <= Payload
        BY <4>1, FailLength
      <4> QED BY <2>1, <2>2, <3>1, <4>1, <4>2, RestingLock
    <3>3. ASSUME NEW r \in 0..MaxRest, NEW res \in RecvResults(r, wlen),
                 ReadsOn("RECV", res)
          PROVE  LockInv'
      <4>1. res.wlen <= Payload /\ (res.told = "DONE" => res.rest = 0)
        BY <2>1, RecvTypes
      <4> QED BY <2>1, <2>2, <3>1, <3>3, <4>1, ReadOnLock
    <3> QED BY <2>6, <3>2, <3>3 DEF InitRecv
  <2> QED BY <1>3, <2>3, <2>4, <2>5, <2>6
<1> QED BY <1>2, <1>3 DEF WaitCmdData

\* What a step of a transfer starts from.
LEMMA TransferStart ==
  ASSUME FileTypes, LockInv, busy, left > 0, state \in SendStates
  PROVE  /\ sending /\ wlen = 0 /\ unacked = 0
         /\ (told = "DONE" => rest = 0)
         /\ state \notin {"WAIT_CMD", "WAIT_CMD_DATA", "RECV", "LIST"}
<1>1. sending /\ ~Desync
  BY DEF LockInv, Transferring, Desync
<1> QED BY <1>1, NothingSaid DEF LockInv, SendStates

\* A transfer that fails is reported; the host goes on sending it.
LEMMA TransferFails ==
  ASSUME FileTypes, LockInv, Fails, sending', wlen = 0
  PROVE  LockInv'
<1>1. /\ state' = "WAIT_CMD" /\ told' = "FAIL" /\ wlen' = 0 + FailLen(0)
  BY DEF Fails, Resets, Becomes, Tells
<1>2. wlen' <= Payload
  BY <1>1, FailLength
<1> QED BY <1>1, <1>2, DesyncLock

LEMMA SendHeaderLock ==
  ASSUME lockstep, FileTypes, LockInv, busy, left > 0, SendHeader
  PROVE  LockInv'
<1>1. /\ state \in SendStates /\ HdrLen \in Nat
      /\ state \in {"FILE_HDR", "SYM_HDR"}
  BY DEF SendHeader, SendStates, HdrLen
<1>2. /\ sending /\ wlen = 0 /\ unacked = 0 /\ (told = "DONE" => rest = 0)
      /\ state # "WAIT_CMD_DATA"
  BY <1>1, TransferStart
<1>3. CASE ReadMore(HdrLen) /\ OnlyRead
  BY <1>1, <1>2, <1>3, CollectedLock
<1>4. CASE /\ Becomes(DataState[state], held)
           /\ UNCHANGED <<reply, sending, rest, unacked>>
  <2>1. Transferring'
    BY <1>1, <1>4 DEF Becomes, DataState, SendStates, Transferring
  <2>2. sending' /\ wlen' = 0 /\ unacked' = 0 /\ (told' = "DONE" => rest' = 0)
    BY <1>2, <1>4 DEF reply
  <2> QED BY <2>1, <2>2, TransferLock
<1>5. CASE /\ left' = 0
           /\ Resets(state, held) /\ Tells("OKAY", HdrLen)
           /\ sending' = FALSE /\ UNCHANGED unacked
  <2>1. /\ state' = "WAIT_CMD" /\ size' = 0 /\ told' = "OKAY" /\ wlen' = 2
    BY <1>2, <1>5 DEF Resets, Becomes, Tells, HdrLen
  <2>2. 2 <= Payload
    BY FileSyncAssumption DEF DentLen, NameLen
  <2> QED BY <1>2, <1>5, <2>1, <2>2, RestingLock
<1> QED BY <1>3, <1>4, <1>5 DEF SendHeader

LEMMA SendFileLock ==
  ASSUME FileTypes, LockInv, busy, left > 0, SendFile
  PROVE  LockInv'
<1>1. state = "FILE_DATA" /\ state \in SendStates
  BY DEF SendFile, SendStates
<1>2. /\ sending' /\ wlen = 0 /\ unacked' = 0 /\ rest' = rest
      /\ (told = "DONE" => rest = 0)
  BY <1>1, TransferStart DEF SendFile, host
<1>3. CASE Fails
  BY <1>2, <1>3, TransferFails
<1>4. CASE /\ Becomes(IF namelen' = 0 THEN "FILE_HDR" ELSE state, held)
           /\ UNCHANGED <<size, reply>>
  <2>1. Transferring' /\ wlen' = 0 /\ told' = told
    BY <1>1, <1>2, <1>4 DEF Becomes, SendStates, Transferring, reply
  <2> QED BY <1>2, <2>1, TransferLock
<1> QED BY <1>3, <1>4 DEF SendFile

LEMMA SendSymLock ==
  ASSUME FileTypes, LockInv, busy, left > 0, SendSym
  PROVE  LockInv'
<1>1. /\ state = "SYM_DATA" /\ state \in SendStates /\ namelen \in Nat
  BY DEF SendSym, SendStates, FileTypes, TypeOK
<1>2. CASE ReadMore(namelen) /\ OnlyRead
  BY <1>1, <1>2, CollectedLock
<1>3. ASSUME \/ Becomes("SYM_HDR", held) /\ UNCHANGED reply
             \/ Fails,
             UNCHANGED <<rest, host>>
      PROVE  LockInv'
  <2>1. /\ sending' /\ wlen = 0 /\ unacked' = 0 /\ rest' = rest
        /\ (told = "DONE" => rest = 0)
    BY <1>1, <1>3, TransferStart DEF host
  <2>2. CASE Fails
    BY <2>1, <2>2, TransferFails
  <2>3. CASE Becomes("SYM_HDR", held) /\ UNCHANGED reply
    <3>1. Transferring' /\ wlen' = 0 /\ told' = told
      BY <2>1, <2>3 DEF Becomes, SendStates, Transferring, reply
    <3> QED BY <2>1, <3>1, TransferLock
  <2> QED BY <1>3, <2>2, <2>3
<1> QED BY <1>2, <1>3 DEF SendSym

LEMMA AnswerLock ==
  ASSUME FileTypes, LockInv, Answer
  PROVE  LockInv'
<1>1. /\ UNCHANGED <<state, cmd, namelen, size, rest, left, wlen, told, sending>>
      /\ busy /\ busy' = FALSE /\ wlen \in Nat
      /\ unacked' = unacked + IF wlen > 0 THEN 1 ELSE 0
  BY DEF Answer, reply, FileTypes, TypeOK
<1>2. UNCHANGED <<Desync, Transferring, Resting>>
  BY <1>1 DEF Desync, Transferring, Resting
<1>3. unacked' > 0 /\ ~Desync => Resting
  BY <1>1 DEF LockInv, FileTypes, TypeOK
<1> QED BY <1>1, <1>2, <1>3 DEF LockInv

LEMMA HostWritesLock ==
  ASSUME lockstep, FileTypes, LockInv, HostWrites
  PROVE  LockInv'
<1>1. /\ UNCHANGED <<state, cmd, namelen, size, rest, unacked, sending>>
      /\ busy' /\ wlen' = 0 /\ told' = "none" /\ unacked \in Nat
  BY DEF HostWrites, host, FileTypes, TypeOK
<1>2. UNCHANGED <<Desync, Transferring, Resting>>
  BY <1>1 DEF Desync, Transferring, Resting
<1>3. /\ state \notin {"RECV", "LIST"}
      /\ state = "WAIT_CMD" /\ size = 0 /\ ~sending => unacked = 0
      /\ state = "WAIT_CMD_DATA" /\ ~sending => left' <= namelen - size
  BY DEF HostWrites, OneAtATime
<1>4. ~Desync => unacked = 0
  BY <1>1, <1>3 DEF LockInv, Resting
<1>5. 0 <= Payload
  BY FileSyncAssumption
<1> QED BY <1>1, <1>2, <1>3, <1>4, <1>5 DEF LockInv

LEMMA HostAcksLock ==
  ASSUME FileTypes, LockInv, HostAcks
  PROVE  LockInv'
<1>1. /\ ~busy /\ unacked > 0 /\ UNCHANGED <<cmd, namelen, left, pos, sending>>
      /\ rest \in 0..MaxRest /\ 0 <= Payload /\ AckMeans
      /\ (told = "DONE" => rest = 0)
  BY FileSyncAssumption DEF HostAcks, LockInv, FileTypes, TypeOK
<1>2. ASSUME state \in {"RECV", "LIST"}
      PROVE  ~sending'
  BY <1>1, <1>2 DEF LockInv, Desync, SendStates
<1>3. ASSUME state = "RECV", NEW res \in RecvResults(rest, 0),
             ReadsOn("RECV", res), UNCHANGED busy
      PROVE  LockInv'
  <2>1. res.wlen <= Payload /\ (res.told = "DONE" => res.rest = 0)
    BY <1>1, RecvTypes
  <2> QED BY <1>1, <1>2, <1>3, <2>1, ReadOnLock
<1>4. ASSUME state = "LIST", NEW res \in ListResults(rest, 0),
             ReadsOn("LIST", res), UNCHANGED busy
      PROVE  LockInv'
  <2>1. res.wlen <= Payload /\ (res.told = "DONE" => res.rest = 0)
    BY <1>1, ListTypes
  <2> QED BY <1>1, <1>2, <1>4, <2>1, ReadOnLock
<1>5. CASE Resets(state, held) /\ wlen' = 0 /\ UNCHANGED <<rest, told, busy>>
  <2>1. state' = "WAIT_CMD" /\ size' = 0 /\ ~busy'
    BY <1>1, <1>5 DEF Resets, Becomes
  <2> QED
    BY <1>1, <1>5, <2>1 DEF LockInv, Transferring, Desync, Resting, SendStates
<1>6. CASE Ends /\ wlen' = 0 /\ UNCHANGED <<rest, told>>
  BY <1>1, <1>6, EndLock
<1> QED BY <1>1, <1>3, <1>4, <1>5, <1>6 DEF AckMeans

LEMMA LockInvStep ==
  ASSUME lockstep, FileTypes, LockInv, [Next]_fsvars
  PROVE  LockInv'
<1>1. CASE Pass
  <2>1. CASE WaitCmdEnds \/ WaitCmdDataEnds \/ Unexpected
    <3>1. /\ Ends /\ UNCHANGED <<rest, wlen, told, unacked, sending>>
          /\ wlen <= Payload
      BY <2>1 DEF WaitCmdEnds, WaitCmdDataEnds, Unexpected, reply, host, LockInv
    <3> QED BY <3>1, EndLock
  <2> QED
    BY <1>1, <2>1, WaitCmdLock, WaitCmdDataLock, SendHeaderLock, SendFileLock,
       SendSymLock DEF Pass
<1>2. CASE UNCHANGED fsvars
  <2>1. /\ UNCHANGED <<state, cmd, namelen, size, rest, busy, left, wlen, told,
                       unacked, sending>>
        /\ UNCHANGED <<Desync, Transferring, Resting>>
    BY <1>2 DEF fsvars, frame, reply, host, Desync, Transferring, Resting
  <2> QED BY <2>1 DEF LockInv
<1> QED
  BY <1>1, <1>2, AnswerLock, HostWritesLock, HostAcksLock DEF Next

LEMMA LockInvariance == Spec => [](lockstep => LockInv)
<1>1. Init => FileTypes /\ (lockstep => LockInv)
  BY FileTypesInit, FileSyncAssumption
  DEF Init, LockInv, Transferring, Desync, Resting, SendStates
<1>2. FileTypes /\ (lockstep => LockInv) /\ [Next]_fsvars
        => (FileTypes /\ (lockstep => LockInv))'
  <2>1. [Next]_fsvars => UNCHANGED lockstep
    BY DEF Next, fsvars
  <2> QED BY <2>1, FileTypesStep, LockInvStep
<1> QED BY <1>1, <1>2, PTL DEF Spec

\* prepare_fail_message(), state_process_recv() and state_process_list(): the
\* replies to a host that sends one request at a time fit the frame.
THEOREM RepliesFit == Spec => []ReplyFits
<1>1. (lockstep => LockInv) => ReplyFits
  BY DEF LockInv, ReplyFits
<1> QED BY <1>1, LockInvariance, PTL

\* state_process_recv(): such a host is told DONE at the end of a file, never
\* behind a frame that happened to be full.
THEOREM DoneComplete == Spec => []DoneMeansComplete
<1>1. (lockstep => LockInv) => DoneMeansComplete
  BY DEF LockInv, DoneMeansComplete
<1> QED BY <1>1, LockInvariance, PTL
=============================================================================
