---------------------------- MODULE HostSession -----------------------------
(***************************************************************************)
(* AdbClient with a conforming host at the other end of the socket: what   *)
(* the two ends of a stream know about each other, frames being under way  *)
(* in both directions at any time.                                         *)
(*                                                                         *)
(* The host (external) is the one the protocol asks for: it connects       *)
(* first, uses an id for one stream only, has one WRTE of a stream         *)
(* unanswered at a time, acknowledges every WRTE of a stream it has open,  *)
(* and closes a stream it gave up before it was opened when the OKAY comes.*)
(***************************************************************************)
EXTENDS AdbClient

CONSTANT MaxWrites   \* BOUND: WRTE frames of the host per stream

ASSUME HostAssumption == MaxWrites \in Nat /\ ~Authentication

VARIABLES
  toDev,    \* frames the host sent and the device has not processed
  toHost,   \* frames the device wrote and the host has not seen
  online,   \* the host has seen the banner
  hs        \* the host's end of each stream

hostVars == <<toDev, toHost, online, hs>>

\* id: the device's id of the stream; unacked: the last WRTE has no answer.
HostStream ==
  [st : {"idle", "opening", "abandoned", "open", "closed"},
   id : Ids \cup {0}, unacked : BOOLEAN, writes : 0..MaxWrites]

Say(cmd, p, id) == [cmd |-> cmd, peer |-> p, id |-> id, kind |-> "none"]

SessionInit ==
  /\ Init
  /\ toDev = <<Say("CNXN", 0, 0)>>
  /\ toHost = <<>>
  /\ online = FALSE
  /\ hs = [p \in Peers |-> [st |-> "idle", id |-> 0, unacked |-> FALSE,
                            writes |-> 0]]

-----------------------------------------------------------------------------
(* The host on its own account *)

Tell(m) == toDev' = Append(toDev, m)

HostOpen(p, kind) ==
  /\ online /\ hs[p].st = "idle"
  /\ hs' = [hs EXCEPT ![p].st = "opening"]
  /\ Tell([Say("OPEN", p, 0) EXCEPT !.kind = kind])
  /\ UNCHANGED <<toHost, online, vars>>

HostWrite(p) ==
  /\ hs[p].st = "open" /\ ~hs[p].unacked /\ hs[p].writes < MaxWrites
  /\ hs' = [hs EXCEPT ![p].unacked = TRUE, ![p].writes = @ + 1]
  /\ Tell(Say("WRTE", p, hs[p].id))
  /\ UNCHANGED <<toHost, online, vars>>

HostClose(p) ==
  /\ hs[p].st = "open"
  /\ hs' = [hs EXCEPT ![p].st = "closed"]
  /\ Tell(Say("CLSE", p, hs[p].id))
  /\ UNCHANGED <<toHost, online, vars>>

\* The device's id is not known yet: nothing can be sent.
HostAbandon(p) ==
  /\ hs[p].st = "opening"
  /\ hs' = [hs EXCEPT ![p].st = "abandoned"]
  /\ UNCHANGED <<toDev, toHost, online, vars>>

-----------------------------------------------------------------------------
(* The host receives a frame *)

Heard == toHost' = Tail(toHost) /\ UNCHANGED vars

HearCnxn(m) ==
  /\ m.cmd = "CNXN"
  /\ online' = TRUE
  /\ UNCHANGED <<toDev, hs>>

HearOkay(m, p) ==
  /\ m.cmd = "OKAY"
  /\ \/ /\ hs[p].st = "opening"
        /\ hs' = [hs EXCEPT ![p].st = "open", ![p].id = m.local]
        /\ UNCHANGED toDev
     \/ /\ hs[p].st = "abandoned"
        /\ hs' = [hs EXCEPT ![p].st = "closed", ![p].id = m.local]
        /\ Tell(Say("CLSE", p, m.local))
     \/ /\ hs[p].st = "open"
        /\ hs' = [hs EXCEPT ![p].unacked = FALSE]
        /\ UNCHANGED toDev
     \/ /\ hs[p].st = "closed"
        /\ UNCHANGED <<hs, toDev>>
  /\ UNCHANGED online

HearWrte(m, p) ==
  /\ m.cmd = "WRTE"
  /\ \/ hs[p].st = "open" /\ Tell(Say("OKAY", p, m.local))
     \/ hs[p].st # "open" /\ UNCHANGED toDev
  /\ UNCHANGED <<hs, online>>

HearClse(m, p) ==
  /\ m.cmd = "CLSE"
  /\ hs' = [hs EXCEPT ![p].st = "closed"]
  /\ UNCHANGED <<toDev, online>>

HostHears ==
  /\ toHost # <<>> /\ Heard
  /\ LET m == Head(toHost) IN
     \/ HearCnxn(m)
     \/ \E p \in Peers \cap {m.remote} :
          HearOkay(m, p) \/ HearWrte(m, p) \/ HearClse(m, p)

Host ==
  \/ \E p \in Peers :
       \/ \E kind \in Kinds : HostOpen(p, kind)
       \/ HostWrite(p) \/ HostClose(p) \/ HostAbandon(p)
  \/ HostHears

-----------------------------------------------------------------------------
(* The device *)

DeviceReads ==
  /\ toDev # <<>>
  /\ HostReadBegin
  /\ UNCHANGED hostVars

\* adb_process_packet() with the oldest frame of the host
DeviceProcesses ==
  /\ toDev # <<>> /\ toDev' = Tail(toDev)
  /\ LET m == Head(toDev) IN
     \/ m.cmd = "CNXN" /\ RecvCnxn
     \/ m.cmd = "OPEN" /\ (RecvOpen(m.peer, m.kind) \/ RecvOpenRefused(m.peer))
     \/ m.cmd = "CLSE" /\ RecvClse(m.peer, m.id)
     \/ m.cmd = "WRTE" /\ RecvWrte(m.peer, m.id)
     \/ m.cmd = "OKAY" /\ RecvOkay(m.peer, m.id)
  /\ UNCHANGED <<toHost, online, hs>>

DeviceWrote ==
  /\ HostWriteDone
  /\ LET h == Head(wq) IN
     toHost' = Append(toHost,
                      [cmd |-> h.cmd, local |-> h.local, remote |-> h.remote])
  /\ UNCHANGED <<toDev, online, hs>>

Device ==
  \/ DeviceReads \/ DeviceProcesses \/ DeviceWrote
  \/ (HostReadPark \/ Streams) /\ UNCHANGED hostVars

SessionNext == Host \/ Device

allVars == <<vars, hostVars>>

SessionSpec == SessionInit /\ [][SessionNext]_allVars

\* What libuv reports of the streams it was asked to write, connect or close.
Reports ==
  \E i \in Ids :
    \/ ConnectDone(i) \/ SvcClosed(i)
    \/ \E f \in Frames : SvcWriteDone(i, f) \/ SvcWriteFailed(i, f)

\* What was sent arrives, what was read is processed; nobody has to send.
FairSessionSpec ==
  /\ SessionSpec
  /\ WF_allVars(HostHears)
  /\ WF_allVars(DeviceReads \/ DeviceProcesses)
  /\ WF_allVars(DeviceWrote)
  /\ WF_allVars(Reports /\ UNCHANGED hostVars)

-----------------------------------------------------------------------------
(* Properties *)

\* Frames of a stream under way to the host, and to the device.
ToHost(p, cmd) ==
  Cardinality({k \in DOMAIN wq : wq[k].cmd = cmd /\ wq[k].remote = p}) +
  Cardinality({k \in DOMAIN toHost : toHost[k].cmd = cmd /\
                                     toHost[k].remote = p})
ToDevice(p, cmd) ==
  Cardinality({k \in DOMAIN toDev : toDev[k].cmd = cmd /\ toDev[k].peer = p})

\* Every WRTE of the host is answered once: while the stream is open there is
\* exactly one thing that will become its answer, the frame on its way, the
\* write to the service, or the OKAY; or the stream is being closed.  And no
\* OKAY comes that the host does not wait for.
WritesAnsweredOnce ==
  \A p \in Peers : hs[p].st = "open" =>
    LET answers == ToDevice(p, "WRTE") + Cardinality(svc[hs[p].id].q)
                   + ToHost(p, "OKAY")
    IN /\ answers <= (IF hs[p].unacked THEN 1 ELSE 0)
       /\ hs[p].unacked => answers = 1 \/ ToHost(p, "CLSE") > 0

\* A stream has at most one WRTE that the host has not acknowledged, and it
\* remembers whether it has: data is neither sent ahead of the host, nor is an
\* acknowledgement missed, which would stop the stream for good.
DataAckedOnce ==
  \A i \in Ids : svc[i].st = "open" /\ svc[i].kind # "sync" =>
    LET p == svc[i].peer IN
    hs[p].st \in {"opening", "open"} =>
      ToHost(p, "WRTE") + ToDevice(p, "OKAY") = IF svc[i].ack THEN 1 ELSE 0

NothingUnderWay == toDev = <<>> /\ toHost = <<>> /\ wq = <<>> /\ cur = {}

\* When nothing is under way the ends agree: each stream the host has open is
\* a service of the device and the other way round, and who waits for an OPEN
\* waits for a connection that is being established.
EndsAgree ==
  NothingUnderWay =>
    /\ \A p \in Peers :
         /\ hs[p].st = "open" =>
              svc[hs[p].id].st = "open" /\ svc[hs[p].id].peer = p
         /\ hs[p].st \in {"opening", "abandoned"} =>
              \E i \in Registered(svc) : svc[i].peer = p /\ svc[i].st # "open"
    /\ \A i \in Registered(svc) :
         LET p == svc[i].peer IN
         IF svc[i].st = "open" THEN hs[p].st = "open" /\ hs[p].id = i
                               ELSE hs[p].st \in {"opening", "abandoned"}

\* Every WRTE of the host is answered, or its stream is closed, as long as no
\* frame is lost.
WritesAnswered ==
  \A p \in Peers :
    hs[p].unacked ~> ~hs[p].unacked \/ hs[p].st = "closed" \/ Broken

\* What the host closes is closed on the device, whatever it was told before.
ClosesArrive ==
  \A p \in Peers : hs[p].st \in {"closed", "abandoned"} ~>
    (\A i \in Registered(svc) : svc[i].peer # p) \/ Broken
=============================================================================
