---------------------------- MODULE ServersProofs ----------------------------
(***************************************************************************)
(* Proofs about what the daemon owns outside its connections: the memory,   *)
(* descriptors and handles of what is being set up or taken down (Setup),   *)
(* and the descriptors of the emulator's pipe (QemuServer).                 *)
(*                                                                          *)
(* For Setup the argument has two parts.  The first is about the code's     *)
(* tables: at every call, what the error path undoes is exactly what the    *)
(* calls before it got.  The second carries that along the steps, with any  *)
(* number of objects.                                                       *)
(***************************************************************************)
EXTENDS Setup, QemuServer, SequenceTheorems, TLAPS

-----------------------------------------------------------------------------
(* The tables *)

\* What the first n calls got.
Got(kind, n) == UNION {Calls(kind)[k].gets : k \in 1..n}

\* What is still held when n handles have been closed.
Left(kind, n) ==
  {Memory(kind)} \cup
  UNION {Descriptor(Handles(kind)[k]) : k \in (n + 1)..Len(Handles(kind))}

Names == {"client", "service", "argv", "fd0", "fd1", "conn"}

\* Call n of a kind is made after the others, undoes what they got, and
\* registers only handles that are closed later.
CallOK(kind, n) ==
  LET c == Calls(kind)[n] IN
  /\ c.gets \subseteq Names
  /\ Got(kind, n) = Got(kind, n - 1) \cup c.gets
  /\ c.undo \subseteq Got(kind, n - 1)
  /\ c.name # "uv_read_start" => Got(kind, n - 1) \ c.undo = {}
  /\ c.name = "uv_read_start" => c.undo = {} /\ Got(kind, n - 1) = Left(kind, 0)
  /\ c.name = "uv_tcp_connect" =>
       kind = "forward" /\ c.gets = {"conn"} /\ "conn" \notin c.undo
  /\ \A h \in c.registers :
       /\ Memory(kind) \in Got(kind, n - 1)
       /\ \E k \in 1..Len(Handles(kind)) : h = Handles(kind)[k]

SpareOK(kind) ==
  LET all == Got(kind, Len(Calls(kind)))
  IN  /\ Spare(kind) \subseteq all
      /\ all \ Spare(kind) = Left(kind, 0)

TableOK(kind) ==
  /\ Len(Calls(kind)) \in Nat \ {0}
  /\ \A n \in 1..Len(Calls(kind)) : CallOK(kind, n)
  /\ SpareOK(kind)

LEMMA GotNext ==
  ASSUME NEW kind, NEW n \in Nat
  PROVE  Got(kind, n + 1) = Got(kind, n) \cup Calls(kind)[n + 1].gets
<1>1. 1..(n + 1) = (1..n) \cup {n + 1}
  OBVIOUS
<1> QED BY <1>1 DEF Got

LEMMA GotNothing ==
  ASSUME NEW kind
  PROVE  Got(kind, 0) = {}
<1>1. 1..0 = {}
  OBVIOUS
<1> QED BY <1>1 DEF Got

LEMMA AcceptTable == TableOK("accept")
<1> DEFINE C == Calls("accept")
<1>1. /\ Len(C) = 4
      /\ C[1] = Call("malloc",         {"client"},  {},         {})
      /\ C[2] = Call("uv_tcp_init",    {},          {"socket"}, {"client"})
      /\ C[3] = Call("uv_accept",      {"conn"},    {},         {"client"})
      /\ C[4] = Call("uv_read_start",  {},          {},         {})
  BY DEF Calls, AcceptCalls
<1> HIDE DEF C
<1>2. /\ Got("accept", 0) = {} /\ Got("accept", 1) = {"client"}
      /\ Got("accept", 2) = {"client"}
      /\ Got("accept", 3) = {"client", "conn"}
      /\ Got("accept", 4) = {"client", "conn"}
  <2>1. \A n \in Nat : Got("accept", n + 1) = Got("accept", n) \cup C[n + 1].gets
    BY GotNext DEF C
  <2>2. Got("accept", 1) = {"client"}
    BY <1>1, <2>1, GotNothing DEF Call
  <2>3. Got("accept", 2) = {"client"}
    BY <1>1, <2>1, <2>2 DEF Call
  <2>4. Got("accept", 3) = {"client", "conn"}
    BY <1>1, <2>1, <2>3 DEF Call
  <2>5. Got("accept", 4) = {"client", "conn"}
    BY <1>1, <2>1, <2>4 DEF Call
  <2> QED BY <2>2, <2>3, <2>4, <2>5, GotNothing
<1>3. /\ Len(Handles("accept")) = 1 /\ Handles("accept")[1] = "socket"
      /\ Memory("accept") = "client" /\ Spare("accept") = {}
  BY DEF Handles, Memory, Spare
<1>4. Left("accept", 0) = {"client", "conn"}
  BY <1>3 DEF Left, Descriptor
<1>5. CallOK("accept", 1)
  BY <1>1, <1>2 DEF CallOK, Call, Names, C
<1>6. CallOK("accept", 2)
  BY <1>1, <1>2, <1>3 DEF CallOK, Call, Names, C
<1>7. CallOK("accept", 3)
  BY <1>1, <1>2 DEF CallOK, Call, Names, C
<1>8. CallOK("accept", 4)
  <2>1. /\ Calls("accept")[4].name = "uv_read_start"
        /\ Calls("accept")[4].gets = {} /\ Calls("accept")[4].undo = {}
        /\ Calls("accept")[4].registers = {}
    BY <1>1 DEF Call, C
  <2>2. Got("accept", 4 - 1) = {"client", "conn"}
    BY <1>2
  <2> QED BY <1>2, <1>4, <2>1, <2>2 DEF CallOK
<1>9. \A n \in 1..Len(Calls("accept")) : CallOK("accept", n)
  <2> \A n \in 1..4 : n = 1 \/ n = 2 \/ n = 3 \/ n = 4
    OBVIOUS
  <2> QED BY <1>1, <1>5, <1>6, <1>7, <1>8 DEF C
<1>10. Len(Calls("accept")) = 4
  BY <1>1 DEF C
<1>11. SpareOK("accept")
  BY <1>2, <1>3, <1>4, <1>10 DEF SpareOK
<1> QED BY <1>9, <1>10, <1>11 DEF TableOK

LEMMA ForwardTable == TableOK("forward")
<1> DEFINE C == Calls("forward")
<1>1. /\ Len(C) = 4
      /\ C[1] = Call("atoi",           {},          {},         {})
      /\ C[2] = Call("malloc",         {"service"}, {},         {})
      /\ C[3] = Call("uv_tcp_init",    {},          {"socket"}, {"service"})
      /\ C[4] = Call("uv_tcp_connect", {"conn"},    {},         {"service"})
  BY DEF Calls, ForwardCalls, ConnectCalls
<1> HIDE DEF C
<1>2. /\ Got("forward", 0) = {} /\ Got("forward", 1) = {}
      /\ Got("forward", 2) = {"service"} /\ Got("forward", 3) = {"service"}
      /\ Got("forward", 4) = {"service", "conn"}
  <2>1. \A n \in Nat :
          Got("forward", n + 1) = Got("forward", n) \cup C[n + 1].gets
    BY GotNext DEF C
  <2>2. Got("forward", 1) = {}
    BY <1>1, <2>1, GotNothing DEF Call
  <2>3. Got("forward", 2) = {"service"}
    BY <1>1, <2>1, <2>2 DEF Call
  <2>4. Got("forward", 3) = {"service"}
    BY <1>1, <2>1, <2>3 DEF Call
  <2>5. Got("forward", 4) = {"service", "conn"}
    BY <1>1, <2>1, <2>4 DEF Call
  <2> QED BY <2>2, <2>3, <2>4, <2>5, GotNothing
<1>3. /\ Len(Handles("forward")) = 1 /\ Handles("forward")[1] = "socket"
      /\ Memory("forward") = "service" /\ Spare("forward") = {}
  BY DEF Handles, Memory, Spare
<1>4. Left("forward", 0) = {"service", "conn"}
  BY <1>3 DEF Left, Descriptor
<1>5. CallOK("forward", 1)
  BY <1>1, <1>2 DEF CallOK, Call, Names, C
<1>6. CallOK("forward", 2)
  BY <1>1, <1>2 DEF CallOK, Call, Names, C
<1>7. CallOK("forward", 3)
  BY <1>1, <1>2, <1>3 DEF CallOK, Call, Names, C
<1>8. CallOK("forward", 4)
  BY <1>1, <1>2 DEF CallOK, Call, Names, C
<1>9. \A n \in 1..Len(Calls("forward")) : CallOK("forward", n)
  <2> \A n \in 1..4 : n = 1 \/ n = 2 \/ n = 3 \/ n = 4
    OBVIOUS
  <2> QED BY <1>1, <1>5, <1>6, <1>7, <1>8 DEF C
<1>10. Len(Calls("forward")) = 4
  BY <1>1 DEF C
<1>11. SpareOK("forward")
  BY <1>2, <1>3, <1>4, <1>10 DEF SpareOK
<1> QED BY <1>9, <1>10, <1>11 DEF TableOK

LEMMA ShellTable == TableOK("shell")
<1> DEFINE C == Calls("shell")
           all == {"service", "argv", "fd0", "fd1"}
<1>1. /\ Len(C) = 8
      /\ C[1] = Call("malloc",       {"service"}, {},             {})
      /\ C[2] = Call("malloc",       {"argv"},    {},             {"service"})
      /\ C[3] = Call("posix_openpt", {"fd0"},     {},
                     {"service", "argv"})
      /\ C[4] = Call("grantpt",      {},          {},
                     {"service", "argv", "fd0"})
      /\ C[5] = Call("open",         {"fd1"},     {},
                     {"service", "argv", "fd0"})
      /\ C[6] = Call("uv_pipe_init", {},          {"shell_pipe"}, all)
      /\ C[7] = Call("uv_pipe_open", {},          {},             all)
      /\ C[8] = Call("uv_spawn",     {},          {"process"},    all)
  <2>1. /\ ExitFreeService = {"service"}
        /\ ExitFreeArgv = {"service", "argv"}
        /\ ExitCloseFd0 = {"service", "argv", "fd0"}
        /\ ExitCloseFd1 = all
    BY DEF ExitFreeService, ExitFreeArgv, ExitCloseFd0, ExitCloseFd1
  <2> QED BY <2>1 DEF Calls, ShellCalls
<1> HIDE DEF C
<1>2. /\ Got("shell", 0) = {} /\ Got("shell", 1) = {"service"}
      /\ Got("shell", 2) = {"service", "argv"}
      /\ Got("shell", 3) = {"service", "argv", "fd0"}
      /\ Got("shell", 4) = {"service", "argv", "fd0"}
      /\ Got("shell", 5) = all /\ Got("shell", 6) = all
      /\ Got("shell", 7) = all /\ Got("shell", 8) = all
  <2>1. \A n \in Nat : Got("shell", n + 1) = Got("shell", n) \cup C[n + 1].gets
    BY GotNext DEF C
  <2>2. Got("shell", 1) = {"service"}
    BY <1>1, <2>1, GotNothing DEF Call
  <2>3. Got("shell", 2) = {"service", "argv"}
    BY <1>1, <2>1, <2>2 DEF Call
  <2>4. Got("shell", 3) = {"service", "argv", "fd0"}
    BY <1>1, <2>1, <2>3 DEF Call
  <2>5. Got("shell", 4) = {"service", "argv", "fd0"}
    BY <1>1, <2>1, <2>4 DEF Call
  <2>6. Got("shell", 5) = all
    BY <1>1, <2>1, <2>5 DEF Call
  <2>7. Got("shell", 6) = all
    BY <1>1, <2>1, <2>6 DEF Call
  <2>8. Got("shell", 7) = all
    BY <1>1, <2>1, <2>7 DEF Call
  <2>9. Got("shell", 8) = all
    BY <1>1, <2>1, <2>8 DEF Call
  <2> QED BY <2>2, <2>3, <2>4, <2>5, <2>6, <2>7, <2>8, <2>9, GotNothing
<1>3. /\ Len(Handles("shell")) = 2
      /\ Handles("shell")[1] = "shell_pipe" /\ Handles("shell")[2] = "process"
      /\ Memory("shell") = "service" /\ Spare("shell") = {"fd1", "argv"}
  BY DEF Handles, Memory, Spare
<1>4. Left("shell", 0) = {"service", "fd0"}
  BY <1>3 DEF Left, Descriptor
<1>5. CallOK("shell", 1) /\ CallOK("shell", 2)
  BY <1>1, <1>2 DEF CallOK, Call, Names, C
<1>6. CallOK("shell", 3) /\ CallOK("shell", 4)
  BY <1>1, <1>2 DEF CallOK, Call, Names, C
<1>7. CallOK("shell", 5) /\ CallOK("shell", 7)
  BY <1>1, <1>2 DEF CallOK, Call, Names, C
<1>8. CallOK("shell", 6)
  BY <1>1, <1>2, <1>3 DEF CallOK, Call, Names, C
<1>9. CallOK("shell", 8)
  BY <1>1, <1>2, <1>3 DEF CallOK, Call, Names, C
<1>10. \A n \in 1..8 : \/ n = 1 \/ n = 2 \/ n = 3 \/ n = 4
                       \/ n = 5 \/ n = 6 \/ n = 7 \/ n = 8
  OBVIOUS
<1>11. \A n \in 1..Len(Calls("shell")) : CallOK("shell", n)
  BY <1>1, <1>5, <1>6, <1>7, <1>8, <1>9, <1>10 DEF C
<1>12. Len(Calls("shell")) = 8
  BY <1>1 DEF C
<1>13. SpareOK("shell")
  BY <1>2, <1>3, <1>4, <1>12 DEF SpareOK
<1> QED BY <1>11, <1>12, <1>13 DEF TableOK

LEMMA Tables == \A kind \in Kinds : TableOK(kind)
BY SetupAssumption, AcceptTable, ForwardTable, ShellTable

-----------------------------------------------------------------------------
(* The inductive invariant *)

States ==
  {"setup", "connecting", "refused", "open", "closing", "failed", "abandoned",
   "gone"}

\* Complete and not closed; and freed without uv_close().
Built == {"connecting", "refused", "open"}
Lost  == {"failed", "abandoned"}

HandlesFrom(kind, n) ==
  {Handles(kind)[k] : k \in (n + 1)..Len(Handles(kind))}

\* What an object holds, by how far it has come.
Owned(o) ==
  CASE o.state = "setup"     -> Got(o.kind, o.at)
    [] o.state \in Built     -> Left(o.kind, 0)
    [] o.state = "closing"   -> Left(o.kind, o.closed)
    [] o.state = "abandoned" -> {"conn"}
    [] OTHER                 -> {}

\* Its handles that are still in the loop; what is lost leaves them there.
Linked(o, h) ==
  /\ o.state # "gone"
  /\ o.state \notin Lost => h \in HandlesFrom(o.kind, o.closed)
  /\ o.state = "setup" => Memory(o.kind) \in Got(o.kind, o.at)

Objects == [kind : Kinds, at : Nat, state : States, closed : Nat]

InPlace(o) ==
  /\ o.state = "setup" => o.at < Len(Calls(o.kind))
  /\ o.state \in Built \cup {"setup"} => o.closed = 0
  /\ o.state \in {"connecting", "refused", "abandoned"} => o.kind = "forward"
  /\ o.state = "closing" => o.closed < Len(Handles(o.kind))

\* The books agree: who holds something is an object that should.
SetupInv ==
  /\ objs \in Seq(Objects)
  /\ twice = FALSE
  /\ held \subseteq (DOMAIN objs) \X Names
  /\ \A i \in DOMAIN objs :
       /\ InPlace(objs[i])
       /\ \A r \in Names : <<i, r>> \in held <=> r \in Owned(objs[i])
  /\ \A e \in loop : /\ e = <<e[1], e[2]>>
                     /\ e[1] \in DOMAIN objs
                     /\ Linked(objs[e[1]], e[2])

LEMMA OfMember ==
  ASSUME NEW i, NEW names
  PROVE  /\ \A j, r : <<j, r>> \in Of(i, names) <=> j = i /\ r \in names
         /\ \A e \in Of(i, names) : e = <<i, e[2]>> /\ e[2] \in names
BY DEF Of

LEMMA LeftNames ==
  ASSUME NEW kind, NEW n \in Nat
  PROVE  /\ Left(kind, n) \subseteq Names /\ Memory(kind) \in Left(kind, n)
         /\ Memory(kind) \in Names
<1>1. \A h : Descriptor(h) \subseteq Names
  BY DEF Descriptor, Names
<1>2. Memory(kind) \in Names
  BY DEF Memory, Names
<1> QED BY <1>1, <1>2 DEF Left

LEMMA HandlesLength ==
  ASSUME NEW kind
  PROVE  Len(Handles(kind)) \in {1, 2}
BY DEF Handles

\* What the close callback of handle n + 1 gives back.
Returned(kind, n) ==
  Descriptor(Handles(kind)[n + 1]) \cup
  IF n + 1 = Len(Handles(kind)) THEN {Memory(kind)} ELSE {}

\* What open objects hold is their memory and the descriptor of their first
\* handle; what the close callback of handle n + 1 gives back is exactly what
\* makes the difference to the next.
LEMMA LeftFirst ==
  ASSUME NEW kind \in Kinds
  PROVE  Left(kind, 0) = {Memory(kind)} \cup Descriptor(Handles(kind)[1])
<1>1. CASE kind = "shell"
  <2>1. /\ Len(Handles(kind)) = 2 /\ Handles(kind)[1] = "shell_pipe"
        /\ Handles(kind)[2] = "process"
    BY <1>1 DEF Handles
  <2>2. (0 + 1)..2 = {1, 2}
    OBVIOUS
  <2>3. Descriptor(Handles(kind)[2]) = {}
    BY <2>1 DEF Descriptor
  <2> QED BY <2>1, <2>2, <2>3 DEF Left
<1>2. CASE kind # "shell"
  <2>1. Len(Handles(kind)) = 1
    BY <1>2 DEF Handles
  <2>2. (0 + 1)..1 = {1}
    OBVIOUS
  <2> QED BY <2>1, <2>2 DEF Left
<1> QED BY <1>1, <1>2

LEMMA LeftNext ==
  ASSUME NEW kind \in Kinds, NEW n \in Nat, n < Len(Handles(kind))
  PROVE  /\ Returned(kind, n) \subseteq Left(kind, n)
         /\ n + 1 = Len(Handles(kind)) => Left(kind, n) \ Returned(kind, n) = {}
         /\ n + 1 # Len(Handles(kind)) =>
              Left(kind, n) \ Returned(kind, n) = Left(kind, n + 1)
<1> DEFINE names == Returned(kind, n)
<1>1. CASE kind = "shell"
  <2>1. /\ Len(Handles(kind)) = 2 /\ Handles(kind)[1] = "shell_pipe"
        /\ Handles(kind)[2] = "process" /\ Memory(kind) = "service"
    BY <1>1 DEF Handles, Memory
  <2>2. Descriptor("shell_pipe") = {"fd0"} /\ Descriptor("process") = {}
    BY DEF Descriptor
  <2>3. (1 + 1)..2 = {2}
    OBVIOUS
  <2>4. Left(kind, 1) = {"service"}
    BY <2>1, <2>2, <2>3 DEF Left
  <2>5. Left(kind, 0) = {"service", "fd0"}
    BY <2>1, <2>2, LeftFirst
  <2>6. CASE n = 0
    <3>1. names = {"fd0"}
      BY <2>1, <2>2, <2>6 DEF Returned
    <3> QED BY <2>1, <2>4, <2>5, <2>6, <3>1
  <2>7. CASE n = 1
    <3>1. names = {"service"}
      BY <2>1, <2>2, <2>7 DEF Returned
    <3> QED BY <2>1, <2>4, <2>7, <3>1
  <2> QED BY <2>1, <2>6, <2>7
<1>2. CASE kind # "shell"
  <2>1. Len(Handles(kind)) = 1 /\ n = 0
    BY <1>2 DEF Handles
  <2>2. names = Left(kind, 0)
    BY <2>1, LeftFirst DEF Returned
  <2> QED BY <2>1, <2>2
<1> QED BY <1>1, <1>2

LEMMA HandlesNext ==
  ASSUME NEW kind, NEW n \in Nat
  PROVE  /\ \A h \in HandlesFrom(kind, n) :
              h = Handles(kind)[n + 1] \/ h \in HandlesFrom(kind, n + 1)
         /\ n + 1 = Len(Handles(kind)) => HandlesFrom(kind, n + 1) = {}
         /\ \A k \in 1..Len(Handles(kind)) :
              Handles(kind)[k] \in HandlesFrom(kind, 0)
BY HandlesLength DEF HandlesFrom

\* A step that changes object i, keeps its books when the other objects are
\* left alone and what i gives back and gets is the difference of what it
\* should hold.
LEMMA BooksKept ==
  ASSUME SetupInv, NEW i \in DOMAIN objs, NEW o \in Objects, NEW names, NEW gets,
         objs' \in Seq(Objects), DOMAIN objs' = DOMAIN objs, objs'[i] = o,
         \A j \in DOMAIN objs : j # i => objs'[j] = objs[j],
         Exchange(i, names, gets), gets \subseteq Names,
         InPlace(o),
         names \subseteq Owned(objs[i]) \cup gets,
         Owned(objs[i]) \subseteq Names,
         Owned(o) = (Owned(objs[i]) \cup gets) \ names,
         \A e \in loop' : \/ e \in loop /\ e[1] # i
                          \/ e = <<i, e[2]>> /\ Linked(o, e[2])
  PROVE  SetupInv'
<1>1. /\ held' = (held \cup Of(i, gets)) \ Of(i, names)
      /\ \A j \in DOMAIN objs, r \in Names : <<j, r>> \in held
                                              <=> r \in Owned(objs[j])
  BY DEF Exchange, SetupInv
<1>2. twice' = FALSE
  <2>1. Of(i, names) \subseteq held \cup Of(i, gets)
    BY <1>1, OfMember
  <2> QED BY <2>1 DEF Exchange, SetupInv
<1>3. held' \subseteq (DOMAIN objs') \X Names
  BY <1>1, OfMember DEF SetupInv
<1>4. ASSUME NEW j \in DOMAIN objs'
      PROVE  /\ InPlace(objs'[j])
             /\ \A r \in Names : <<j, r>> \in held' <=> r \in Owned(objs'[j])
  <2>1. CASE j = i
    <3>1. \A r \in Names :
            <<i, r>> \in held' <=> r \in (Owned(objs[i]) \cup gets) \ names
      BY <1>1, OfMember
    <3> QED BY <2>1, <3>1
  <2>2. CASE j # i
    <3>1. objs'[j] = objs[j] /\ InPlace(objs[j])
      BY <2>2 DEF SetupInv
    <3>2. \A r \in Names : <<j, r>> \in held' <=> <<j, r>> \in held
      BY <1>1, <2>2, OfMember
    <3> QED BY <1>1, <3>1, <3>2
  <2> QED BY <2>1, <2>2
<1>5. ASSUME NEW e \in loop'
      PROVE  e = <<e[1], e[2]>> /\ e[1] \in DOMAIN objs'
             /\ Linked(objs'[e[1]], e[2])
  <2>1. CASE e \in loop /\ e[1] # i
    BY <2>1 DEF SetupInv
  <2>2. CASE e = <<i, e[2]>> /\ Linked(o, e[2])
    <3>1. e[1] = i
      BY <2>2
    <3> QED BY <2>2, <3>1
  <2> QED BY <2>1, <2>2
<1> QED BY <1>2, <1>3, <1>4, <1>5 DEF SetupInv

LEMMA BeginKeeps ==
  ASSUME SetupInv, NEW kind \in Kinds, Begin(kind)
  PROVE  SetupInv'
<1> DEFINE o == [kind |-> kind, at |-> 0, state |-> "setup", closed |-> 0]
           new == Len(objs) + 1
<1>1. o \in Objects /\ objs' = Append(objs, o)
  BY DEF Objects, States, Begin
<1>2. InPlace(o) /\ Owned(o) = {}
  BY Tables, GotNothing DEF InPlace, Owned, TableOK, Built
<1> HIDE DEF o
<1>3. /\ objs' \in Seq(Objects) /\ DOMAIN objs' = (DOMAIN objs) \cup {new}
      /\ new \notin DOMAIN objs /\ objs'[new] = o
      /\ \A j \in DOMAIN objs : objs'[j] = objs[j]
  <2>1. objs \in Seq(Objects)
    BY DEF SetupInv
  <2> QED BY <1>1, <2>1, AppendProperties, LenProperties
<1>4. UNCHANGED <<held, loop, twice>>
  BY DEF Begin
<1>5. ASSUME NEW j \in DOMAIN objs'
      PROVE  /\ InPlace(objs'[j])
             /\ \A r \in Names : <<j, r>> \in held' <=> r \in Owned(objs'[j])
  <2>1. CASE j = new
    <3>1. \A r : <<j, r>> \notin held
      BY <2>1, <1>3 DEF SetupInv
    <3> QED BY <1>2, <1>3, <1>4, <2>1, <3>1
  <2>2. CASE j \in DOMAIN objs
    BY <1>3, <1>4, <2>2 DEF SetupInv
  <2> QED BY <1>3, <2>1, <2>2
<1>6. twice' = FALSE /\ held' \subseteq (DOMAIN objs') \X Names
  BY <1>3, <1>4 DEF SetupInv
<1>7. \A e \in loop' : /\ e = <<e[1], e[2]>> /\ e[1] \in DOMAIN objs'
                       /\ Linked(objs'[e[1]], e[2])
  BY <1>3, <1>4 DEF SetupInv
<1> QED BY <1>3, <1>5, <1>6, <1>7 DEF SetupInv

\* How one field or two of an object are changed.
LEMMA OneObject ==
  ASSUME objs \in Seq(Objects), NEW i \in DOMAIN objs, NEW o \in Objects,
         objs' = [objs EXCEPT ![i] = o]
  PROVE  /\ objs' \in Seq(Objects) /\ DOMAIN objs' = DOMAIN objs
         /\ objs'[i] = o
         /\ \A j \in DOMAIN objs : j # i => objs'[j] = objs[j]
<1>1. objs' \in Seq(Objects)
  BY ExceptSeq
<1> QED BY <1>1

LEMMA OwnedNames ==
  ASSUME SetupInv, NEW i \in DOMAIN objs
  PROVE  /\ objs[i] \in Objects /\ objs[i].kind \in Kinds
         /\ objs[i].at \in Nat /\ objs[i].closed \in Nat
         /\ TableOK(objs[i].kind)
         /\ InPlace(objs[i])
         /\ Owned(objs[i]) \subseteq Names
<1> DEFINE o == objs[i]
<1>1. o \in Objects
  BY ElementOfSeq DEF SetupInv
<1>2. /\ o.kind \in Kinds /\ o.at \in Nat /\ o.closed \in Nat
      /\ InPlace(o) /\ TableOK(o.kind)
  BY <1>1, Tables DEF SetupInv, Objects
<1>3. ASSUME o.state = "setup" PROVE Owned(o) \subseteq Names
  <2>1. o.at < Len(Calls(o.kind))
    BY <1>2, <1>3 DEF InPlace
  <2>2. CASE o.at = 0
    BY <1>3, <2>2, GotNothing DEF Owned, Built
  <2>3. CASE o.at # 0
    <3>1. CallOK(o.kind, o.at + 1)
      BY <1>2, <2>1 DEF TableOK
    <3>2. CallOK(o.kind, o.at)
      BY <1>2, <2>1, <2>3 DEF TableOK
    <3>3. \A k \in 1..o.at : CallOK(o.kind, k)
      BY <1>2, <2>1 DEF TableOK
    <3>4. Got(o.kind, o.at) \subseteq Names
      BY <3>3 DEF Got, CallOK
    <3> QED BY <1>3, <3>4 DEF Owned, Built
  <2> QED BY <2>2, <2>3
<1>4. ASSUME o.state # "setup" PROVE Owned(o) \subseteq Names
  <2>1. Left(o.kind, 0) \subseteq Names /\ Left(o.kind, o.closed) \subseteq Names
    BY <1>2, LeftNames
  <2>2. Owned(o) \in {Left(o.kind, 0), Left(o.kind, o.closed), {"conn"}, {}}
    BY <1>4 DEF Owned, Built
  <2> QED BY <2>1, <2>2 DEF Names
<1> QED BY <1>1, <1>2, <1>3, <1>4

\* When a call succeeds, what it got is owned, but for what a complete object
\* lets go of; what it registered is in the object's memory.
LEMMA CallSucceedsKeeps ==
  ASSUME SetupInv, NEW i \in DOMAIN objs, CallSucceeds(i)
  PROVE  SetupInv'
<1> DEFINE o == objs[i]
           c == Calls(o.kind)[o.at + 1]
           complete == o.at + 1 = Len(Calls(o.kind))
           state == IF complete THEN Complete(o.kind) ELSE "setup"
           names == IF complete THEN Spare(o.kind) ELSE {}
           new == [o EXCEPT !.at = o.at + 1, !.state = state]
<1>1. /\ o \in Objects /\ o.kind \in Kinds /\ o.at \in Nat /\ o.closed \in Nat
      /\ TableOK(o.kind) /\ InPlace(o) /\ Owned(o) \subseteq Names
      /\ o.state = "setup" /\ o.closed = 0 /\ o.at < Len(Calls(o.kind))
  BY OwnedNames DEF CallSucceeds, InPlace
<1>2. /\ new \in Objects /\ new.kind = o.kind /\ new.at = o.at + 1
      /\ new.state = state /\ new.closed = 0
  <2>1. state \in States
    BY DEF States, Complete
  <2>2. [o EXCEPT !.at = o.at + 1] \in [kind : {o.kind}, at : {o.at + 1},
              state : {o.state}, closed : {o.closed}]
    BY <1>1 DEF Objects
  <2>3. new \in [kind : {o.kind}, at : {o.at + 1}, state : {state},
                closed : {o.closed}]
    BY <2>2
  <2> QED BY <1>1, <2>1, <2>3 DEF Objects
<1>3. /\ objs' = [objs EXCEPT ![i] = new]
      /\ Exchange(i, names, c.gets) /\ Register(i, c.registers)
  BY <1>1 DEF CallSucceeds
<1>4. CallOK(o.kind, o.at + 1) /\ Len(Calls(o.kind)) \in Nat
      /\ SpareOK(o.kind)
  BY <1>1 DEF TableOK
<1>5. /\ c.gets \subseteq Names
      /\ Got(o.kind, o.at + 1) = Owned(o) \cup c.gets
      /\ \A h \in c.registers : /\ Memory(o.kind) \in Owned(o)
                                /\ h \in HandlesFrom(o.kind, 0)
  BY <1>1, <1>4, HandlesNext DEF CallOK, Owned, Built
<1>6. InPlace(new)
  BY <1>1, <1>2, <1>4 DEF InPlace, Complete, Built
<1>7. names \subseteq Owned(o) \cup c.gets
  BY <1>4, <1>5 DEF SpareOK
<1>8. Owned(new) = (Owned(o) \cup c.gets) \ names
  <2>1. Owned(new) = IF complete THEN Left(o.kind, 0) ELSE Got(o.kind, o.at + 1)
    BY <1>2 DEF Owned, Complete, Built
  <2> QED BY <1>4, <1>5, <2>1 DEF SpareOK
<1>9. ASSUME NEW e \in loop'
      PROVE  \/ e \in loop /\ e[1] # i
             \/ e = <<i, e[2]>> /\ Linked(new, e[2])
  <2>1. e \in loop \/ e \in Of(i, c.registers)
    BY <1>3 DEF Register
  <2>4. state # "gone" /\ state \notin Lost
    BY DEF Complete, Lost
  <2>2. CASE e \in loop /\ e[1] = i
    <3>1. e = <<i, e[2]>> /\ Linked(o, e[2])
      BY <2>2 DEF SetupInv
    <3>2. Memory(o.kind) \in Got(o.kind, o.at + 1)
      BY <1>1, <1>5, <3>1 DEF Linked, Owned, Built, Lost
    <3>3. e[2] \in HandlesFrom(o.kind, 0)
      BY <1>1, <3>1 DEF Linked, Lost
    <3> QED BY <1>2, <2>4, <3>1, <3>2, <3>3 DEF Linked
  <2>3. CASE e \in Of(i, c.registers)
    <3>1. e = <<i, e[2]>> /\ e[2] \in c.registers
      BY <2>3, OfMember
    <3>2. /\ e[2] \in HandlesFrom(o.kind, 0)
          /\ Memory(o.kind) \in Got(o.kind, o.at + 1)
      BY <1>5, <3>1
    <3> QED BY <1>2, <2>4, <3>1, <3>2 DEF Linked
  <2> QED BY <2>1, <2>2, <2>3
<1> HIDE DEF new, names, c
<1>10. objs \in Seq(Objects)
  BY DEF SetupInv
<1> QED
  BY <1>1, <1>2, <1>3, <1>5, <1>6, <1>7, <1>8, <1>9, <1>10, OneObject, BooksKept

\* When a call fails, its error path gives back all there is but a socket that
\* could not be connected; if reading does not start, nothing is given back and
\* the connection is closed.
LEMMA CallFailsKeeps ==
  ASSUME SetupInv, NEW i \in DOMAIN objs, CallFails(i), UNCHANGED loop
  PROVE  SetupInv'
<1> DEFINE o == objs[i]
           c == Calls(o.kind)[o.at + 1]
<1>1. /\ o \in Objects /\ o.kind \in Kinds /\ o.at \in Nat /\ o.closed \in Nat
      /\ TableOK(o.kind) /\ InPlace(o) /\ Owned(o) \subseteq Names
      /\ o.state = "setup" /\ o.closed = 0 /\ o.at < Len(Calls(o.kind))
  BY OwnedNames DEF CallFails, InPlace
<1>2. CallOK(o.kind, o.at + 1) /\ Len(Calls(o.kind)) \in Nat
  BY <1>1 DEF TableOK
<1>3. PICK left \in Leftovers(c) :
        /\ objs' = [objs EXCEPT ![i].state =
                       IF c.name = "uv_read_start" THEN "closing"
                       ELSE IF left = {} THEN "failed" ELSE "abandoned"]
        /\ Exchange(i, c.undo, left)
  BY DEF CallFails
<1> DEFINE state == IF c.name = "uv_read_start" THEN "closing"
                    ELSE IF left = {} THEN "failed" ELSE "abandoned"
           new == [o EXCEPT !.state = state]
<1>4. /\ new \in Objects /\ new.kind = o.kind
      /\ new.state = state /\ new.closed = 0
  BY <1>1 DEF Objects, States
<1>5. objs' = [objs EXCEPT ![i] = new]
  BY <1>1, <1>3
<1>6. \/ left = {}
      \/ /\ left = {"conn"} /\ o.kind = "forward" /\ "conn" \notin c.undo
         /\ c.name # "uv_read_start"
  BY <1>2, <1>3 DEF Leftovers, CallOK
<1>7. /\ c.undo \subseteq Owned(o)
      /\ c.name # "uv_read_start" => Owned(o) \ c.undo = {}
      /\ c.name = "uv_read_start" => c.undo = {} /\ Owned(o) = Left(o.kind, 0)
  BY <1>1, <1>2 DEF CallOK, Owned, Built
<1>8. InPlace(new)
  <2>1. /\ new.state \in {"closing", "failed", "abandoned"}
        /\ new.state = "abandoned" => new.kind = "forward"
    BY <1>4, <1>6
  <2>2. new.closed = 0
    BY <1>4
  <2> HIDE DEF new
  <2>3. 0 < Len(Handles(new.kind))
    <3>1. \A kind : Len(Handles(kind)) \in {1, 2}
      BY HandlesLength
    <3>2. \A n \in {1, 2} : 0 < n
      OBVIOUS
    <3> QED BY <3>1, <3>2
  <2> QED BY <2>1, <2>2, <2>3 DEF InPlace, Built
<1>9. Owned(new) = (Owned(o) \cup left) \ c.undo
  <2>1. CASE c.name = "uv_read_start"
    BY <1>4, <1>6, <1>7, <2>1 DEF Owned, Built
  <2>2. CASE c.name # "uv_read_start" /\ left = {}
    BY <1>4, <1>7, <2>2 DEF Owned, Built
  <2>3. CASE c.name # "uv_read_start" /\ left = {"conn"}
    BY <1>4, <1>6, <1>7, <2>3 DEF Owned, Built
  <2> QED BY <1>6, <2>1, <2>2, <2>3
<1>10. ASSUME NEW e \in loop'
       PROVE  \/ e \in loop /\ e[1] # i
              \/ e = <<i, e[2]>> /\ Linked(new, e[2])
  <2>1. CASE e[1] = i
    <3>1. e = <<i, e[2]>> /\ Linked(o, e[2])
      BY <2>1 DEF SetupInv
    <3> QED BY <1>1, <1>4, <3>1 DEF Linked, Lost
  <2> QED BY <2>1
<1>11. left \subseteq Names /\ c.undo \subseteq Owned(o) \cup left
  BY <1>6, <1>7 DEF Names
<1> HIDE DEF new, c
<1>12. objs \in Seq(Objects)
  BY DEF SetupInv
<1> QED
  BY <1>1, <1>3, <1>4, <1>5, <1>8, <1>9, <1>10, <1>11, <1>12, OneObject,
     BooksKept

\* A step that moves a complete object on and changes nothing else.
LEMMA MoveKeeps ==
  ASSUME SetupInv, NEW i \in DOMAIN objs, objs[i].state \in Built,
         NEW state \in Built \cup {"closing"},
         state = "refused" => objs[i].kind = "forward",
         state # "connecting",
         objs' = [objs EXCEPT ![i].state = state],
         UNCHANGED <<held, loop, twice>>
  PROVE  SetupInv'
<1> DEFINE o == objs[i]
           new == [o EXCEPT !.state = state]
<1>1. /\ o \in Objects /\ o.kind \in Kinds /\ o.at \in Nat /\ o.closed \in Nat
      /\ InPlace(o) /\ Owned(o) \subseteq Names /\ o.closed = 0
  BY OwnedNames DEF InPlace
<1>2. /\ new \in Objects /\ new.kind = o.kind
      /\ new.state = state /\ new.closed = 0
  BY <1>1 DEF Objects, States, Built
<1>3. objs' = [objs EXCEPT ![i] = new]
  BY <1>1
<1>4. Exchange(i, {}, {})
  <2>1. Of(i, {}) = {}
    BY DEF Of
  <2>2. twice = FALSE /\ twice' = twice /\ held' = held
    BY DEF SetupInv
  <2> QED BY <2>1, <2>2 DEF Exchange
<1>5. InPlace(new)
  BY <1>2, HandlesLength DEF InPlace, Built
<1>6. Owned(new) = (Owned(o) \cup {}) \ {}
  BY <1>1, <1>2 DEF Owned, Built
<1>7. ASSUME NEW e \in loop'
      PROVE  \/ e \in loop /\ e[1] # i
             \/ e = <<i, e[2]>> /\ Linked(new, e[2])
  <2>1. CASE e[1] = i
    <3>1. e = <<i, e[2]>> /\ Linked(o, e[2])
      BY <2>1 DEF SetupInv
    <3> QED BY <1>1, <1>2, <3>1 DEF Linked, Built, Lost
  <2> QED BY <2>1
<1> HIDE DEF new
<1>8. objs \in Seq(Objects)
  BY DEF SetupInv
<1> QED
  BY <1>1, <1>2, <1>3, <1>4, <1>5, <1>6, <1>7, <1>8, OneObject, BooksKept

LEMMA ConnectKeeps ==
  ASSUME SetupInv, NEW i \in DOMAIN objs, NEW result \in {"open", "refused"},
         Connect(i, result)
  PROVE  SetupInv'
<1>1. objs[i].state = "connecting" /\ InPlace(objs[i])
  BY OwnedNames DEF Connect
<1>2. objs[i].state \in Built /\ objs[i].kind = "forward" /\ result \in Built
  BY <1>1 DEF Built, InPlace
<1> QED BY <1>2, MoveKeeps DEF Connect

LEMMA CloseKeeps ==
  ASSUME SetupInv, NEW i \in DOMAIN objs, Close(i)
  PROVE  SetupInv'
BY MoveKeeps DEF Close, Built

\* A forward that is freed while it is not connected keeps its socket.
LEMMA AbandonKeeps ==
  ASSUME SetupInv, NEW i \in DOMAIN objs, Abandon(i)
  PROVE  SetupInv'
<1> DEFINE o == objs[i]
           new == [o EXCEPT !.state = "abandoned"]
<1>1. /\ o \in Objects /\ o.kind \in Kinds /\ o.at \in Nat /\ o.closed \in Nat
      /\ InPlace(o) /\ Owned(o) \subseteq Names
      /\ o.state \in {"connecting", "refused"} /\ o.kind = "forward"
  BY OwnedNames DEF Abandon, InPlace
<1>2. /\ new \in Objects /\ new.kind = o.kind /\ new.state = "abandoned"
  BY <1>1 DEF Objects, States
<1>3. /\ objs' = [objs EXCEPT ![i] = new] /\ UNCHANGED loop
      /\ Exchange(i, {"service"}, {})
  BY <1>1 DEF Abandon
<1>4. Owned(o) = {"service", "conn"}
  <2>1. Owned(o) = {Memory(o.kind)} \cup Descriptor(Handles(o.kind)[1])
    BY <1>1, LeftFirst DEF Owned, Built
  <2>2. Memory(o.kind) = "service" /\ Handles(o.kind)[1] = "socket"
    BY <1>1 DEF Memory, Handles
  <2> QED BY <2>1, <2>2 DEF Descriptor
<1>5. Owned(new) = (Owned(o) \cup {}) \ {"service"}
  BY <1>2, <1>4 DEF Owned, Built
<1>6. InPlace(new)
  BY <1>1, <1>2 DEF InPlace, Built
<1>7. ASSUME NEW e \in loop'
      PROVE  \/ e \in loop /\ e[1] # i
             \/ e = <<i, e[2]>> /\ Linked(new, e[2])
  <2>1. CASE e[1] = i
    <3>1. e = <<i, e[2]>>
      BY <1>3, <2>1 DEF SetupInv
    <3> QED BY <1>2, <3>1 DEF Linked, Lost
  <2> QED BY <1>3, <2>1
<1>8. {"service"} \subseteq Owned(o) \cup {}
  BY <1>4
<1> HIDE DEF new
<1>9. objs \in Seq(Objects)
  BY DEF SetupInv
<1> QED
  BY <1>1, <1>2, <1>3, <1>5, <1>6, <1>7, <1>8, <1>9, OneObject, BooksKept

\* A close callback gives back the descriptor of its handle, the last one the
\* memory too, which is no longer needed by any handle.
LEMMA HandleClosedKeeps ==
  ASSUME SetupInv, NEW i \in DOMAIN objs, HandleClosed(i)
  PROVE  SetupInv'
<1> DEFINE o == objs[i]
           h == Handles(o.kind)[o.closed + 1]
           last == o.closed + 1 = Len(Handles(o.kind))
           names == Returned(o.kind, o.closed)
           state == IF last THEN "gone" ELSE "closing"
           new == [o EXCEPT !.closed = o.closed + 1, !.state = state]
<1>1. /\ o \in Objects /\ o.kind \in Kinds /\ o.at \in Nat /\ o.closed \in Nat
      /\ InPlace(o) /\ Owned(o) \subseteq Names
      /\ o.state = "closing" /\ o.closed < Len(Handles(o.kind))
  BY OwnedNames DEF HandleClosed, InPlace
<1>2. /\ new \in Objects /\ new.kind = o.kind
      /\ new.state = state /\ new.closed = o.closed + 1
  <2>1. state \in States
    BY DEF States
  <2>2. [o EXCEPT !.closed = o.closed + 1] \in [kind : {o.kind}, at : {o.at},
              state : {o.state}, closed : {o.closed + 1}]
    BY <1>1 DEF Objects
  <2>3. new \in [kind : {o.kind}, at : {o.at}, state : {state},
                closed : {o.closed + 1}]
    BY <2>2
  <2> QED BY <1>1, <2>1, <2>3 DEF Objects
<1>3. /\ objs' = [objs EXCEPT ![i] = new] /\ Exchange(i, names, {})
      /\ loop' = loop \ {<<i, h>>}
  BY <1>1 DEF HandleClosed, Returned
<1>4. /\ names \subseteq Left(o.kind, o.closed)
      /\ last => Left(o.kind, o.closed) \ names = {}
      /\ ~last => Left(o.kind, o.closed) \ names = Left(o.kind, o.closed + 1)
  BY <1>1, LeftNext
<1>5. Owned(o) = Left(o.kind, o.closed)
  BY <1>1 DEF Owned, Built
<1>6. InPlace(new)
  BY <1>1, <1>2, HandlesLength DEF InPlace, Built
<1>7. Owned(new) = (Owned(o) \cup {}) \ names
  BY <1>2, <1>4, <1>5 DEF Owned, Built
<1>8. ASSUME NEW e \in loop'
      PROVE  \/ e \in loop /\ e[1] # i
             \/ e = <<i, e[2]>> /\ Linked(new, e[2])
  <2>1. CASE e[1] = i
    <3>1. e = <<i, e[2]>> /\ Linked(o, e[2]) /\ e[2] # h
      BY <1>3, <2>1 DEF SetupInv
    <3>2. e[2] \in HandlesFrom(o.kind, o.closed + 1)
      BY <1>1, <3>1, HandlesNext DEF Linked, Lost, Built
    <3>3. ~last
      BY <1>1, <3>2, HandlesNext
    <3> QED BY <1>2, <3>1, <3>2, <3>3 DEF Linked, Lost, Built
  <2> QED BY <1>3, <2>1
<1> HIDE DEF new, names
<1>9. objs \in Seq(Objects)
  BY DEF SetupInv
<1> QED
  BY <1>1, <1>2, <1>3, <1>4, <1>5, <1>6, <1>7, <1>8, <1>9, OneObject, BooksKept

LEMMA SetupInvInit == Init => SetupInv
<1>1. /\ << >> \in Seq(Objects) /\ DOMAIN << >> = {}
  OBVIOUS
<1> QED BY <1>1 DEF Init, SetupInv

LEMMA SetupInvNext == SetupInv /\ [Next]_svars => SetupInv'
<1> SUFFICES ASSUME SetupInv, [Next]_svars PROVE SetupInv'
  OBVIOUS
<1>1. CASE \E kind \in Kinds : Begin(kind)
  BY <1>1, BeginKeeps
<1>2. ASSUME NEW i \in DOMAIN objs,
             \/ CallSucceeds(i) \/ CallFails(i)
             \/ \E result \in {"open", "refused"} : Connect(i, result)
             \/ Close(i) \/ Abandon(i) \/ HandleClosed(i)
      PROVE  SetupInv'
  <2>1. CallFails(i) => UNCHANGED loop
    BY DEF CallFails
  <2> QED
    BY <1>2, <2>1, CallSucceedsKeeps, CallFailsKeeps, ConnectKeeps, CloseKeeps,
       AbandonKeeps, HandleClosedKeeps
<1>3. CASE UNCHANGED svars
  BY <1>3 DEF svars, SetupInv
<1> QED BY <1>1, <1>2, <1>3 DEF Next

\* At every step of setting up and taking down, what each object holds is what
\* its progress says, and only live objects have handles in the loop.
THEOREM SetupInvariance == Spec => []SetupInv
BY SetupInvInit, SetupInvNext, PTL DEF Spec

\* tcp_on_connection(), shell_service(), tcp_forward_service() and what closes
\* what they built: whatever call fails, and however many are built at the same
\* time, nothing stays behind but the socket of a forward that never connected,
\* and what runs has what it needs.
THEOREM OnlySocketLeftCorrect == Spec => []OnlySocketLeft
<1>1. SetupInv => OnlySocketLeft
  <2> SUFFICES ASSUME SetupInv, Idle, NEW i \in DOMAIN objs
               PROVE  CASE objs[i].state \in {"gone", "failed"} -> HeldBy(i) = {}
                        [] objs[i].state = "abandoned" ->
                             objs[i].kind = "forward" /\ HeldBy(i) = {"conn"}
                        [] objs[i].state = "closing" ->
                             Memory(objs[i].kind) \in HeldBy(i)
                        [] OTHER -> HeldBy(i) = {Memory(objs[i].kind)} \cup
                                        Descriptor(Handles(objs[i].kind)[1])
    BY DEF OnlySocketLeft
  <2> DEFINE o == objs[i]
  <2>1. /\ o \in Objects /\ o.kind \in Kinds /\ o.closed \in Nat
        /\ InPlace(o) /\ Owned(o) \subseteq Names
    BY OwnedNames
  <2>2. HeldBy(i) = Owned(o)
    <3>1. \A h \in held : h = <<h[1], h[2]>> /\ h[2] \in Names
      BY DEF SetupInv
    <3>2. \A r \in Names : <<i, r>> \in held <=> r \in Owned(o)
      BY DEF SetupInv
    <3> QED BY <2>1, <3>1, <3>2 DEF HeldBy
  <2>3. CASE o.state \in {"gone", "failed"}
    BY <2>2, <2>3 DEF Owned, Built
  <2>4. CASE o.state \in Built
    BY <2>1, <2>2, <2>4, LeftFirst DEF Owned, Built
  <2>5. CASE o.state = "closing"
    BY <2>1, <2>2, <2>5, LeftNames DEF Owned, Built
  <2>6. CASE o.state = "abandoned"
    BY <2>1, <2>2, <2>6 DEF Owned, Built, InPlace
  <2>7. o.state \in {"gone", "failed", "closing", "abandoned"} \cup Built
    BY <2>1 DEF Objects, States, Idle, Built
  <2> QED BY <2>3, <2>4, <2>5, <2>6, <2>7
<1> QED BY <1>1, SetupInvariance, PTL

\* The same functions and the close callbacks: nothing is given back a second
\* time, neither in the middle of a ladder of labels nor by a later callback.
THEOREM ReleasedOnceCorrect == Spec => []ReleasedOnce
<1>1. SetupInv => ReleasedOnce
  BY DEF SetupInv, ReleasedOnce
<1> QED BY <1>1, SetupInvariance, PTL

\* The close callbacks keep the memory of an object until none of its handles
\* is in the queue of the loop; exactly the handles of what was freed without
\* uv_close() are left there without it.
THEOREM DanglingKnownCorrect == Spec => []DanglingKnown
<1>1. SetupInv => DanglingKnown
  <2> SUFFICES ASSUME SetupInv, NEW e \in loop
               PROVE  <<e[1], Memory(objs[e[1]].kind)>> \notin held
                        <=> objs[e[1]].state \in Lost
    BY DEF DanglingKnown, Dangling, Lost
  <2> DEFINE i == e[1]
             o == objs[i]
  <2>1. i \in DOMAIN objs /\ Linked(o, e[2])
    BY DEF SetupInv
  <2>2. o \in Objects /\ o.kind \in Kinds /\ o.closed \in Nat
    BY <2>1, OwnedNames
  <2>3. Memory(o.kind) \in Names /\ Memory(o.kind) # "conn"
    BY <2>2, LeftNames DEF Memory
  <2>4. <<i, Memory(o.kind)>> \in held <=> Memory(o.kind) \in Owned(o)
    BY <2>1, <2>3 DEF SetupInv
  <2>5. CASE o.state \in Lost
    BY <2>3, <2>4, <2>5 DEF Owned, Built, Lost
  <2>6. CASE o.state \in Built \cup {"setup", "closing"}
    BY <2>1, <2>2, <2>4, <2>6, LeftNames DEF Linked, Owned, Built, Lost
  <2>7. o.state \in Lost \cup Built \cup {"setup", "closing"}
    BY <2>1, <2>2 DEF Linked, Objects, States, Built, Lost
  <2> QED BY <2>5, <2>6, <2>7
<1> QED BY <1>1, SetupInvariance, PTL

-----------------------------------------------------------------------------
(* The server of the emulator's pipe *)

\* OneOwner is inductive once it is known that only a server that polls has a
\* descriptor.
ServerInv ==
  /\ OneOwner
  /\ server = "polling" => polled \in Fds
  /\ server # "polling" => polled = NoFd
  /\ clients \subseteq Fds
  /\ badclose = FALSE

LEMMA SetupOwns ==
  ASSUME ServerInv, server # "polling", QemuSetup
  PROVE  ServerInv'
<1>1. open = clients /\ clients' = clients /\ NoFd \notin clients
  BY QemuAssumption DEF ServerInv, OneOwner, QemuSetup
<1>2. CASE SetupWorks
  <2>1. PICK fd \in Fds \ open : /\ server' = "polling" /\ polled' = fd
                                 /\ open' = open \cup {fd}
                                 /\ UNCHANGED badclose
    BY <1>2 DEF SetupWorks
  <2>2. polled' \notin clients'
    BY <1>1, <2>1
  <2> QED
    BY <1>1, <2>1, <2>2 DEF ServerInv, OneOwner
<1>3. CASE SetupFails
  BY <1>1, <1>3 DEF SetupFails, ServerInv, OneOwner
<1>4. CASE PollFails
  BY <1>1, <1>4 DEF PollFails, ServerInv, OneOwner
<1> QED
  BY <1>2, <1>3, <1>4 DEF QemuSetup

LEMMA ServerInvNext == ServerInv /\ [QemuNext]_qvars => ServerInv'
<1> SUFFICES ASSUME ServerInv, [QemuNext]_qvars PROVE ServerInv'
  OBVIOUS
<1>1. CASE Start
  BY <1>1, SetupOwns DEF Start
<1>2. CASE ServerClosed
  BY <1>2, SetupOwns DEF ServerClosed
<1>3. CASE Refused
  <2>1. /\ server' = "closing" /\ polled' = NoFd /\ clients' = clients
        /\ open' = open \ {polled} /\ polled \in open /\ polled \notin clients
        /\ open = clients \cup {polled}
    BY <1>3 DEF Refused, CloseFd, ServerInv, OneOwner
  <2>2. badclose' = FALSE
    BY <1>3, <2>1 DEF Refused, CloseFd, ServerInv
  <2>3. open' = clients'
    BY <2>1
  <2>4. polled' \notin clients'
    BY <2>1, QemuAssumption DEF ServerInv
  <2> QED
    BY <2>1, <2>2, <2>3, <2>4 DEF ServerInv, OneOwner
<1>4. CASE Accepted
  <2>1. /\ server' = "closing" /\ polled' = NoFd /\ polled \in Fds
        /\ clients' = clients \cup {polled} /\ open' = clients'
        /\ badclose' = FALSE
    BY <1>4 DEF Accepted, ServerInv, OneOwner
  <2>2. polled' \notin clients' /\ clients' \subseteq Fds
    BY <2>1, QemuAssumption DEF ServerInv
  <2> QED
    BY <2>1, <2>2 DEF ServerInv, OneOwner
<1>5. CASE ClientClosed
  <2>1. PICK fd \in clients : /\ clients' = clients \ {fd}
                              /\ CloseFd(fd)
                              /\ UNCHANGED <<server, polled>>
    BY <1>5 DEF ClientClosed
  <2>2. open' = open \ {fd} /\ fd \in open /\ fd # polled
    BY <2>1 DEF CloseFd, ServerInv, OneOwner
  <2>3. badclose' = FALSE
    BY <2>1, <2>2 DEF CloseFd, ServerInv
  <2> QED
    BY <2>1, <2>2, <2>3 DEF ServerInv, OneOwner
<1>6. CASE UNCHANGED qvars
  BY <1>6 DEF qvars, ServerInv, OneOwner
<1> QED
  BY <1>1, <1>2, <1>3, <1>4, <1>5, <1>6 DEF QemuNext

\* hal_uv_client_qemu.c: each open descriptor has one owner, however
\* connections come, fail and close, and whether or not the server can be set
\* up again.
THEOREM OneOwnerCorrect == QemuSpec => []OneOwner
<1>1. QemuInit => ServerInv
  BY QemuAssumption DEF QemuInit, ServerInv, OneOwner
<1>2. ServerInv => OneOwner
  BY DEF ServerInv
<1> QED
  BY <1>1, <1>2, ServerInvNext, PTL DEF QemuSpec
=============================================================================
