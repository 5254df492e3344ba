----------------------------- MODULE FramePool ------------------------------
(***************************************************************************)
(* What the frame pool of a connection promises its users: at most Max     *)
(* frames in use, and nobody waits for a frame while one is free.  How the *)
(* single counter of the code and its kicks achieve that is the business   *)
(* of AdbClient.                                                           *)
(***************************************************************************)
EXTENDS Integers, FiniteSets

CONSTANTS
  Blocks,     \* identities of frames
  Users,      \* whoever may ask for a frame
  Max         \* frames that may be in use at a time

VARIABLES
  inuse,      \* frames in use
  waiting     \* users that were refused a frame and rely on a kick

poolVars == <<inuse, waiting>>

PoolInit ==
  /\ inuse = {}
  /\ waiting = {}

Full == Cardinality(inuse) = Max

\* A frame is handed out.
Acquire(f) ==
  /\ ~Full /\ f \notin inuse
  /\ inuse' = inuse \cup {f}
  /\ UNCHANGED waiting

\* Only a full pool refuses.
TurnAway(u) ==
  /\ Full
  /\ waiting' = waiting \cup {u}
  /\ UNCHANGED inuse

\* A frame comes back: everybody who waits is woken up.
GiveBack(f) ==
  /\ f \in inuse
  /\ inuse' = inuse \ {f}
  /\ waiting' = {}

\* Some waiting users leave: one took the frame that came back as it came
\* back, or is closed.
Leave ==
  /\ waiting' \subseteq waiting /\ waiting' # waiting
  /\ UNCHANGED inuse

PoolNext ==
  \/ \E f \in Blocks : Acquire(f) \/ GiveBack(f)
  \/ \E u \in Users : TurnAway(u)
  \/ Leave

PoolSpec == PoolInit /\ [][PoolNext]_poolVars

\* Nobody waits for a frame while one is free.
NobodyWaitsInVain == waiting # {} => Full
=============================================================================
