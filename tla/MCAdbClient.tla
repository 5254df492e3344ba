---------------------------- MODULE MCAdbClient -----------------------------
(* Instances of AdbClient for TLC. *)
EXTENDS AdbClient, TLC

\* One frame more than the pool may hand out, so that handing out too many
\* would show.
CONSTANTS f1, f2, f3

MCPeers == {1}

AllKinds == {"sync", "shell", "tcp"}
StreamKinds == {"shell", "tcp"}

AllMisfortunes == {"hangup", "garbage", "connect", "write", "random", "malloc"}

\* Frames are interchangeable.
FrameSymmetry == Permutations(Frames)
=============================================================================
