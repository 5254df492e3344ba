--------------------------- MODULE MCHostSession ----------------------------
(* Instances of HostSession for TLC. *)
EXTENDS HostSession, TLC

CONSTANTS f1, f2

MCPeers == {1, 2}

\* Frames are interchangeable.
FrameSymmetry == Permutations(Frames)

AllKinds == {"sync", "shell", "tcp"}
=============================================================================
