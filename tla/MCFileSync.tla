----------------------------- MODULE MCFileSync -----------------------------
(* Instances of FileSync for TLC. *)
EXTENDS FileSync

\* An empty field, one that a frame may hold several times, one that needs
\* several frames, and the size of the buffer (PathMax = 9) and more.
MCLengths == {0, 1, 8, 9, 11}
=============================================================================
