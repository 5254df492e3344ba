--------------------------- MODULE MCFrameReader ----------------------------
(* Instances of FrameReader for TLC. *)
EXTENDS FrameReader

\* Nothing, one, the smaller payload, the larger one, and more than both.
MCLengths == {0, 1, 2, 3, 4}

MCFlaws == {"magic", "sum"}
=============================================================================
