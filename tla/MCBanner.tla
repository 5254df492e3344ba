------------------------------ MODULE MCBanner ------------------------------
(* Instances of Banner for TLC. *)
EXTENDS Banner

\* Short parts, one that ends with the buffer, one that is too long.
MCPartLengths == {1, 2, 5, 6, 7}
=============================================================================
