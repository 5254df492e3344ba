---------------------------- MODULE FrameStream -----------------------------
(***************************************************************************)
(* What the reception of a connection promises: the frames of the host are *)
(* processed whole, once and in their order, up to the first one that must *)
(* be rejected, which ends the connection.  How the bytes are cut is the   *)
(* business of FrameReader.                                                *)
(***************************************************************************)
EXTENDS Naturals, Sequences

CONSTANT Acceptable(_, _)   \* a frame, after a number of processed ones

VARIABLES
  stream,      \* the frames of the host
  processed,   \* frames handed to adb_process_packet()
  up           \* the connection is not closed

streamVars == <<stream, processed, up>>

StreamInit == processed = <<>> /\ up = TRUE

Due == Len(processed) + 1

Process ==
  /\ up /\ Due \in DOMAIN stream
  /\ Acceptable(stream[Due], processed)
  /\ processed' = Append(processed, stream[Due])
  /\ UNCHANGED <<stream, up>>

Reject ==
  /\ up /\ Due \in DOMAIN stream
  /\ ~Acceptable(stream[Due], processed)
  /\ up' = FALSE
  /\ UNCHANGED <<stream, processed>>

StreamNext == Process \/ Reject

StreamSpec == StreamInit /\ [][StreamNext]_streamVars
=============================================================================
