---------------------------- MODULE MCFrameStream ----------------------------
(* Small instances of FrameStream for TLC. *)
EXTENDS FrameStream

CONSTANTS f1, f2  \* frames
=============================================================================
