--------------------------- MODULE MCServerStart ---------------------------
(* Small instances of ServerStart for TLC. *)
EXTENDS ServerStart

CONSTANTS b1, b2  \* browsers
=============================================================================
