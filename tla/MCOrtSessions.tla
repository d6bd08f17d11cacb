---------------------------- MODULE MCOrtSessions ----------------------------
(* Small instances of OrtSessions for TLC. *)
EXTENDS OrtSessions

CONSTANTS u1, u2, t1  \* tasks
=============================================================================
