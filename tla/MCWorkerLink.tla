--------------------------- MODULE MCWorkerLink ---------------------------
(* Small instances of WorkerLink for TLC. *)
EXTENDS WorkerLink, TLC

CONSTANTS i1, u1, u2, t1  \* calls

(* Unary calls that differ in nothing may be exchanged. *)
Symmetry == Permutations(Synth)
=============================================================================
