---------------------------- MODULE MCCorePool ----------------------------
(* Small instances of CorePool for TLC. *)
EXTENDS CorePool, TLC

CONSTANTS s1, s2, s3, r1  \* requests

(* Synthesis requests that differ in nothing may be exchanged. *)
Symmetry == Permutations(SynthRequests)
=============================================================================
