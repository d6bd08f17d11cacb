---------------------------- MODULE MCCloneCache ----------------------------
(* Small instances of CloneCache for TLC. *)
EXTENDS CloneCache, TLC

CONSTANTS w1, w2, r1, r2, r3, k1, k2

Symmetry == Permutations(Workers)
=============================================================================
