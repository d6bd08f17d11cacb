--------------------------- MODULE MCPreloadCache ---------------------------
(* Small instances of PreloadCache for TLC. *)
EXTENDS PreloadCache, TLC

CONSTANTS w1, w2, r1, r2, r3, i1, i2, i3, p1, p2

(* One id is used for two files, and by somebody who does not say which. *)
MCAsks == {<<i1, p1>>, <<i1, p2>>, <<i2, None>>, <<i3, p1>>}

(* The directory after runs of this and of an earlier version of the program. *)
MCKept == {[i \in Ids |-> IF i = i2 THEN p1 ELSE None],
           [i \in Ids |-> IF i = i1 THEN Old ELSE p2]}

(* Requests differ in nothing, and neither do processes. *)
Symmetry == Permutations(Requests) \cup Permutations(Workers)
=============================================================================
