------------------------------- MODULE Sampling -------------------------------
(***************************************************************************)
(* The choice of a token from its scores (src/pkg/sampler/sampler.go).     *)
(*                                                                         *)
(* Scores are integers, and a score s has the weight 2 ^ s where the code  *)
(* has e ^ s: a probability is a ratio of weights and exact.  Removed is   *)
(* minus infinity.  The temperature only scales the scores and is left     *)
(* out.  An index counts from 1.                                           *)
(***************************************************************************)
EXTENDS Integers, FiniteSetsExt, SequencesExt

Removed == -1000

Weight(s) == IF s = Removed THEN 0 ELSE 2 ^ s

Total(scores, is) == MapThenSumSet(LAMBDA i : Weight(scores[i]), is)

(* The first of the greatest. *)
Argmax(scores) ==
  CHOOSE i \in DOMAIN scores : \A j \in DOMAIN scores : scores[j] < scores[i] \/ (scores[j] = scores[i] /\ i <= j)

(* nthLargest *)
nthLargest(scores, n) ==
  CHOOSE v \in ToSet(scores) : /\ Cardinality({i \in DOMAIN scores : scores[i] > v}) < n
                               /\ Cardinality({i \in DOMAIN scores : scores[i] >= v}) >= n

KeepTop(scores, topK) ==
  IF topK = 0 \/ topK >= Len(scores) THEN scores
  ELSE [i \in DOMAIN scores |-> IF scores[i] < nthLargest(scores, topK) THEN Removed ELSE scores[i]]

(* sortDescIndexed: equal scores stay in their order. *)
Before(scores, i, j) == scores[i] > scores[j] \/ (scores[i] = scores[j] /\ i < j)

Sorted(scores) == SortSeq([i \in DOMAIN scores |-> i], LAMBDA i, j : Before(scores, i, j))

(* Mutant of RemoveMask: it is not moved. *)
RemoveMaskUnmoved(scores, p) ==
  LET order == Sorted(scores)
      over(i) == Total(scores, {order[k] : k \in 1..i}) * p[2] > p[1] * Total(scores, DOMAIN scores)
  IN [i \in DOMAIN order |-> over(i)]

(* The mask marks where the probabilities add up to more than topP = p[1] / p[2], and is then *)
(* moved by one, so that the token that crosses the bound stays.                              *)
RemoveMask(scores, p) ==
  LET order == Sorted(scores)
      over(i) == Total(scores, {order[k] : k \in 1..i}) * p[2] > p[1] * Total(scores, DOMAIN scores)
  IN [i \in DOMAIN order |-> i > 1 /\ over(i - 1)]

KeepNucleus(scores, p) ==
  IF p[1] = 0 \/ p[1] >= p[2] THEN scores
  ELSE LET order == Sorted(scores)
       IN [i \in DOMAIN scores |->
             IF RemoveMask(scores, p)[CHOOSE k \in DOMAIN order : order[k] = i] THEN Removed ELSE scores[i]]

(* SampleFromScores with doSample, when the random number is k / n: the first index at which *)
(* the number is used up; Argmax of all the scores should rounding leave something.          *)
SampleFromScores(values, topK, p, k, n) ==
  LET scores == KeepNucleus(KeepTop(values, topK), p)
      used == {i \in DOMAIN scores : k * Total(scores, DOMAIN scores) <= n * Total(scores, 1..i)}
  IN IF used = {} THEN Argmax(values) ELSE Min(used)

(* The penalty is 2 and scores are even where it is applied. *)
Penalized(s) == IF s > 0 THEN s \div 2 ELSE s * 2

ApplyRepetitionPenalty(values, previous) ==
  FoldLeft(LAMBDA acc, id : IF id \notin DOMAIN values \/ acc.seen[id] THEN acc
                            ELSE [acc EXCEPT !.seen[id] = TRUE, !.result[id] = Penalized(@)],
           [result |-> values, seen |-> [i \in DOMAIN values |-> FALSE]], previous).result

ArgmaxWithRepetitionPenalty(values, previous) ==
  Argmax([i \in DOMAIN values |-> IF i \notin previous THEN values[i]
                                  ELSE IF values[i] < 0 THEN values[i] * 2 ELSE values[i] \div 2])
=============================================================================
