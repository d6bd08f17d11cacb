----------------------------- MODULE MCAlgorithms -----------------------------
(* Small inputs for Algorithms. *)
EXTENDS Algorithms

Upto(S, n) == UNION {[1..k -> S] : k \in 0..n}

P(text, score, type) == [text |-> text, score |-> score, type |-> type]

MCVocab ==
  << P(<<"unk">>, 0, "unknown"), P(<<"s">>, 0, "control"),
     P(<<"_">>, -2, "normal"), P(<<"a">>, -3, "normal"), P(<<"_", "a">>, -4, "normal"), P(<<"_", "a", "a">>, -5, "normal"),
     P(<<"a", "b">>, -5, "normal"), P(<<"b", "a", "b">>, -6, "normal"), P(<<"A">>, -4, "normal"),
     P(<<".">>, -2, "normal"), P(<<",">>, -2, "user"),
     P(<<"zi">>, -3, "normal"), P(<<"zi", "zi">>, -5, "normal"), P(<<"jv">>, -2, "normal"),
     P(<<"<0x>", "b">>, -1, "byte"), P(<<"<0x>", "e'">>, -1, "byte") >>

MCHalfwidth == [r \in {"wide."} |-> "."]
MCUpper == [r \in {"a"} |-> "A"]

MCTexts == Upto({"a", "b", " ", "wide.", "e'", "zi"}, 4) \cup Upto({"a", "b"}, 7)
MCPassages == Upto({"a", "zi", ".", ",", "quote", " "}, 4) \cup Upto({"zi", "a", "."}, 6)

MCDoubles == (0..3) \X Word
MCSeeds == {0, 1, 2, 7, 15} \X {0, 3, 8}

MCScores == UNION {[1..k -> 0..2] : k \in 1..4}
MCNuclei == {<<0, 1>>, <<1, 4>>, <<1, 2>>, <<3, 4>>}

MCLogits == UNION {[1..k -> {-4, -2, 0, 2, 4}] : k \in 1..3}
MCHistories == Upto({1, 2, 4}, 3)

MCLines == Upto({"w", "U", "#", "@", ".", " "}, 5)
MCWaves == Upto(BOOLEAN, 11)
=============================================================================
