------------------------------ MODULE TextChunks ------------------------------
(***************************************************************************)
(* How a text is split into the pieces that are spoken one by one          *)
(* (SplitVoiceCloneText and what it calls, src/pkg/ttsruntime/             *)
(* ttsruntime.go): at the ends of sentences, a sentence of too many tokens *)
(* at the ends of clauses, a clause of too many tokens by a search for the *)
(* longest prefix that fits; then pieces are joined as far as they fit.    *)
(*                                                                         *)
(* A string is a sequence of bytes, the byte <<r, k>> being the k-th of    *)
(* the encoding of the rune r.  That matters: the search for a prefix      *)
(* cuts between bytes.                                                     *)
(***************************************************************************)
EXTENDS Tokenizer

CONSTANTS
  Cjk,           \* runes normalizer.ContainsCJK looks for
  Wide,          \* runes of three bytes
  SentenceEnd,   \* SentenceEndPunctuation
  ClauseSplit,   \* ClauseSplitPunctuation
  Closing,       \* ClosingPunctuation
  Upper,         \* [small letters -> capitals]
  Alphanumeric,  \* letters and digits
  ScanBack       \* how many bytes back splitTextByTokenBudget looks for a good place (24)

Width(r) == IF r \in Wide \cup {"bad"} THEN 3 ELSE 1

Bytes(runes) == FlattenSeq([i \in DOMAIN runes |-> [k \in 1..Width(runes[i]) |-> <<runes[i], k>>]])

(* []rune(string): bytes that are no rune become U+FFFD, one by one. *)
RECURSIVE Runes(_)
Runes(str) ==
  IF str = <<>> THEN <<>>
  ELSE LET r == str[1][1]
           whole == str[1][2] = 1 /\ Len(str) >= Width(r) /\ \A k \in 1..Width(r) : str[k] = <<r, k>>
       IN IF whole THEN <<r>> \o Runes(SubSeq(str, Width(r) + 1, Len(str))) ELSE <<"bad">> \o Runes(Tail(str))

CountTextTokens(str) == CountTokens(Runes(str))

SpaceByte(b) == b[1] \in {" ", "nl"}

TrimSpace(str) ==
  LET solid == {i \in DOMAIN str : ~SpaceByte(str[i])}
  IN IF solid = {} THEN <<>> ELSE SubSeq(str, Min(solid), Max(solid))

ContainsCJK(str) == ToSet(Runes(str)) \cap Cjk # {}

(* strings.Fields *)
Words(str) ==
  Cardinality({i \in DOMAIN str : ~SpaceByte(str[i]) /\ (i = 1 \/ SpaceByte(str[i - 1]))})

-------------------------------------------------------------------------------
(* prepareTextForSentenceChunking: one line, single spaces, an end to the last sentence, and *)
(* for a text without CJK a capital and, when it is short, spaces in front.                  *)
SingleSpaces(str) ==
  LET line == [i \in DOMAIN str |-> IF SpaceByte(str[i]) THEN <<" ", 1>> ELSE str[i]]
      kept == SelectSeq([i \in DOMAIN line |-> i], LAMBDA i : i = 1 \/ ~(SpaceByte(line[i]) /\ SpaceByte(line[i - 1])))
  IN [j \in DOMAIN kept |-> line[kept[j]]]

prepareTextForSentenceChunking(text) ==
  LET str == SingleSpaces(TrimSpace(text))
      runes == Runes(str)
      capital == IF runes[1] \in DOMAIN Upper THEN <<Upper[runes[1]]>> \o Tail(runes) ELSE runes
      ended == IF Last(runes) \in Alphanumeric THEN Append(capital, ".") ELSE capital
  IN IF str = <<>> THEN <<>>
     ELSE IF ContainsCJK(str) THEN IF Last(runes) \in SentenceEnd THEN str ELSE str \o Bytes(<<"jv">>)
     ELSE IF Words(Bytes(ended)) < 5 THEN Bytes([i \in 1..8 |-> " "] \o ended) ELSE Bytes(ended)

(* splitTextByPunctuation: a mark ends a sentence together with the closing marks that *)
(* follow it; the spaces after them are skipped.                                       *)
RECURSIVE SplitFrom(_, _, _)
SplitFrom(runes, current, marks) ==
  LET sentence(s) == IF TrimSpace(Bytes(s)) = <<>> THEN <<>> ELSE <<TrimSpace(Bytes(s))>>
      after == CHOOSE n \in 0..Len(Tail(runes)) :
                 /\ \A i \in 1..n : Tail(runes)[i] \in Closing
                 /\ n < Len(Tail(runes)) => Tail(runes)[n + 1] \notin Closing
      rest == SubSeq(Tail(runes), after + 1, Len(Tail(runes)))
      solid == {i \in DOMAIN rest : rest[i] # " "}
  IN IF runes = <<>> THEN sentence(current)
     ELSE IF runes[1] \notin marks THEN SplitFrom(Tail(runes), Append(current, runes[1]), marks)
     ELSE sentence(current \o SubSeq(runes, 1, after + 1))
            \o SplitFrom(IF solid = {} THEN <<>> ELSE SubSeq(rest, Min(solid), Len(rest)), <<>>, marks)

splitTextByPunctuation(str, marks) == SplitFrom(Runes(str), <<>>, marks)

(* joinSentenceParts *)
joinSentenceParts(left, right) ==
  IF ContainsCJK(left) \/ ContainsCJK(right) THEN left \o right ELSE left \o <<<<" ", 1>>>> \o right

-------------------------------------------------------------------------------
(* splitTextByTokenBudget *)

(* The binary search takes the number of tokens to grow with the length of the prefix. *)
RECURSIVE LongestPrefix(_, _, _, _, _)
LongestPrefix(str, max, low, high, best) ==
  LET middle == (low + high) \div 2
      candidate == TrimSpace(SubSeq(str, 1, middle))
  IN IF low > high THEN best
     ELSE IF candidate = <<>> THEN LongestPrefix(str, max, middle + 1, high, best)
     ELSE IF CountTextTokens(candidate) <= max THEN LongestPrefix(str, max, middle + 1, high, middle)
     ELSE LongestPrefix(str, max, low, middle - 1, best)

(* A single byte is taken for a rune: full-width marks are never found. *)
Boundary(b) == b[1] \notin Wide /\ b[1] \in ClauseSplit \cup SentenceEnd \cup {" "}

GoodIndex(str, best) ==
  LET good == {i \in 1..best : i > best - ScanBack /\ Boundary(str[i])}
      cut == IF good = {} THEN best ELSE Max(good)
  IN IF TrimSpace(SubSeq(str, 1, cut)) = <<>> THEN best ELSE cut

CutIndex(str, max) == GoodIndex(str, LongestPrefix(str, max, 1, Len(str), 1))

(* Mutant of BudgetPieces: the rest begins one byte too late. *)
RECURSIVE BudgetPiecesSkip(_, _)
BudgetPiecesSkip(str, max) ==
  LET cut == CutIndex(str, max)
  IN IF str = <<>> THEN <<>>
     ELSE IF CountTextTokens(str) <= max THEN <<str>>
     ELSE <<TrimSpace(SubSeq(str, 1, cut))>> \o BudgetPiecesSkip(TrimSpace(SubSeq(str, cut + 2, Len(str))), max)

RECURSIVE BudgetPieces(_, _)
BudgetPieces(str, max) ==
  LET cut == CutIndex(str, max)
  IN IF str = <<>> THEN <<>>
     ELSE IF CountTextTokens(str) <= max THEN <<str>>
     ELSE <<TrimSpace(SubSeq(str, 1, cut))>> \o BudgetPieces(TrimSpace(SubSeq(str, cut + 1, Len(str))), max)

splitTextByTokenBudget(text, max) == BudgetPieces(TrimSpace(text), max)

-------------------------------------------------------------------------------
(* SplitVoiceCloneText *)

ClausePieces(clause, max) ==
  IF CountTextTokens(clause) <= max THEN <<clause>>
  ELSE SelectSeq(splitTextByTokenBudget(clause, max), LAMBDA p : p # <<>>)

SentencePieces(sentence, max) ==
  LET clauses == splitTextByPunctuation(sentence, ClauseSplit)
      parts == IF Len(clauses) <= 1 THEN <<sentence>> ELSE clauses
  IN IF CountTextTokens(sentence) <= max THEN <<sentence>>
     ELSE FoldLeft(LAMBDA pieces, c : pieces \o ClausePieces(c, max), <<>>, parts)

Slices(prepared, max) ==
  FoldLeft(LAMBDA slices, s : slices \o SentencePieces(s, max), <<>>, splitTextByPunctuation(prepared, SentenceEnd))

(* Chunks grow while the sum of the two counts fits; the joined text is counted anew, but *)
(* only for the next comparison.                                                          *)
Merge(slices, max) ==
  FoldLeft(LAMBDA chunks, s :
             IF chunks = <<>> THEN <<s>>
             ELSE IF CountTextTokens(Last(chunks)) + CountTextTokens(s) > max THEN Append(chunks, s)
             ELSE Append(Front(chunks), joinSentenceParts(Last(chunks), s)),
           <<>>, slices)

(* A text that stays in one chunk is returned as it came, without the preparation. *)
SplitVoiceCloneText(text, maxTokens) ==
  LET str == TrimSpace(text)
      chunks == Merge(Slices(prepareTextForSentenceChunking(str), Max({1, maxTokens})), Max({1, maxTokens}))
  IN IF str = <<>> THEN <<>> ELSE IF Len(chunks) > 1 THEN chunks ELSE <<str>>
=============================================================================
