------------------------------ MODULE Tokenizer ------------------------------
(***************************************************************************)
(* The tokenizer (src/pkg/tokenizer/tokenizer.go): Encode finds the        *)
(* segmentation of a text with the best sum of scores by dynamic           *)
(* programming, Decode puts tokens together again.                         *)
(*                                                                         *)
(* A text is a sequence of runes, a rune a string that names it; "_" is    *)
(* U+2581, which stands for a space.  A piece of the vocabulary is a       *)
(* record of its text, its score and its type; the byte piece of a rune r  *)
(* has the text <<"<0x>", r>>, which no text of the model contains.        *)
(* Scores are integers.  A token is an index into Vocab.  The reading of   *)
(* the model file (protocol buffers) is left out but for its result.       *)
(***************************************************************************)
EXTENDS Integers, SequencesExt, FiniteSetsExt

CONSTANTS
  Vocab,     \* Processor.Pieces
  Window,    \* the longest piece Encode looks for (64 runes)
  Halfwidth, \* normalizeNFKC: [full-width runes -> runes]
  Ascii,     \* runes below 0x80 ...
  Latin1     \* ... and from there to 0xFF

Ids == 1..Len(Vocab)
None == 0
NegInf == -1000000

(* pieceToID: of pieces with the same text the last one counts. *)
pieceToID ==
  [text \in {Vocab[id].text : id \in Ids} |-> Max({id \in Ids : Vocab[id].text = text})]

PieceToID(text) == IF text \in DOMAIN pieceToID THEN pieceToID[text] ELSE None

(* The first unknown piece, but for the first piece of all, which counts as none given yet. *)
UnkID ==
  LET unknown == {id \in Ids : Vocab[id].type = "unknown"} \ {1} IN IF unknown = {} THEN 1 ELSE Min(unknown)

normalizeNFKC(text) == [i \in DOMAIN text |-> IF text[i] \in DOMAIN Halfwidth THEN Halfwidth[text[i]] ELSE text[i]]

Normalized(text) ==
  <<"_">> \o [i \in DOMAIN text |-> IF normalizeNFKC(text)[i] = " " THEN "_" ELSE normalizeNFKC(text)[i]]

(* The pieces that begin after i runes of s: where they end, and their scores. *)
Matches(s, i) ==
  LET id(e) == PieceToID(SubSeq(s, i + 1, e))
      spells(e) == id(e) # None /\ Vocab[id(e)].type \in {"normal", "user", "byte"}
  IN {[from |-> i, to |-> e, id |-> id(e), score |-> Vocab[id(e)].score] :
        e \in {e \in (i + 1)..Min({i + Window, Len(s)}) : spells(e)}}

(* One rune, where no piece begins: its byte piece, or the unknown one. *)
Fallback(r) ==
  LET id == IF r \in Ascii \cup Latin1 THEN PieceToID(<<"<0x>", r>>) ELSE None
  IN IF id = None THEN UnkID ELSE id

(* The steps of a segmentation; a fallback is free. *)
StepsFrom(s, i) ==
  IF Matches(s, i) # {} THEN Matches(s, i)
  ELSE {[from |-> i, to |-> i + 1, id |-> Fallback(s[i + 1]), score |-> 0]}

Steps(s) == UNION {StepsFrom(s, i) : i \in 0..(Len(s) - 1)}

(* Mutant of Relax: the best piece that ends here is taken, whatever comes before it. *)
RelaxGreedily(steps, dp) ==
  LET into == {x \in steps : x.to = Len(dp) /\ dp[x.from + 1].score # NegInf}
      best == CHOOSE x \in into : \A y \in into : y.score < x.score \/ (y.score = x.score /\ x.from <= y.from)
  IN IF into = {} THEN [at |-> Len(dp), score |-> NegInf, back |-> -1, id |-> None]
     ELSE [at |-> Len(dp), score |-> dp[best.from + 1].score + best.score, back |-> best.from, id |-> best.id]

(* dp, back and pieceID for one more position: dp[k + 1] is about the first k runes.  An *)
(* equal score does not replace an earlier one.                                          *)
Relax(steps, dp) ==
  LET into == {x \in steps : x.to = Len(dp) /\ dp[x.from + 1].score # NegInf}
      score(x) == dp[x.from + 1].score + x.score
      best == CHOOSE x \in into : \A y \in into : score(y) < score(x) \/ (score(y) = score(x) /\ x.from <= y.from)
  IN IF into = {} THEN [at |-> Len(dp), score |-> NegInf, back |-> -1, id |-> None]
     ELSE [at |-> Len(dp), score |-> score(best), back |-> best.from, id |-> best.id]

Origin == [at |-> 0, score |-> 0, back |-> -1, id |-> None]

Viterbi(s) ==
  LET steps == Steps(s) IN FoldLeft(LAMBDA dp, r : Append(dp, Relax(steps, dp)), <<Origin>>, s)

(* From the end back to the start. *)
Backtrack(dp) ==
  FoldRight(LAMBDA cell, acc : IF cell.at = acc.pos /\ cell.id # None
                               THEN [pos |-> cell.back, ids |-> <<cell.id>> \o acc.ids] ELSE acc,
            dp, [pos |-> Len(dp) - 1, ids |-> <<>>]).ids

Encode(text) == IF text = <<>> THEN <<>> ELSE Backtrack(Viterbi(Normalized(text)))

CountTokens(text) == Len(Encode(text))

IsSpace(r) == r = " "

TrimRunes(s) ==
  LET solid == {i \in DOMAIN s : ~IsSpace(s[i])}
  IN IF solid = {} THEN <<>> ELSE SubSeq(s, Min(solid), Max(solid))

(* What a token adds to the text.  A byte piece adds nothing: its first four characters are *)
(* compared with the three of "<0x", and are never equal.                                   *)
Spelling(id) ==
  IF Vocab[id].type \in {"control", "byte"} THEN <<>>
  ELSE [i \in DOMAIN Vocab[id].text |-> IF Vocab[id].text[i] = "_" THEN " " ELSE Vocab[id].text[i]]

Decode(ids) == TrimRunes(FlattenSeq([i \in DOMAIN ids |-> Spelling(ids[i])]))

-------------------------------------------------------------------------------
(* References *)

(* The segmentations of s, each as the set of positions at which a token ends; and the sum *)
(* of the scores of one.                                                                  *)
Ending(cuts, i) == Min({e \in cuts : e > i})

Segmentations(s) ==
  LET steps == Steps(s)
      joined(i, e) == \E x \in steps : x.from = i /\ x.to = e
  IN {cuts \in SUBSET (0..Len(s)) :
        {0, Len(s)} \subseteq cuts /\ \A i \in cuts \ {Len(s)} : joined(i, Ending(cuts, i))}

ScoreOf(s, cuts) ==
  LET steps == Steps(s)
  IN MapThenSumSet(LAMBDA i : (CHOOSE x \in steps : x.from = i /\ x.to = Ending(cuts, i)).score, cuts \ {Len(s)})

(* The width of a token in runes. *)
Span(id) == IF id = UnkID \/ Vocab[id].type = "byte" THEN 1 ELSE Len(Vocab[id].text)

Ends(ids) == {0} \cup {FoldLeft(+, 0, [j \in 1..k |-> Span(ids[j])]) : k \in DOMAIN ids}
=============================================================================
