---------------------------- MODULE ProtectedSpans ----------------------------
(***************************************************************************)
(* How the normalizer keeps addresses, names and file names as they are    *)
(* (protectSpans and restoreSpans, src/pkg/normalizer/robust.go): a span   *)
(* that must not change is replaced by a placeholder with its number,      *)
(* kind after kind of span, and put back at the end.                       *)
(*                                                                         *)
(* A text is a sequence of symbols: "w" is a letter, "U" the start of an   *)
(* address, which goes on to the next space, and Names[n] is the           *)
(* placeholder of the n-th span, in the code a name between underscores.   *)
(* Left out are the patterns for "u/name" and for mail addresses, which    *)
(* need more letters than the texts here have.                             *)
(***************************************************************************)
EXTENDS Naturals, SequencesExt, FiniteSetsExt

Names == <<"P1", "P2", "P3", "P4", "P5">>
Placeholder(x) == x \in ToSet(Names)
WordChars == {"w"} \cup ToSet(Names)
Symbols == WordChars \cup {"U", "@", "#", ".", " "}

(* How far from start the text goes on with these symbols. *)
Longest(text, start, symbols) ==
  Max({e \in start..Len(text) : \A i \in (start + 1)..e : text[i] \in symbols})

(* Where a match of a pattern that starts at i ends, or 0. *)
UrlEnd(text, i) == IF text[i] = "U" THEN Longest(text, i, Symbols \ {" "}) ELSE 0
NameEnd(text, i) ==
  LET e == Longest(text, i, WordChars) IN IF text[i] = "@" /\ e > i THEN e ELSE 0
TagEnd(text, i) ==
  LET e == Longest(text, i, Symbols \ {" ", "#"}) IN IF text[i] = "#" /\ e > i THEN e ELSE 0

(* A run of letters, dots and placeholders, cut back to its last letter. *)
RunEnd(text, i) ==
  LET run == Longest(text, i, WordChars \cup {"."})
  IN Max({i} \cup {j \in i..run : text[j] # "."})
DotEnd(text, i) == IF text[i] = "." /\ RunEnd(text, i) > i THEN RunEnd(text, i) ELSE 0
FileEnd(text, i) == IF text[i] \in WordChars /\ RunEnd(text, i) > i THEN RunEnd(text, i) ELSE 0

Kinds == <<"url", "name", "tag", "dot", "file">>

End(kind, text, i) ==
  CASE kind = "url" -> UrlEnd(text, i) [] kind = "name" -> NameEnd(text, i)
    [] kind = "tag" -> TagEnd(text, i) [] kind = "dot" -> DotEnd(text, i)
    [] kind = "file" -> FileEnd(text, i)

(* But for an address, a match that touches a word character stays as it is; a run touches *)
(* the underscores of a placeholder at its end.                                            *)
Touched(text, i, e) == (i > 1 /\ text[i - 1] \in WordChars) \/ (e < Len(text) /\ text[e + 1] \in WordChars)
CutsPlaceholder(text, i, e) == Placeholder(text[i]) \/ Placeholder(text[e])

Accept(kind, text, i, e) ==
  /\ kind # "url" => ~Touched(text, i, e)
  /\ kind \in {"dot", "file"} => ~CutsPlaceholder(text, i, e)
  /\ kind = "file" => \E j \in i..e : text[j] = "."

(* One pattern over the text, from left to right: matches do not overlap. *)
RECURSIVE ReplaceFrom(_, _, _, _)
ReplaceFrom(kind, text, i, protected) ==
  LET e == End(kind, text, i)
      rest(from, spans) == ReplaceFrom(kind, text, from, spans)
      before(symbols, r) == [r EXCEPT !.text = symbols \o @]
  IN IF i > Len(text) THEN [text |-> <<>>, protected |-> protected]
     ELSE IF e = 0 THEN before(<<text[i]>>, rest(i + 1, protected))
     ELSE IF ~Accept(kind, text, i, e) THEN before(SubSeq(text, i, e), rest(e + 1, protected))
     ELSE before(<<Names[Len(protected) + 1]>>, rest(e + 1, Append(protected, SubSeq(text, i, e))))

(* Mutant of protectSpans: every kind of span counts from the start. *)
protectSpansRecount(text) ==
  FoldLeft(LAMBDA t, kind : LET r == ReplaceFrom(kind, t.text, 1, <<>>)
                            IN [text |-> r.text, protected |-> t.protected \o r.protected],
           [text |-> text, protected |-> <<>>], Kinds)

protectSpans(text) ==
  FoldLeft(LAMBDA t, kind : ReplaceFrom(kind, t.text, 1, t.protected),
           [text |-> text, protected |-> <<>>], Kinds)

(* The spans are put back in the order of their numbers, each wherever it occurs by then. *)
restoreSpans(text, protected) ==
  FoldLeft(LAMBDA t, n : FlattenSeq([i \in DOMAIN t |-> IF t[i] = Names[n] THEN protected[n] ELSE <<t[i]>>]),
           text, [n \in DOMAIN protected |-> n])

(* A span has another one inside. *)
Nested(protected) == \E n \in DOMAIN protected : \E x \in ToSet(protected[n]) : Placeholder(x)
=============================================================================
