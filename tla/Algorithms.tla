------------------------------ MODULE Algorithms ------------------------------
(***************************************************************************)
(* The pure parts of the program on bounded inputs: each behaviour takes   *)
(* one task and computes its answer in a step.  The properties compare the *)
(* answers with definitions that do not follow the code.                   *)
(***************************************************************************)
EXTENDS TextChunks, Pcg64, Sampling, ProtectedSpans, Waveform

CONSTANTS
  Texts,      \* texts to tokenize: sequences of runes
  Passages,   \* texts to split
  Limits,     \* values of maxTokens
  Doubles,    \* pairs of words for the arithmetic
  Seeds,      \* pairs of words a generator starts with
  Scores,     \* sequences of scores to sample from
  Nuclei,     \* values of topP: fractions <<p, q>>
  Logits,     \* sequences of even scores to penalize
  Histories,  \* sequences of previous tokens
  Lines,      \* texts with spans to protect
  Waves       \* waveforms

VARIABLES
  task,
  answer  \* <<>>, or the sequence of the one answer

Encoding == [kind : {"encode"}, text : Texts]
Splitting == [kind : {"split"}, text : Passages, limit : Limits]
Arithmetic == [kind : {"arithmetic"}, a : Doubles, b : Doubles]
Drawing == [kind : {"draw"}, state : Seeds, seq : Seeds]
Choosing == [kind : {"sample"}, scores : Scores, topK : 0..3, p : Nuclei]
Penalizing == [kind : {"penalize"}, scores : Logits, previous : Histories]
Protecting == [kind : {"protect"}, text : Lines]
Trimming == [kind : {"trim"}, wave : Waves]

Init ==
  /\ \/ task \in Encoding \/ task \in Splitting \/ task \in Arithmetic \/ task \in Drawing
     \/ task \in Choosing \/ task \in Penalizing \/ task \in Protecting \/ task \in Trimming
  /\ answer = <<>>

Answer(value) == answer = <<>> /\ answer' = <<value>> /\ UNCHANGED task

EncodeText == task.kind = "encode" /\ Answer(Encode(task.text))

SplitText == task.kind = "split" /\ Answer(SplitVoiceCloneText(Bytes(task.text), task.limit))

Compute ==
  /\ task.kind = "arithmetic"
  /\ LET a == task.a b == task.b IN
       Answer([sum |-> add128mod(a[1], a[2], b[1], b[2]),
                             product |-> mul128mod(a[1], a[2], b[1], b[2])])

(* All the states of the generator until one comes back. *)
Draw ==
  /\ task.kind = "draw"
  /\ Answer(LET inc == Increment(task.seq) IN Orbit(Start(task.state, inc), inc, B * B))

(* The choice for every one of as many random numbers as the weights add up to: rng.Float64 *)
(* may be 0 and is less than 1.                                                             *)
Sample ==
  /\ task.kind = "sample"
  /\ LET kept == KeepNucleus(KeepTop(task.scores, task.topK), task.p)
         n == Total(kept, DOMAIN kept)
     IN Answer([k \in 1..n |-> SampleFromScores(task.scores, task.topK, task.p, k - 1, n)])

Penalize ==
  /\ task.kind = "penalize"
  /\ Answer([sampled |-> Argmax(ApplyRepetitionPenalty(task.scores, task.previous)),
             greedy |-> ArgmaxWithRepetitionPenalty(task.scores, ToSet(task.previous))])

Protect == task.kind = "protect" /\ Answer(protectSpans(task.text))

Trim == task.kind = "trim" /\ Answer(TrimTrailingSilence(task.wave))

Next == EncodeText \/ SplitText \/ Compute \/ Draw \/ Sample \/ Penalize \/ Protect \/ Trim

Spec == Init /\ [][Next]_<<task, answer>>

Answered(kind) == task.kind = kind /\ answer # <<>>

Given == answer[1]

-------------------------------------------------------------------------------
(* Properties *)

(* The tokens of a text follow one another without a gap from its start to its end, and no *)
(* segmentation of the text has a better sum of scores (Encode's search, position by       *)
(* position, against all segmentations).                                                   *)
BestSegmentation ==
  Answered("encode") /\ task.text # <<>> =>
    LET s == Normalized(task.text)
    IN /\ Ends(Given) \in Segmentations(s)
       /\ \A cuts \in Segmentations(s) : ScoreOf(s, cuts) <= ScoreOf(s, Ends(Given))

(* Decode gives back the text, with full-width marks narrowed and without the spaces around *)
(* it, when pieces of the vocabulary spell all of it.                                       *)
RoundTrip ==
  Answered("encode") /\ (\A id \in ToSet(Given) : Vocab[id].type \in {"normal", "user"}) =>
    Decode(Given) = TrimRunes(normalizeNFKC(task.text))

(* Encode finds the tokens that score best, and Decode the text they came from. *)
TokensSpellText == BestSegmentation /\ RoundTrip

Solid(str) == SelectSeq(str, LAMBDA b : ~SpaceByte(b))

(* A text is spoken completely: whatever the limit and wherever the search cuts, the chunks *)
(* together are the prepared text but for spaces, in order; a text that is not cut comes    *)
(* back as it was (SplitVoiceCloneText).                                                    *)
ChunksKeepText ==
  Answered("split") =>
    LET str == TrimSpace(Bytes(task.text))
    IN IF Len(Given) <= 1 THEN Given = IF str = <<>> THEN <<>> ELSE <<str>>
       ELSE Solid(FlattenSeq(Given)) = Solid(prepareTextForSentenceChunking(str))

(* Sums and products of two words are those of the numbers they stand for. *)
WordsAreWide ==
  Answered("arithmetic") =>
    LET a == Value(task.a[1], task.a[2]) b == Value(task.b[1], task.b[2])
    IN /\ Value(Given.sum[1], Given.sum[2]) = (a + b) % (B * B)
       /\ Value(Given.product[1], Given.product[2]) = (a * b) % (B * B)

(* From every seed the generator runs through all its states, and puts out every word *)
(* equally often.                                                                     *)
FullPeriod ==
  Answered("draw") =>
    /\ Cardinality(ToSet(Given)) = B * B
    /\ \A w \in Word : Cardinality({i \in DOMAIN Given : Output(Given[i]) = w}) = B

(* The arithmetic in two words is exact and loses nothing of the period. *)
GeneratorIsFull == WordsAreWide /\ FullPeriod

(* The tokens that stay in the choice: those among the topK, equals included, unless those *)
(* before them have more than topP of the probability.                                     *)
Nucleus(s, topK, p) ==
  LET top == IF topK = 0 THEN DOMAIN s
             ELSE {i \in DOMAIN s : Cardinality({j \in DOMAIN s : s[j] > s[i]}) < topK}
      before(i) == Total(s, {j \in top : Before(s, j, i)})
  IN IF p[1] = 0 THEN top ELSE {i \in top : before(i) * p[2] <= p[1] * Total(s, top)}

(* Each token that stays is chosen as often as its weight says, but for one number at either *)
(* end: at 0 the code takes the first index, and 1, where the last would be taken, is never  *)
(* drawn.  At any other number a token that was removed is not chosen.                       *)
SamplingFollowsWeights ==
  Answered("sample") =>
    LET nucleus == Nucleus(task.scores, task.topK, task.p)
        share(i) == IF i \in nucleus THEN Weight(task.scores[i]) ELSE 0
        one(test) == IF test THEN 1 ELSE 0
    IN /\ \A k \in DOMAIN Given \ {1} : Given[k] \in nucleus
       /\ \A i \in DOMAIN task.scores :
            Cardinality({k \in DOMAIN Given : Given[k] = i}) = (share(i) + one(i = 1)) - one(i = Max(nucleus))

(* Greedy decoding, which penalizes while it looks for the greatest score, and sampling, which *)
(* penalizes a copy first, agree on what a repetition costs, whatever the history contains.    *)
PenaltiesAgree == Answered("penalize") => Given.sampled = Given.greedy

(* A token is chosen as its score, the penalty and the bounds of the request say. *)
ChoiceFollowsScores == SamplingFollowsWeights /\ PenaltiesAgree

(* Spans that are put away are put back where they were, unless one has gone into another. *)
SpansComeBack ==
  Answered("protect") /\ ~Nested(Given.protected) =>
    restoreSpans(Given.text, Given.protected) = task.text

(* Cutting the end leaves a beginning of the audio, and all sound but that in the incomplete *)
(* window at the end, which is not looked at.                                                *)
TrimKeepsVoice == Answered("trim") => KeepsVoice(task.wave, Given)

-------------------------------------------------------------------------------
(* Five more, which do not hold *)

(* A chunk has no more tokens than the limit, unless it is one byte (SplitVoiceCloneText adds *)
(* the counts of two parts, ttsruntime.go:206, and a joined text may need more tokens: its    *)
(* right part no longer begins a word; nor is a prefix counted again when the cut is moved    *)
(* back to a mark, ttsruntime.go:277).                                                        *)
ChunksFit ==
  Answered("split") /\ Len(Given) > 1 =>
    \A i \in DOMAIN Given : CountTextTokens(Given[i]) <= task.limit \/ Len(Given[i]) = 1

(* A token that topK or topP has removed is not chosen (at the random number 0,              *)
(* sampler.go:151 returns the first index, whatever its probability).                        *)
RemovedStaysOut ==
  Answered("sample") => ToSet(Given) \subseteq Nucleus(task.scores, task.topK, task.p)

(* A rune that Encode turned into its byte piece comes back too (Decode writes the byte, *)
(* tokenizer.go:317, under a condition that is never true).                              *)
BytesComeBack ==
  Answered("encode") /\ UnkID \notin ToSet(Given) /\ ToSet(task.text) \cap Latin1 = {} =>
    Decode(Given) = TrimRunes(normalizeNFKC(task.text))

(* restoreSpans undoes protectSpans (restoreSpans puts the spans back in the order in which *)
(* they were put away, so that one that has gone into a later one stays a placeholder).     *)
RestoreInverts == Answered("protect") => restoreSpans(Given.text, Given.protected) = task.text

(* No chunk begins or ends inside a rune (splitTextByTokenBudget cuts between bytes). *)
RunesStayWhole == Answered("split") => \A i \in DOMAIN Given : "bad" \notin ToSet(Runes(Given[i]))
=============================================================================
