-------------------------- MODULE FrameStreamProofs --------------------------
(***************************************************************************)
(* Proofs about FrameStream, for every number of pieces and of frames, any *)
(* pace of the listener and any failures: tensors live exactly as long as  *)
(* they are read, the codec and the context carry on from one piece and    *)
(* batch to the next, and no frame is lost.                                *)
(*                                                                         *)
(* The audio is followed from item to item: each begins where the one      *)
(* before it ended (Tiled), and the last one ends as far as the codec was  *)
(* fed (Until).  That the place stays right while a piece is still spoken  *)
(* rests on frames being only added (Longer); that it is the end of the    *)
(* text, when the channel closes, on the codec having had all the frames   *)
(* of a piece before it is reset (Fed).  Facts about the current piece are *)
(* stated for every piece p that equals it, so that the piece is the same  *)
(* on both sides of a step.                                                *)
(*                                                                         *)
(* Then: whatever fails and is cancelled, the synthesis implements Speech. *)
(*                                                                         *)
(* The last parts are about pure steps of a synthesis, for every input:    *)
(* the words a random number is drawn from (DoubleWords), the tokens a     *)
(* frame is chosen from (Sampling) and the end of the audio (Waveform).    *)
(***************************************************************************)
EXTENDS FrameStream, DoubleWords, Sampling, Waveform, FiniteSetTheorems, SequenceTheorems,
        WellFoundedInduction, TLAPS

Labels == {"piece", "prefill", "step", "callback", "send", "decode", "free", "generated",
           "sendlast", "pause", "batch", "last", "end"}

Items == [piece : PieceNo, pause : BOOLEAN, after : Nat, frames : Seq(Codes), seed : BOOLEAN]

----------------------------------------------------------------------------
(* Sequences *)

(* The smaller of two numbers. *)
LEMMA MinTwo ==
  ASSUME NEW a \in Nat, NEW b \in Nat
  PROVE  Min({a, b}) = IF a <= b THEN a ELSE b
<1> DEFINE m == IF a <= b THEN a ELSE b
<1>1. m \in {a, b} /\ \A y \in {a, b} : m <= y
  OBVIOUS
<1>2. \A x \in {a, b} : (\A y \in {a, b} : x <= y) => x = m
  OBVIOUS
<1> HIDE DEF m
<1>3. Min({a, b}) = m
  BY <1>1, <1>2 DEF Min
<1> QED
  BY <1>3 DEF m

(* The end of a sequence is no longer than was asked for. *)
LEMMA LastOfType ==
  ASSUME NEW s \in Seq(Codes), NEW n \in Nat
  PROVE  /\ LastOf(s, n) \in Seq(Codes)
         /\ Len(LastOf(s, n)) <= n
<1>1. Min({n, Len(s)}) = IF n <= Len(s) THEN n ELSE Len(s)
  BY MinTwo
<1> DEFINE m == Min({n, Len(s)})
<1>2. m \in Nat /\ m <= n /\ m <= Len(s)
  BY <1>1
<1> HIDE DEF m
<1>3. SubSeq(s, Len(s) - m + 1, Len(s)) \in Seq(Codes)
      /\ Len(SubSeq(s, Len(s) - m + 1, Len(s))) = m
  BY <1>2, SubSeqProperties
<1> QED
  BY <1>2, <1>3 DEF LastOf, m

(* Nothing does not repeat. *)
LEMMA FrozenEmpty == ~Frozen(<<>>)
  BY FrameAssumption DEF Frozen

(* The first n elements of t move from t to the end of s. *)
LEMMA Moved ==
  ASSUME NEW s \in Seq(Codes), NEW t \in Seq(Codes), NEW n \in 0..Len(t)
  PROVE  /\ SubSeq(t, 1, n) \in Seq(Codes) /\ SubSeq(t, n + 1, Len(t)) \in Seq(Codes)
         /\ Len(SubSeq(t, 1, n)) = n
         /\ s \o SubSeq(t, 1, n) \in Seq(Codes)
         /\ Len(s \o SubSeq(t, 1, n)) = Len(s) + n
         /\ (s \o SubSeq(t, 1, n)) \o SubSeq(t, n + 1, Len(t)) = s \o t
         /\ SubSeq(s \o SubSeq(t, 1, n), Len(s) + 1, Len(s) + n) = SubSeq(t, 1, n)
<1> DEFINE a == SubSeq(t, 1, n)  b == SubSeq(t, n + 1, Len(t))
<1>1. a \in Seq(Codes) /\ Len(a) = n /\ \A i \in 1..n : a[i] = t[i]
  BY SubSeqProperties
<1>2. b \in Seq(Codes) /\ Len(b) = Len(t) - n /\ \A i \in 1..(Len(t) - n) : b[i] = t[n + i]
  BY SubSeqProperties
<1> HIDE DEF a, b
<1>3. /\ s \o a \in Seq(Codes) /\ Len(s \o a) = Len(s) + n
      /\ \A i \in 1..(Len(s) + n) : (s \o a)[i] = IF i <= Len(s) THEN s[i] ELSE a[i - Len(s)]
  BY <1>1, ConcatProperties
<1> DEFINE c == s \o a
<1> HIDE DEF c
<1>4. c \o b = s \o t
  <2>1. /\ c \o b \in Seq(Codes) /\ Len(c \o b) = Len(s) + Len(t)
        /\ \A i \in 1..(Len(s) + Len(t)) :
             (c \o b)[i] = IF i <= Len(s) + n THEN c[i] ELSE b[i - (Len(s) + n)]
    <3>1. c \in Seq(Codes) /\ Len(c) = Len(s) + n
      BY <1>3 DEF c
    <3>2. /\ c \o b \in Seq(Codes) /\ Len(c \o b) = Len(c) + Len(b)
          /\ \A i \in 1..(Len(c) + Len(b)) :
               (c \o b)[i] = IF i <= Len(c) THEN c[i] ELSE b[i - Len(c)]
      BY <1>2, <3>1, ConcatProperties
    <3>3. Len(c) + Len(b) = Len(s) + Len(t)
      BY <1>2, <3>1
    <3> QED
      BY <3>1, <3>2, <3>3
  <2>2. /\ s \o t \in Seq(Codes) /\ Len(s \o t) = Len(s) + Len(t)
        /\ \A i \in 1..(Len(s) + Len(t)) :
             (s \o t)[i] = IF i <= Len(s) THEN s[i] ELSE t[i - Len(s)]
    BY ConcatProperties
  <2>3. ASSUME NEW i \in 1..(Len(s) + Len(t)) PROVE (c \o b)[i] = (s \o t)[i]
    <3>1. CASE i <= Len(s)
      BY <3>1, <1>3, <2>1, <2>2 DEF c
    <3>2. CASE i > Len(s) /\ i <= Len(s) + n
      <4>1. i - Len(s) \in 1..n
        BY <3>2
      <4> QED
        BY <3>2, <4>1, <1>1, <1>3, <2>1, <2>2 DEF c
    <3>3. CASE i > Len(s) + n
      <4>1. i - (Len(s) + n) \in 1..(Len(t) - n)
        BY <3>3
      <4>2. b[i - (Len(s) + n)] = t[n + (i - (Len(s) + n))]
        BY <4>1, <1>2
      <4>3. n + (i - (Len(s) + n)) = i - Len(s)
        OBVIOUS
      <4> QED
        BY <3>3, <4>2, <4>3, <2>1, <2>2
    <3>4. i <= Len(s) \/ (i > Len(s) /\ i <= Len(s) + n) \/ i > Len(s) + n
      OBVIOUS
    <3> QED
      BY ONLY <3>1, <3>2, <3>3, <3>4
  <2> QED
    BY <2>1, <2>2, <2>3, SeqEqual
<1>5. SubSeq(c, Len(s) + 1, Len(s) + n) = a
  BY <1>1, <1>2, <1>3, SubSeqProperties, SeqEqual DEF c
<1> QED
  BY <1>1, <1>2, <1>3, <1>4, <1>5 DEF a, b, c

(* Elements at the end of a sequence. *)
LEMMA AppendSome ==
  ASSUME NEW s \in Seq(Codes), NEW f \in Codes
  PROVE  Append(s, f) # <<>>
  BY AppendProperties

LEMMA AppendAssoc ==
  ASSUME NEW S, NEW s \in Seq(S), NEW t \in Seq(S), NEW f \in S
  PROVE  s \o Append(t, f) = Append(s \o t, f)
  BY SeqEqual, ConcatProperties, AppendProperties

LEMMA FrontAppend ==
  ASSUME NEW s \in Seq(Codes), NEW f \in Codes
  PROVE  Front(Append(s, f)) = s
  BY SubSeqProperties, AppendProperties, SeqEqual DEF Front

(* Part of the beginning of a sequence that goes on. *)
LEMMA Beginning ==
  ASSUME NEW s \in Seq(Codes), NEW t \in Seq(Codes),
         NEW i \in 1..(Len(s) + 1), NEW j \in 0..Len(s)
  PROVE  SubSeq(s \o t, i, j) = SubSeq(s, i, j)
  BY SeqEqual, ConcatProperties, SubSeqProperties

----------------------------------------------------------------------------
(* The invariant *)

(* The values of the variables. *)
Typed ==
  /\ stream \in BOOLEAN /\ pc \in Labels /\ piece \in PieceNo
  /\ gen \in [PieceNo -> Seq(Codes)] /\ context \in [PieceNo -> Seq(Codes)]
  /\ tail \in Seq(Codes) /\ valley \in BOOLEAN
  /\ \A p \in PieceNo : Len(gen[p]) <= MaxNewFrames /\ Len(context[p]) <= ContextFrames
  /\ Len(tail) <= ContextFrames
  /\ past \in Nat /\ held \in BOOLEAN /\ again \in BOOLEAN
  /\ pending \in Seq(Codes) /\ started \in BOOLEAN /\ fed \in Seq(Codes) /\ wave \in Items
  /\ chan \in Seq(Items) /\ heard \in Seq(Items) /\ (stream => Len(chan) <= Capacity)
  /\ closed \in BOOLEAN /\ left \in BOOLEAN /\ cancelled \in BOOLEAN
  /\ faults \in 0..MaxFaults

(* Where a stream and a plain synthesis may be, and what the last labels say. *)
FlowInv ==
  /\ pc \in {"callback", "send", "sendlast", "pause"} => stream
  /\ pc = "batch" => ~stream
  /\ closed <=> pc = "end"
  /\ ~stream /\ ~closed => heard = <<>>
  /\ pc = "last" => piece = Pieces
  /\ pc = "end" /\ ~cancelled => piece = Pieces

(* Later pieces are empty, and generation goes on only while the last frames differ. *)
GenInv ==
  /\ \A p \in PieceNo : p > piece => gen[p] = <<>>
  /\ \A p \in PieceNo : p = piece =>
       /\ pc \in {"piece", "prefill"} => gen[p] = <<>>
       /\ pc \in {"step", "callback", "send", "decode"} => ~Frozen(gen[p])
       /\ pc = "callback" => gen[p] # <<>>

(* What the codec was fed and what waits for it are the frames of piece p: while a stream's  *)
(* frames are called back, when the last of them is through, and between two batches.       *)
CallingBack ==
  /\ stream
  /\ pc \in {"prefill", "step", "callback", "send", "decode", "free", "generated"}
  /\ pc = "generated" => ~cancelled

Fed(p) ==
  /\ CallingBack => fed \o pending = Spoken(p)
  /\ pc \in {"sendlast", "pause"} => fed = Spoken(p)
  /\ pc = "batch" => fed \o pending = gen[p]

CodecInv == \A p \in PieceNo : p = piece /\ faults = 0 => Fed(p)

(* The audio that is being sent is that of the last frames the codec was fed. *)
WaveInv ==
  pc \in {"send", "sendlast"} =>
    /\ wave.piece = piece /\ ~wave.pause
    /\ wave.after + Len(wave.frames) = Len(fed)
    /\ wave.frames = SubSeq(fed, wave.after + 1, Len(fed))

(* Item w holds frames of a piece that was begun; a pause follows a piece that is over. *)
Fits(w) ==
  /\ w.piece <= piece /\ (w.pause => w.piece < piece)
  /\ ~w.pause => w.after + Len(w.frames) <= Len(Spoken(w.piece))
  /\ w.frames = Said(w)

(* The items s follow on one another from the beginning of the text. *)
Tiled(s) == \A i \in 1..Len(s) : Fits(s[i]) /\ From(s[i]) = Reached(s, i - 1)

(* How far the audio that was sent must reach in piece p, which is the current one. *)
Until(p) ==
  IF pc \in {"last", "end"} THEN Len(Spoken(p))
  ELSE IF pc \in {"send", "sendlast"} THEN wave.after
  ELSE IF pc = "piece" \/ (~stream /\ pc # "batch") THEN 0
  ELSE Len(fed)

(* Unless it failed or is cancelled, a synthesis has sent all it should have by now. *)
AudioInv ==
  \A s \in Seq(Items), p \in PieceNo :
    s = Everything /\ p = piece /\ faults = 0 /\ ~cancelled =>
      Tiled(s) /\ Reached(s, Len(s)) = <<p, Until(p)>>

(* c is the end of what was last spoken before piece p. *)
EndOf(p, c) ==
  \/ c = <<>> /\ \A q \in PieceNo : q < p => Spoken(q) = <<>>
  \/ \E q \in PieceNo :
       /\ q < p /\ Spoken(q) # <<>> /\ c = LastOf(Spoken(q), ContextFrames)
       /\ \A r \in PieceNo : q < r /\ r < p => Spoken(r) = <<>>

(* Each piece that was begun had the end of what was spoken before as its context. *)
ContextInv ==
  \A p \in PieceNo, c \in Seq(Codes) :
    c = context[p] /\ p <= piece /\ (p = piece => pc \notin {"piece", "end"}) => EndOf(p, c)

(* The tail belongs to piece p before any of its frames is called back, then to the next. *)
OwnTail == pc = "piece" \/ (~stream /\ pc \in {"prefill", "step", "decode", "free", "generated"})

NextTail ==
  \/ stream /\ pc \in {"prefill", "step", "send", "decode", "free", "sendlast", "pause"}
  \/ stream /\ pc = "generated" /\ ~cancelled
  \/ pc = "batch"

TailOf(p, c) == (OwnTail => EndOf(p, c)) /\ (NextTail => EndOf(p + 1, c))

TailInv == \A p \in PieceNo, c \in Seq(Codes) : p = piece /\ c = tail => TailOf(p, c)

IInv ==
  /\ Typed
  /\ FlowInv
  /\ GenInv
  /\ PastLives
  /\ CodecInv
  /\ WaveInv
  /\ AudioInv
  /\ ContextInv
  /\ TailInv

USE DEF genVars, tensorVars, audioVars, outVars, envVars

----------------------------------------------------------------------------
(* Labels, frames of the pieces and the past *)

LEMMA FlowStep ==
  ASSUME IInv, [NextStep]_vars
  PROVE  FlowInv'
<1>1. CASE UNCHANGED <<stream, pc, piece, closed, heard, cancelled>>
  BY <1>1 DEF IInv, FlowInv
<1>2. CASE PieceCancelled
  BY <1>2 DEF IInv, FlowInv, PieceCancelled, Interrupted, Finish
<1>3. CASE Piece
  BY <1>3 DEF IInv, FlowInv, Piece
<1>4. CASE GeneratedCancelled
  BY <1>4 DEF IInv, FlowInv, GeneratedCancelled, Interrupted, Finish
<1>5. CASE Generated
  BY <1>5 DEF IInv, FlowInv, Generated
<1>6. CASE End
  BY <1>6, FrameAssumption DEF IInv, Typed, FlowInv, PieceNo, End
<1>7. CASE PrefillNone
  BY <1>7 DEF IInv, FlowInv, PrefillNone
<1>8. CASE Prefill
  BY <1>8 DEF IInv, FlowInv, Prefill
<1>9. CASE StepCancelled
  BY <1>9 DEF IInv, FlowInv, StepCancelled, FreeAll
<1>10. CASE StepStops
  BY <1>10 DEF IInv, FlowInv, StepStops
<1>11. CASE StepRebounds
  BY <1>11 DEF IInv, FlowInv, StepRebounds
<1>12. ASSUME NEW f \in Codes, NEW pr \in {"none", "low", "high"}, StepFrame(f, pr)
      PROVE  FlowInv'
  BY <1>12 DEF IInv, FlowInv, StepFrame
<1>13. CASE Decode
  BY <1>13 DEF IInv, FlowInv, Decode
<1>14. CASE DecodeFails
  BY <1>14 DEF IInv, FlowInv, DecodeFails
<1>15. CASE Free
  BY <1>15 DEF IInv, FlowInv, Free, FreeAll
<1>16. CASE CallbackWaits
  BY <1>16 DEF IInv, FlowInv, CallbackWaits
<1>17. CASE CallbackDecodes
  BY <1>17 DEF IInv, FlowInv, CallbackDecodes
<1>18. CASE Flush
  BY <1>18 DEF IInv, FlowInv, Flush
<1>19. CASE Send
  BY <1>19 DEF IInv, FlowInv, Send
<1>20. CASE SendPause
  BY <1>20, FrameAssumption DEF IInv, Typed, FlowInv, PieceNo, SendPause, Next
<1>21. CASE PauseCancelled
  BY <1>21 DEF IInv, FlowInv, PauseCancelled, Interrupted, Finish
<1>22. CASE BatchCancelled
  BY <1>22 DEF IInv, FlowInv, BatchCancelled, Interrupted, Finish
<1>23. CASE BatchEnd
  BY <1>23, FrameAssumption DEF IInv, Typed, FlowInv, PieceNo, BatchEnd, Next
<1>24. CASE Receive
  BY <1>24 DEF IInv, FlowInv, Receive
<1>25. CASE Cancel
  BY <1>25 DEF IInv, FlowInv, Cancel
<1> QED
  BY <1>1, <1>2, <1>3, <1>4, <1>5, <1>6, <1>7, <1>8, <1>9, <1>10, <1>11, <1>12, <1>13,
     <1>14, <1>15, <1>16, <1>17, <1>18, <1>19, <1>20, <1>21, <1>22, <1>23, <1>24, <1>25
     DEF NextStep, TaskStep, LoopStep, GenerateStep, StreamStep, PlainStep, vars, Batch

LEMMA GenStep ==
  ASSUME IInv, [NextStep]_vars
  PROVE  GenInv'
<1>1. CASE UNCHANGED <<pc, piece, gen>>
  BY <1>1 DEF IInv, GenInv
<1>2. CASE PieceCancelled
  BY <1>2 DEF IInv, GenInv, PieceCancelled, Interrupted, Finish
<1>3. CASE Piece
  BY <1>3 DEF IInv, GenInv, Piece
<1>4. CASE GeneratedCancelled
  BY <1>4 DEF IInv, GenInv, GeneratedCancelled, Interrupted, Finish
<1>5. CASE Generated
  BY <1>5 DEF IInv, GenInv, Generated
<1>6. CASE End
  BY <1>6 DEF IInv, GenInv, End
<1>7. CASE PrefillNone
  BY <1>7 DEF IInv, GenInv, PrefillNone
<1>8. CASE Prefill
  BY <1>8, FrozenEmpty DEF IInv, GenInv, Prefill
<1>9. CASE StepCancelled
  BY <1>9 DEF IInv, Typed, GenInv, PieceNo, StepCancelled, FreeAll
<1>10. CASE StepStops
  BY <1>10 DEF IInv, GenInv, StepStops
<1>11. CASE StepRebounds
  BY <1>11 DEF IInv, GenInv, StepRebounds
<1>12. ASSUME NEW f \in Codes, NEW pr \in {"none", "low", "high"}, StepFrame(f, pr)
      PROVE  GenInv'
  <2> USE DEF IInv, Typed, GenInv
  <2>1. PICK q \in PieceNo : q = piece
    OBVIOUS
  <2>2. gen' = [gen EXCEPT ![q] = Append(gen[q], f)] /\ piece' = q
    BY <1>12, <2>1 DEF StepFrame
  <2>3. /\ gen'[q] = Append(gen[q], f) /\ gen'[q] # <<>>
        /\ \A p \in PieceNo : p # q => gen'[p] = gen[p]
    <3>1. gen \in [PieceNo -> Seq(Codes)] /\ gen[q] \in Seq(Codes)
      OBVIOUS
    <3>2. Append(gen[q], f) # <<>>
      BY <3>1, AppendSome
    <3> QED
      BY <2>2, <3>1, <3>2
  <2>4. pc' \in {"free", "callback", "decode"} /\ (pc' # "free" => ~Frozen(gen'[q]))
    BY <1>12, <2>1 DEF StepFrame
  <2> QED
    BY <2>1, <2>2, <2>3, <2>4 DEF PieceNo
<1>13. CASE Decode
  BY <1>13 DEF IInv, GenInv, Decode
<1>14. CASE DecodeFails
  BY <1>14 DEF IInv, GenInv, DecodeFails
<1>15. CASE Free
  BY <1>15 DEF IInv, GenInv, Free, FreeAll
<1>16. CASE CallbackWaits
  BY <1>16 DEF IInv, GenInv, CallbackWaits
<1>17. CASE CallbackDecodes
  BY <1>17 DEF IInv, GenInv, CallbackDecodes
<1>18. CASE Flush
  BY <1>18 DEF IInv, GenInv, Flush
<1>19. CASE Send
  BY <1>19 DEF IInv, GenInv, Send
<1>20. CASE SendPause
  BY <1>20 DEF IInv, Typed, GenInv, PieceNo, SendPause, Next
<1>21. CASE PauseCancelled
  BY <1>21 DEF IInv, GenInv, PauseCancelled, Interrupted, Finish
<1>22. CASE BatchCancelled
  BY <1>22 DEF IInv, GenInv, BatchCancelled, Interrupted, Finish
<1>23. CASE BatchEnd
  BY <1>23 DEF IInv, Typed, GenInv, PieceNo, BatchEnd, Next
<1> QED
  BY <1>1, <1>2, <1>3, <1>4, <1>5, <1>6, <1>7, <1>8, <1>9, <1>10, <1>11, <1>12, <1>13,
     <1>14, <1>15, <1>16, <1>17, <1>18, <1>19, <1>20, <1>21, <1>22, <1>23 DEF NextStep,
     TaskStep, LoopStep, GenerateStep, StreamStep, PlainStep, vars, Batch, Receive, Cancel

LEMMA PastStep ==
  ASSUME IInv, [NextStep]_vars
  PROVE  PastLives'
<1>1. CASE UNCHANGED <<pc, past, held, live>>
  BY <1>1 DEF IInv, PastLives
<1>2. CASE PieceCancelled
  BY <1>2 DEF IInv, PastLives, PieceCancelled, Interrupted, Finish
<1>3. CASE Piece
  BY <1>3 DEF IInv, PastLives, Piece
<1>4. CASE GeneratedCancelled
  BY <1>4 DEF IInv, PastLives, GeneratedCancelled, Interrupted, Finish
<1>5. CASE Generated
  BY <1>5 DEF IInv, PastLives, Generated
<1>6. CASE End
  BY <1>6 DEF IInv, PastLives, End
<1>7. CASE PrefillNone
  BY <1>7 DEF IInv, PastLives, PrefillNone
<1>8. CASE Prefill
  BY <1>8 DEF IInv, Typed, PastLives, Prefill
<1>9. CASE StepCancelled
  BY <1>9 DEF IInv, PastLives, StepCancelled, FreeAll
<1>10. CASE StepStops
  BY <1>10 DEF IInv, PastLives, StepStops
<1>11. CASE StepRebounds
  BY <1>11 DEF IInv, PastLives, StepRebounds
<1>12. ASSUME NEW f \in Codes, NEW pr \in {"none", "low", "high"}, StepFrame(f, pr)
      PROVE  PastLives'
  BY <1>12 DEF IInv, PastLives, StepFrame
<1>13. CASE Decode
  BY <1>13 DEF IInv, Typed, PastLives, Decode
<1>14. CASE DecodeFails
  BY <1>14 DEF IInv, PastLives, DecodeFails
<1>15. CASE Free
  BY <1>15 DEF IInv, PastLives, Free, FreeAll
<1>16. CASE CallbackWaits
  BY <1>16 DEF IInv, PastLives, CallbackWaits
<1>17. CASE CallbackDecodes
  BY <1>17 DEF IInv, PastLives, CallbackDecodes
<1>18. CASE Flush
  BY <1>18 DEF IInv, PastLives, Flush
<1>19. CASE Send
  BY <1>19 DEF IInv, PastLives, Send
<1>20. CASE SendPause
  BY <1>20 DEF IInv, PastLives, SendPause, Next
<1>21. CASE PauseCancelled
  BY <1>21 DEF IInv, PastLives, PauseCancelled, Interrupted, Finish
<1>22. CASE BatchCancelled
  BY <1>22 DEF IInv, PastLives, BatchCancelled, Interrupted, Finish
<1>23. CASE BatchEnd
  BY <1>23 DEF IInv, PastLives, BatchEnd, Next
<1> QED
  BY <1>1, <1>2, <1>3, <1>4, <1>5, <1>6, <1>7, <1>8, <1>9, <1>10, <1>11, <1>12, <1>13,
     <1>14, <1>15, <1>16, <1>17, <1>18, <1>19, <1>20, <1>21, <1>22, <1>23 DEF NextStep,
     TaskStep, LoopStep, GenerateStep, StreamStep, PlainStep, vars, Batch, Receive, Cancel

----------------------------------------------------------------------------
(* Types *)

(* What is put into the channel. *)
LEMMA AudioType ==
  ASSUME Typed, NEW s \in Seq(Codes), NEW b \in BOOLEAN
  PROVE  Audio(s, b) \in Items
  BY DEF Typed, Audio, Items

(* Another inference may fail. *)
LEMMA FaultType ==
  ASSUME Typed, UNCHANGED faults \/ Fault
  PROVE  faults' \in 0..MaxFaults
<1>1. MaxFaults \in Nat /\ faults \in 0..MaxFaults
  BY FrameAssumption DEF Typed
<1> QED
  BY <1>1 DEF Fault

(* A batch is not empty and no larger than what waits. *)
LEMMA BatchLen ==
  ASSUME Typed
  PROVE  /\ Min({BatchSize, Len(pending)}) \in 0..Len(pending)
         /\ pending # <<>> => Min({BatchSize, Len(pending)}) > 0
<1>1. BatchSize \in Nat \ {0} /\ Len(pending) \in Nat /\ (pending # <<>> => Len(pending) > 0)
  BY FrameAssumption DEF Typed
<1>2. Min({BatchSize, Len(pending)})
        = IF BatchSize <= Len(pending) THEN BatchSize ELSE Len(pending)
  BY <1>1, MinTwo
<1> QED
  BY <1>1, <1>2

LEMMA TypedStep ==
  ASSUME IInv, [NextStep]_vars
  PROVE  Typed'
<1>1. CASE UNCHANGED vars
  BY <1>1 DEF IInv, Typed, vars
<1>2. CASE PieceCancelled
  BY <1>2 DEF IInv, Typed, Labels, PieceCancelled, Interrupted, Finish
<1>3. CASE Piece
  <2>1. /\ context' \in [PieceNo -> Seq(Codes)]
        /\ \A p \in PieceNo : Len(context'[p]) <= ContextFrames
    BY <1>3, FrameAssumption, EmptySeq DEF IInv, Typed, Piece
  <2>2. pending' \in Seq(Codes) /\ fed' \in Seq(Codes)
    BY <1>3, EmptySeq DEF IInv, Typed, Piece
  <2>3. pc' \in Labels /\ started' \in BOOLEAN
    BY <1>3 DEF Labels, Piece
  <2> QED
    BY <1>3, <2>1, <2>2, <2>3 DEF IInv, Typed, Piece
<1>4. CASE GeneratedCancelled
  BY <1>4 DEF IInv, Typed, Labels, GeneratedCancelled, Interrupted, Finish
<1>5. CASE Generated
  <2>1. gen[piece] \in Seq(Codes)
    BY DEF IInv, Typed
  <2>2. tail' \in Seq(Codes) /\ Len(tail') <= ContextFrames
    BY <1>5, <2>1, FrameAssumption, LastOfType DEF IInv, Typed, Generated
  <2>3. pc' \in Labels /\ pending' \in Seq(Codes) /\ fed' \in Seq(Codes)
    BY <1>5, <2>1 DEF Labels, Generated
  <2> QED
    BY <1>5, <2>1, <2>2, <2>3 DEF IInv, Typed, Generated
<1>6. CASE End
  <2>1. pc' \in Labels /\ closed' \in BOOLEAN
    BY <1>6 DEF Labels, End
  <2>2. chan' \in Seq(Items) /\ heard' \in Seq(Items) /\ (stream' => Len(chan') <= Capacity)
    BY <1>6, EmptySeq, FrameAssumption DEF IInv, Typed, End
  <2> QED
    BY <1>6, <2>1, <2>2 DEF IInv, Typed, End
<1>7. CASE PrefillNone
  BY <1>7, FrameAssumption DEF IInv, Typed, Labels, PrefillNone, Fault
<1>8. CASE Prefill
  BY <1>8 DEF IInv, Typed, Labels, Prefill
<1>9. CASE StepCancelled
  <2>1. gen' \in [PieceNo -> Seq(Codes)] /\ \A p \in PieceNo : Len(gen'[p]) <= MaxNewFrames
    BY <1>9, FrameAssumption DEF IInv, Typed, StepCancelled
  <2>2. pc' \in Labels /\ past' \in Nat /\ held' \in BOOLEAN /\ again' \in BOOLEAN
    BY <1>9 DEF IInv, Typed, Labels, StepCancelled, FreeAll
  <2> QED
    BY <1>9, <2>1, <2>2 DEF IInv, Typed, StepCancelled, FreeAll
<1>10. CASE StepStops
  BY <1>10 DEF IInv, Typed, Labels, StepStops
<1>11. CASE StepRebounds
  BY <1>11 DEF IInv, Typed, Labels, StepRebounds
<1>12. ASSUME NEW f \in Codes, NEW pr \in {"none", "low", "high"}, StepFrame(f, pr)
      PROVE  Typed'
  <2>1. gen' \in [PieceNo -> Seq(Codes)] /\ \A p \in PieceNo : Len(gen'[p]) <= MaxNewFrames
    BY <1>12, FrameAssumption DEF IInv, Typed, StepFrame
  <2>2. pc' \in Labels /\ valley' \in BOOLEAN /\ pending' \in Seq(Codes)
    BY <1>12 DEF IInv, Typed, Labels, StepFrame
  <2> QED
    BY <1>12, <2>1, <2>2 DEF IInv, Typed, StepFrame, Rebound
<1>13. CASE Decode
  BY <1>13 DEF IInv, Typed, Labels, Decode
<1>14. CASE DecodeFails
  BY <1>14, FrameAssumption DEF IInv, Typed, Labels, DecodeFails, Fault
<1>15. CASE Free
  BY <1>15 DEF IInv, Typed, Labels, Free, FreeAll
<1>16. CASE CallbackWaits
  <2>1. tail' \in Seq(Codes) /\ Len(tail') <= ContextFrames
    BY <1>16, FrameAssumption, LastOfType DEF IInv, Typed, CallbackWaits, Keep
  <2>2. pc' \in Labels
    BY <1>16 DEF Labels, CallbackWaits
  <2> QED
    BY <1>16, <2>1, <2>2 DEF IInv, Typed, CallbackWaits, Keep
<1>17. CASE CallbackDecodes
  <2>1. PICK n \in 0..Len(pending) :
          \/ fed' = fed \o SubSeq(pending, 1, n) /\ started' = TRUE
             /\ wave' = Audio(SubSeq(pending, 1, n), piece = 1 /\ ~started')
          \/ UNCHANGED <<fed, started, wave>>
    <3>1. PICK b \in IF started THEN Budgets ELSE {FirstBudget} :
            /\ Len(pending) >= b /\ (RunFrames(b) \/ RunFramesFails)
      BY <1>17 DEF CallbackDecodes
    <3>2. b \in 0..Len(pending)
      BY <3>1, FrameAssumption DEF IInv, Typed
    <3> QED
      BY <3>1, <3>2 DEF RunFrames, RunFramesFails
  <2>2. fed' \in Seq(Codes) /\ started' \in BOOLEAN /\ wave' \in Items
    <3>1. fed \in Seq(Codes) /\ pending \in Seq(Codes) /\ Typed
      BY DEF IInv, Typed
    <3>2. SubSeq(pending, 1, n) \in Seq(Codes) /\ fed \o SubSeq(pending, 1, n) \in Seq(Codes)
      BY <3>1, Moved
    <3>3. Audio(SubSeq(pending, 1, n), piece = 1 /\ ~started') \in Items
      BY <3>1, <3>2, AudioType
    <3> QED
      BY <2>1, <3>2, <3>3 DEF IInv, Typed
  <2>3. faults' \in 0..MaxFaults
    <3>1. UNCHANGED faults \/ Fault
      BY <1>17 DEF CallbackDecodes, RunFrames, RunFramesFails
    <3> QED
      BY <3>1, FaultType DEF IInv
  <2>4. tail' \in Seq(Codes) /\ Len(tail') <= ContextFrames
    BY <1>17, FrameAssumption, LastOfType DEF IInv, Typed, CallbackDecodes, Keep
  <2>5. pc' \in Labels /\ pending' \in Seq(Codes)
    <3>1. PICK b \in IF started THEN Budgets ELSE {FirstBudget} :
            Len(pending) >= b /\ pending' = SubSeq(pending, b + 1, Len(pending))
      BY <1>17 DEF CallbackDecodes
    <3>2. b \in 0..Len(pending)
      BY <3>1, FrameAssumption DEF IInv, Typed
    <3> QED
      BY <1>17, <3>1, <3>2, Moved DEF IInv, Typed, Labels, CallbackDecodes
  <2> QED
    BY <1>17, <2>2, <2>3, <2>4, <2>5 DEF IInv, Typed, CallbackDecodes
<1>18. CASE Flush
  <2>1. PICK n \in 0..Len(pending) :
          \/ fed' = fed \o SubSeq(pending, 1, n) /\ started' = TRUE
             /\ wave' = Audio(SubSeq(pending, 1, n), piece = 1 /\ ~started')
          \/ UNCHANGED <<fed, started, wave>>
    <3>1. RunFrames(Len(pending)) \/ UNCHANGED <<fed, started, wave>>
      BY <1>18 DEF Flush, RunFramesFails
    <3>2. Len(pending) \in 0..Len(pending)
      BY DEF IInv, Typed
    <3> QED
      BY <3>1, <3>2 DEF RunFrames
  <2>2. fed' \in Seq(Codes) /\ started' \in BOOLEAN /\ wave' \in Items
    <3>1. fed \in Seq(Codes) /\ pending \in Seq(Codes) /\ Typed
      BY DEF IInv, Typed
    <3>2. SubSeq(pending, 1, n) \in Seq(Codes) /\ fed \o SubSeq(pending, 1, n) \in Seq(Codes)
      BY <3>1, Moved
    <3>3. Audio(SubSeq(pending, 1, n), piece = 1 /\ ~started') \in Items
      BY <3>1, <3>2, AudioType
    <3> QED
      BY <2>1, <3>2, <3>3 DEF IInv, Typed
  <2>3. faults' \in 0..MaxFaults
    <3>1. UNCHANGED faults \/ Fault
      BY <1>18 DEF Flush, RunFrames, RunFramesFails
    <3> QED
      BY <3>1, FaultType DEF IInv
  <2>4. pc' \in Labels /\ pending' \in Seq(Codes)
    BY <1>18 DEF Labels, Flush
  <2> QED
    BY <1>18, <2>2, <2>3, <2>4 DEF IInv, Typed, Flush
<1>19. CASE Send
  <2>1. pc' \in Labels
    BY <1>19 DEF Labels, Send
  <2>2. /\ chan \in Seq(Items) /\ wave \in Items
        /\ (stream => Len(chan) <= Capacity) /\ UNCHANGED stream
    BY <1>19 DEF IInv, Typed, Send
  <2>3. chan' \in Seq(Items) /\ (stream => Len(chan') <= Capacity)
    <3>1. chan' = chan \/ (Len(chan) < Capacity /\ chan' = Append(chan, wave))
      BY <1>19 DEF Send, Sent
    <3>2. Capacity \in Nat
      BY FrameAssumption
    <3> QED
      BY <2>2, <3>1, <3>2, AppendProperties
  <2> QED
    BY <1>19, <2>1, <2>2, <2>3 DEF IInv, Typed, Send, Sent
<1>20. CASE SendPause
  <2>1. pc' \in Labels /\ piece' \in PieceNo
    <3>1. Next /\ piece \in PieceNo /\ Pieces \in Nat
      BY <1>20, FrameAssumption DEF IInv, Typed, SendPause
    <3>2. pc' \in Labels
      BY <3>1 DEF Next, Labels
    <3>3. piece' \in PieceNo
      BY <3>1 DEF Next, PieceNo
    <3> QED
      BY <3>2, <3>3
  <2>2. Pause \in Items
    BY DEF IInv, Typed, Pause, Items
  <2>3. chan' \in Seq(Items) /\ (stream => Len(chan') <= Capacity)
    <3>1. /\ chan \in Seq(Items) /\ (stream => Len(chan) <= Capacity)
          /\ UNCHANGED stream /\ Capacity \in Nat
      BY <1>20, FrameAssumption DEF IInv, Typed, SendPause
    <3>2. \/ chan' = chan
          \/ Len(chan) < Capacity /\ chan' = Append(chan, Pause)
      BY <1>20 DEF SendPause
    <3> QED
      BY <2>2, <3>1, <3>2, AppendProperties
  <2>4. fed' \in Seq(Codes)
    BY <1>20 DEF SendPause
  <2> QED
    BY <1>20, <2>1, <2>2, <2>3, <2>4 DEF IInv, Typed, SendPause, Next, Pause
<1>21. CASE PauseCancelled
  BY <1>21 DEF IInv, Typed, Labels, PauseCancelled, Interrupted, Finish
<1>22. CASE Batch
  <2>1. PICK n \in 0..Len(pending) :
          \/ fed' = fed \o SubSeq(pending, 1, n) /\ started' = TRUE
             /\ wave' = Audio(SubSeq(pending, 1, n), piece = 1 /\ ~started')
          \/ UNCHANGED <<fed, started, wave>>
    <3>1. RunFrames(Min({BatchSize, Len(pending)})) \/ UNCHANGED <<fed, started, wave>>
      BY <1>22 DEF Batch, RunFramesFails
    <3>2. Min({BatchSize, Len(pending)}) \in 0..Len(pending)
      BY BatchLen DEF IInv
    <3> QED
      BY <3>1, <3>2 DEF RunFrames
  <2>2. fed' \in Seq(Codes) /\ started' \in BOOLEAN /\ wave' \in Items
    <3>1. fed \in Seq(Codes) /\ pending \in Seq(Codes) /\ Typed
      BY DEF IInv, Typed
    <3>2. SubSeq(pending, 1, n) \in Seq(Codes) /\ fed \o SubSeq(pending, 1, n) \in Seq(Codes)
      BY <3>1, Moved
    <3>3. Audio(SubSeq(pending, 1, n), piece = 1 /\ ~started') \in Items
      BY <3>1, <3>2, AudioType
    <3> QED
      BY <2>1, <3>2, <3>3 DEF IInv, Typed
  <2>3. faults' \in 0..MaxFaults
    <3>1. UNCHANGED faults \/ Fault
      BY <1>22 DEF Batch, RunFrames, RunFramesFails
    <3> QED
      BY <3>1, FaultType DEF IInv
  <2>4. pending' \in Seq(Codes)
    <3>1. Min({BatchSize, Len(pending)}) \in 0..Len(pending)
      BY BatchLen DEF IInv
    <3> QED
      <4>1. pending \in Seq(Codes) /\ fed \in Seq(Codes)
        BY DEF IInv, Typed
      <4> DEFINE m == Min({BatchSize, Len(pending)})
      <4>2. pending' = SubSeq(pending, m + 1, Len(pending)) \/ pending' = <<>>
        BY <1>22 DEF Batch
      <4> HIDE DEF m
      <4>3. SubSeq(pending, m + 1, Len(pending)) \in Seq(Codes)
        BY <3>1, <4>1, Moved DEF m
      <4> QED
        BY <4>2, <4>3, EmptySeq
  <2>5. chan' \in Seq(Items) /\ ~stream
    <3>1. chan' = chan \/ chan' = Append(chan, wave')
      BY <1>22 DEF Batch
    <3>2. chan \in Seq(Items) /\ wave' \in Items
      BY <2>2 DEF IInv, Typed
    <3>3. chan' \in Seq(Items)
      BY ONLY <3>1, <3>2
    <3>4. ~stream
      BY <1>22 DEF IInv, FlowInv, Batch
    <3> QED
      BY <3>3, <3>4
  <2> QED
    BY <1>22, <2>2, <2>3, <2>4, <2>5 DEF IInv, Typed, Batch
<1>23. CASE BatchCancelled
  BY <1>23 DEF IInv, Typed, Labels, BatchCancelled, Interrupted, Finish
<1>24. CASE BatchEnd
  <2>1. pc' \in Labels /\ piece' \in PieceNo
    <3>1. Next /\ piece \in PieceNo /\ Pieces \in Nat
      BY <1>24, FrameAssumption DEF IInv, Typed, BatchEnd
    <3>2. pc' \in Labels
      BY <3>1 DEF Next, Labels
    <3>3. piece' \in PieceNo
      BY <3>1 DEF Next, PieceNo
    <3> QED
      BY <3>2, <3>3
  <2>2. Pause \in Items
    BY DEF IInv, Typed, Pause, Items
  <2>3. chan' \in Seq(Items) /\ ~stream
    BY <1>24, <2>2 DEF IInv, Typed, FlowInv, BatchEnd
  <2> QED
    BY <1>24, <2>1, <2>2, <2>3 DEF IInv, Typed, BatchEnd, Next, Pause
<1>25. CASE Receive
  <2>1. /\ chan # <<>> /\ Head(chan) \in Items
        /\ Tail(chan) \in Seq(Items) /\ Len(Tail(chan)) = Len(chan) - 1
    BY <1>25, HeadTailProperties DEF IInv, Typed, Receive
  <2>2. chan' \in Seq(Items) /\ Len(chan') = Len(chan) - 1
    BY <1>25, <2>1 DEF Receive
  <2>3. heard' \in Seq(Items)
    <3>1. heard' = heard \/ heard' = Append(heard, Head(chan))
      BY <1>25 DEF Receive
    <3> QED
      <4>1. heard \in Seq(Items)
        BY DEF IInv, Typed
      <4> QED
        BY ONLY <2>1, <3>1, <4>1
  <2>4. left' \in BOOLEAN
    BY <1>25 DEF IInv, Typed, Receive
  <2>5. stream => Len(chan') <= Capacity
    BY <2>2, FrameAssumption DEF IInv, Typed
  <2> QED
    BY <1>25, <2>1, <2>2, <2>3, <2>4, <2>5 DEF IInv, Typed, Receive
<1>26. CASE Cancel
  BY <1>26 DEF IInv, Typed, Labels, Cancel
<1> QED
  BY <1>1, <1>2, <1>3, <1>4, <1>5, <1>6, <1>7, <1>8, <1>9, <1>10, <1>11, <1>12, <1>13,
     <1>14, <1>15, <1>16, <1>17, <1>18, <1>19, <1>20, <1>21, <1>22, <1>23, <1>24, <1>25,
     <1>26 DEF NextStep, TaskStep, LoopStep, GenerateStep, StreamStep, PlainStep, vars

----------------------------------------------------------------------------
(* What one piece says *)

(* It stays a stream, or not one. *)
LEMMA StreamSame == ASSUME [NextStep]_vars PROVE stream' = stream
  BY DEF NextStep, TaskStep, LoopStep, GenerateStep, StreamStep, PlainStep, vars,
     PieceCancelled, Interrupted, Finish, Piece, GeneratedCancelled, Generated, End,
     PrefillNone, Fault, Prefill, StepCancelled, FreeAll, StepStops, StepRebounds,
     StepFrame, Decode, DecodeFails, Free, CallbackWaits, CallbackDecodes, RunFrames,
     RunFramesFails, Flush, Send, Sent, SendPause, Next, PauseCancelled, Batch,
     BatchCancelled, BatchEnd, Receive, Cancel

(* What a piece says follows from its frames. *)
LEMMA SpokenSame ==
  ASSUME NEW p \in PieceNo, gen'[p] = gen[p], stream' = stream
  PROVE  Spoken(p)' = Spoken(p)
  BY DEF Spoken, Frozen, LastOf

LEMMA SpokenEmpty ==
  ASSUME NEW p \in PieceNo, gen[p] = <<>>
  PROVE  Spoken(p) = <<>>
  BY FrozenEmpty DEF Spoken

LEMMA SpokenType ==
  ASSUME Typed, NEW p \in PieceNo
  PROVE  Spoken(p) \in Seq(Codes)
<1>1. gen[p] \in Seq(Codes) /\ Len(gen[p]) \in Nat
  BY DEF Typed
<1>2. SubSeq(gen[p], 1, Len(gen[p]) - 1) \in Seq(Codes)
  BY <1>1, SubSeqProperties
<1> QED
  BY <1>1, <1>2 DEF Spoken, Front

(* A frame that is made joins what piece q says, unless it ends a stream's piece by repeating. *)
LEMMA Grown ==
  ASSUME IInv, NEW f \in Codes, NEW pr \in {"none", "low", "high"}, StepFrame(f, pr),
         NEW q \in PieceNo, q = piece
  PROVE  /\ Spoken(q) = gen[q]
         /\ \/ /\ stream /\ pc' = "free" /\ Spoken(q)' = Spoken(q)
               /\ UNCHANGED pending
            \/ /\ stream /\ pc' = "callback" /\ Spoken(q)' = Append(Spoken(q), f)
               /\ pending' = Append(pending, f)
            \/ /\ ~stream /\ pc' \in {"free", "decode"} /\ Spoken(q)' = Append(Spoken(q), f)
               /\ UNCHANGED pending
<1>1. Spoken(q) = gen[q]
  BY DEF IInv, GenInv, StepFrame, Spoken
<1>2. gen[q] \in Seq(Codes) /\ gen'[q] = Append(gen[q], f) /\ UNCHANGED stream
  BY DEF IInv, Typed, StepFrame
<1>3. Spoken(q)' = IF stream /\ Frozen(gen'[q]) THEN Front(gen'[q]) ELSE gen'[q]
  BY <1>2 DEF Spoken
<1>4. Front(gen'[q]) = gen[q]
  BY <1>2, FrontAppend
<1>5. /\ pc' = IF Frozen(gen'[q]) THEN "free" ELSE IF stream THEN "callback" ELSE "decode"
      /\ pending' = IF pc' = "callback" THEN Append(pending, f) ELSE pending
  BY DEF StepFrame
<1> QED
  BY <1>1, <1>2, <1>3, <1>4, <1>5

(* While nothing has failed, the codec does not. *)
LEMMA NoFault == ASSUME IInv, faults' = 0 PROVE ~RunFramesFails
  BY DEF IInv, Typed, RunFramesFails, Fault

(* n of the waiting frames go through the codec. *)
LEMMA Ran ==
  ASSUME Typed, NEW n \in 0..Len(pending), RunFrames(n)
  PROVE  /\ fed' \o SubSeq(pending, n + 1, Len(pending)) = fed \o pending
         /\ fed' \in Seq(Codes) /\ Len(fed') = Len(fed) + n
         /\ wave'.piece = piece /\ ~wave'.pause /\ wave'.after = Len(fed)
         /\ Len(wave'.frames) = n /\ wave'.frames = SubSeq(pending, 1, n)
         /\ wave'.frames = SubSeq(fed', Len(fed) + 1, Len(fed) + n)
<1>1. fed \in Seq(Codes) /\ pending \in Seq(Codes)
  BY DEF Typed
<1>2. fed' = fed \o SubSeq(pending, 1, n)
  BY DEF RunFrames
<1>3. /\ wave'.piece = piece /\ ~wave'.pause /\ wave'.after = Len(fed)
      /\ wave'.frames = SubSeq(pending, 1, n)
  BY DEF RunFrames, Audio
<1>4. /\ fed \o SubSeq(pending, 1, n) \in Seq(Codes)
      /\ Len(fed \o SubSeq(pending, 1, n)) = Len(fed) + n
      /\ (fed \o SubSeq(pending, 1, n)) \o SubSeq(pending, n + 1, Len(pending)) = fed \o pending
  BY <1>1, Moved
<1>5. /\ Len(SubSeq(pending, 1, n)) = n
      /\ SubSeq(fed \o SubSeq(pending, 1, n), Len(fed) + 1, Len(fed) + n) = SubSeq(pending, 1, n)
  BY <1>1, Moved
<1> QED
  BY <1>2, <1>3, <1>4, <1>5

----------------------------------------------------------------------------
(* The codec *)

(* Frames neither come nor go. *)
LEMMA CodecKept ==
  ASSUME IInv, [NextStep]_vars, UNCHANGED <<piece, gen, fed, pending>>,
         faults' = 0 => faults = 0, CallingBack' => CallingBack,
         pc' \in {"sendlast", "pause"} => pc \in {"sendlast", "pause"},
         pc' = "batch" => pc = "batch"
  PROVE  CodecInv'
<1>1. SUFFICES ASSUME NEW p \in PieceNo, p = piece', faults' = 0 PROVE Fed(p)'
  BY DEF CodecInv
<1>2. Fed(p) /\ Spoken(p)' = Spoken(p)
  BY <1>1, StreamSame, SpokenSame DEF IInv, CodecInv
<1> QED
  BY <1>2 DEF Fed

LEMMA CodecStep ==
  ASSUME IInv, [NextStep]_vars
  PROVE  CodecInv'
<1>1. CASE UNCHANGED <<pc, piece, gen, fed, pending, stream, cancelled, faults>>
  BY <1>1, CodecKept DEF CallingBack
<1>2. CASE PieceCancelled
  BY <1>2 DEF CodecInv, Fed, CallingBack, PieceCancelled, Interrupted, Finish
<1>3. CASE Piece
  <2>1. SUFFICES ASSUME NEW p \in PieceNo, p = piece', faults' = 0 PROVE Fed(p)'
    BY DEF CodecInv
  <2>2. gen'[p] = <<>> /\ UNCHANGED stream
    BY <1>3, <2>1 DEF IInv, GenInv, Piece
  <2>3. Spoken(p)' = <<>>
    BY <1>3, <2>1, <2>2, SpokenSame, SpokenEmpty DEF IInv, GenInv, Piece
  <2>4. stream => fed' = <<>> /\ pending' = <<>>
    BY <1>3 DEF Piece
  <2>5. <<>> \o <<>> = <<>>
    BY ConcatEmptySeq, EmptySeq
  <2> QED
    BY <1>3, <2>3, <2>4, <2>5 DEF Fed, CallingBack, Piece
<1>4. CASE GeneratedCancelled
  BY <1>4 DEF CodecInv, Fed, CallingBack, GeneratedCancelled, Interrupted, Finish
<1>5. CASE Generated
  <2>1. SUFFICES ASSUME NEW p \in PieceNo, p = piece', faults' = 0 PROVE Fed(p)'
    BY DEF CodecInv
  <2>2. fed' = <<>> /\ pending' = gen[p] /\ gen'[p] = gen[p] /\ gen[p] \in Seq(Codes)
    BY <1>5, <2>1 DEF IInv, Typed, Generated
  <2>3. fed' \o pending' = gen'[p]
    BY <2>2, ConcatEmptySeq
  <2> QED
    BY <1>5, <2>3 DEF Fed, CallingBack, Generated
<1>6. CASE End
  BY <1>6 DEF CodecInv, Fed, CallingBack, End
<1>7. CASE PrefillNone
  <2>1. SUFFICES ASSUME NEW p \in PieceNo, p = piece', faults' = 0 PROVE Fed(p)'
    BY DEF CodecInv
  <2>2. cancelled /\ UNCHANGED cancelled
    BY <1>7, <2>1 DEF IInv, Typed, PrefillNone, Fault
  <2> QED
    BY <1>7, <2>2 DEF Fed, CallingBack, PrefillNone
<1>8. CASE Prefill
  BY <1>8, CodecKept DEF IInv, FlowInv, CallingBack, Prefill
<1>9. CASE StepCancelled
  BY <1>9 DEF CodecInv, Fed, CallingBack, StepCancelled, FreeAll
<1>10. CASE StepStops
  BY <1>10, CodecKept DEF IInv, FlowInv, CallingBack, StepStops
<1>11. CASE StepRebounds
  BY <1>11, CodecKept DEF IInv, FlowInv, CallingBack, StepRebounds
<1>12. ASSUME NEW f \in Codes, NEW pr \in {"none", "low", "high"}, StepFrame(f, pr)
      PROVE  CodecInv'
  <2>1. SUFFICES ASSUME NEW p \in PieceNo, p = piece', faults' = 0 PROVE Fed(p)'
    BY DEF CodecInv
  <2>2. p = piece /\ faults = 0 /\ pc = "step" /\ UNCHANGED <<fed, stream>>
    BY <1>12, <2>1 DEF StepFrame
  <2>3. fed \in Seq(Codes) /\ pending \in Seq(Codes)
    BY DEF IInv, Typed
  <2>4. stream => fed \o pending = Spoken(p)
    BY <2>2 DEF IInv, CodecInv, Fed, CallingBack
  <2>5. fed \o Append(pending, f) = Append(fed \o pending, f)
    BY <2>3, AppendAssoc
  <2>6. stream => fed' \o pending' = Spoken(p)' /\ pc' \in {"free", "callback"}
    BY <1>12, <2>2, <2>4, <2>5, Grown
  <2>7. ~stream => pc' \in {"free", "decode"}
    BY <1>12, <2>2, Grown
  <2> QED
    BY <2>2, <2>6, <2>7 DEF Fed, CallingBack
<1>13. CASE Decode
  BY <1>13, CodecKept DEF IInv, FlowInv, CallingBack, Decode
<1>14. CASE DecodeFails
  <2>1. SUFFICES ASSUME NEW p \in PieceNo, p = piece', faults' = 0 PROVE Fed(p)'
    BY DEF CodecInv
  <2>2. faults' # 0
    BY <1>14 DEF IInv, Typed, DecodeFails, Fault
  <2> QED
    BY <2>1, <2>2
<1>15. CASE Free
  BY <1>15, CodecKept DEF IInv, FlowInv, CallingBack, Free, FreeAll
<1>16. CASE CallbackWaits
  BY <1>16, CodecKept DEF IInv, FlowInv, CallingBack, CallbackWaits
<1>17. CASE CallbackDecodes
  <2>1. SUFFICES ASSUME NEW p \in PieceNo, p = piece', faults' = 0 PROVE Fed(p)'
    BY DEF CodecInv
  <2>2. p = piece /\ pc = "callback" /\ stream /\ UNCHANGED <<stream, piece, gen>>
    BY <1>17, <2>1 DEF IInv, FlowInv, CallbackDecodes
  <2>3. Spoken(p)' = Spoken(p)
    BY <2>2, SpokenSame
  <2>4. PICK b \in IF started THEN Budgets ELSE {FirstBudget} :
          /\ Len(pending) >= b /\ pending' = SubSeq(pending, b + 1, Len(pending))
          /\ \/ pc' = "send" /\ RunFrames(b)
             \/ pc' = "decode" /\ RunFramesFails
    BY <1>17 DEF CallbackDecodes
  <2>5. b \in 0..Len(pending)
    BY <2>4, FrameAssumption DEF IInv, Typed
  <2>6. faults = 0 /\ pc' = "send" /\ RunFrames(b)
    <3>1. ~RunFramesFails
      BY <2>1, NoFault
    <3>2. faults = 0
      BY <2>1, <2>4, <3>1 DEF RunFrames
    <3> QED
      BY <2>4, <3>1, <3>2
  <2>7. fed' \o pending' = fed \o pending
    BY <2>4, <2>5, <2>6, Ran DEF IInv
  <2> QED
    BY <2>2, <2>3, <2>6, <2>7 DEF IInv, CodecInv, Fed, CallingBack
<1>18. CASE Flush
  <2>1. SUFFICES ASSUME NEW p \in PieceNo, p = piece', faults' = 0 PROVE Fed(p)'
    BY DEF CodecInv
  <2>2. /\ p = piece /\ pc = "generated" /\ stream
        /\ ~cancelled /\ ~cancelled' /\ UNCHANGED <<stream, piece, gen>>
    BY <1>18, <2>1 DEF IInv, FlowInv, Flush
  <2>3. Spoken(p)' = Spoken(p)
    BY <2>2, SpokenSame
  <2>4. Typed /\ Len(pending) \in 0..Len(pending) /\ fed \in Seq(Codes) /\ pending \in Seq(Codes)
    BY DEF IInv, Typed
  <2>5. /\ faults = 0
        /\ \/ pending = <<>> /\ pc' = "pause" /\ UNCHANGED fed
           \/ pc' = "sendlast" /\ RunFrames(Len(pending))
    BY <1>18, <2>1 DEF IInv, Typed, Flush, RunFramesFails, Fault, RunFrames
  <2>6. fed \o pending = Spoken(p)
    BY <2>2, <2>5 DEF IInv, CodecInv, Fed, CallingBack
  <2>7. fed' = fed \o pending
    <3>1. CASE pending = <<>> /\ UNCHANGED fed
      BY <2>4, <3>1, ConcatEmptySeq
    <3>2. CASE RunFrames(Len(pending))
      BY <2>4, <3>2, SubSeqFull DEF RunFrames
    <3> QED
      BY <2>5, <3>1, <3>2
  <2> QED
    BY <2>2, <2>3, <2>5, <2>6, <2>7 DEF Fed, CallingBack
<1>19. CASE Send
  BY <1>19, CodecKept DEF IInv, FlowInv, CallingBack, Send
<1>20. CASE SendPause
  <2>1. SUFFICES ASSUME NEW p \in PieceNo, p = piece', faults' = 0 PROVE Fed(p)'
    BY DEF CodecInv
  <2> QED
    BY <1>20, <2>1 DEF IInv, FlowInv, Fed, CallingBack, SendPause, Next
<1>21. CASE PauseCancelled
  BY <1>21 DEF CodecInv, Fed, CallingBack, PauseCancelled, Interrupted, Finish
<1>22. CASE Batch
  <2>1. SUFFICES ASSUME NEW p \in PieceNo, p = piece', faults' = 0 PROVE Fed(p)'
    BY DEF CodecInv
  <2>2. p = piece /\ pc = "batch" /\ pc' = "batch" /\ ~stream /\ ~stream' /\ gen' = gen
    BY <1>22, <2>1 DEF IInv, FlowInv, Batch
  <2> DEFINE m == Min({BatchSize, Len(pending)})
  <2>3. m \in 0..Len(pending)
    BY BatchLen DEF IInv
  <2>4. faults = 0 /\ RunFrames(m) /\ pending' = SubSeq(pending, m + 1, Len(pending))
    <3>1. ~RunFramesFails
      BY <2>1, NoFault
    <3>2. RunFrames(m) /\ pending' = SubSeq(pending, m + 1, Len(pending))
      BY <1>22, <3>1 DEF Batch
    <3> QED
      BY <2>1, <3>2 DEF RunFrames
  <2> HIDE DEF m
  <2>5. fed' \o pending' = fed \o pending
    BY <2>3, <2>4, Ran DEF IInv
  <2>6. fed \o pending = gen[p]
    BY <2>2, <2>4 DEF IInv, CodecInv, Fed, CallingBack
  <2> QED
    BY <2>2, <2>5, <2>6 DEF Fed, CallingBack
<1>23. CASE BatchCancelled
  BY <1>23 DEF CodecInv, Fed, CallingBack, BatchCancelled, Interrupted, Finish
<1>24. CASE BatchEnd
  <2>1. SUFFICES ASSUME NEW p \in PieceNo, p = piece', faults' = 0 PROVE Fed(p)'
    BY DEF CodecInv
  <2> QED
    BY <1>24, <2>1 DEF IInv, FlowInv, Fed, CallingBack, BatchEnd, Next
<1>25. CASE Cancel
  BY <1>25, CodecKept DEF IInv, FlowInv, CallingBack, Cancel
<1> QED
  BY <1>1, <1>2, <1>3, <1>4, <1>5, <1>6, <1>7, <1>8, <1>9, <1>10, <1>11, <1>12, <1>13,
     <1>14, <1>15, <1>16, <1>17, <1>18, <1>19, <1>20, <1>21, <1>22, <1>23, <1>24, <1>25
     DEF NextStep, TaskStep, LoopStep, GenerateStep, StreamStep, PlainStep, vars, Receive

(* The audio that is being sent is taken from the codec in the same step. *)
LEMMA WaveStep ==
  ASSUME IInv, [NextStep]_vars
  PROVE  WaveInv'
<1>1. CASE UNCHANGED <<pc, piece, wave, fed>>
  BY <1>1 DEF IInv, WaveInv
<1>2. CASE PieceCancelled
  BY <1>2 DEF IInv, WaveInv, PieceCancelled, Interrupted, Finish
<1>3. CASE Piece
  BY <1>3 DEF IInv, WaveInv, Piece
<1>4. CASE GeneratedCancelled
  BY <1>4 DEF IInv, WaveInv, GeneratedCancelled, Interrupted, Finish
<1>5. CASE Generated
  BY <1>5 DEF IInv, WaveInv, Generated
<1>6. CASE End
  BY <1>6 DEF IInv, WaveInv, End
<1>7. CASE PrefillNone
  BY <1>7 DEF IInv, WaveInv, PrefillNone
<1>8. CASE Prefill
  BY <1>8 DEF IInv, WaveInv, Prefill
<1>9. CASE StepCancelled
  BY <1>9 DEF IInv, WaveInv, StepCancelled, FreeAll
<1>10. CASE StepStops
  BY <1>10 DEF IInv, WaveInv, StepStops
<1>11. CASE StepRebounds
  BY <1>11 DEF IInv, WaveInv, StepRebounds
<1>12. ASSUME NEW f \in Codes, NEW pr \in {"none", "low", "high"}, StepFrame(f, pr)
      PROVE  WaveInv'
  BY <1>12 DEF IInv, WaveInv, StepFrame
<1>13. CASE Decode
  BY <1>13 DEF IInv, WaveInv, Decode
<1>14. CASE DecodeFails
  BY <1>14 DEF IInv, WaveInv, DecodeFails
<1>15. CASE Free
  BY <1>15 DEF IInv, WaveInv, Free, FreeAll
<1>16. CASE CallbackWaits
  BY <1>16 DEF IInv, WaveInv, CallbackWaits
<1>17. CASE CallbackDecodes
  <2>1. SUFFICES ASSUME pc' = "send" PROVE WaveInv'
    BY <1>17 DEF WaveInv, CallbackDecodes
  <2>2. PICK b \in IF started THEN Budgets ELSE {FirstBudget} : Len(pending) >= b /\ RunFrames(b)
    BY <1>17, <2>1 DEF CallbackDecodes
  <2>3. b \in 0..Len(pending) /\ Len(fed) \in Nat
    BY <2>2, FrameAssumption DEF IInv, Typed
  <2> QED
    BY <1>17, <2>2, <2>3, Ran DEF IInv, WaveInv, CallbackDecodes
<1>18. CASE Flush
  <2>1. SUFFICES ASSUME pc' = "sendlast" PROVE WaveInv'
    BY <1>18 DEF WaveInv, Flush
  <2>2. RunFrames(Len(pending)) /\ Len(pending) \in 0..Len(pending)
    BY <1>18, <2>1 DEF IInv, Typed, Flush
  <2> QED
    BY <1>18, <2>2, Ran DEF IInv, WaveInv, Flush
<1>19. CASE Send
  BY <1>19 DEF IInv, WaveInv, Send
<1>20. CASE SendPause
  BY <1>20 DEF IInv, WaveInv, SendPause, Next
<1>21. CASE PauseCancelled
  BY <1>21 DEF IInv, WaveInv, PauseCancelled, Interrupted, Finish
<1>22. CASE Batch
  BY <1>22 DEF IInv, WaveInv, Batch
<1>23. CASE BatchCancelled
  BY <1>23 DEF IInv, WaveInv, BatchCancelled, Interrupted, Finish
<1>24. CASE BatchEnd
  BY <1>24 DEF IInv, WaveInv, BatchEnd, Next
<1> QED
  BY <1>1, <1>2, <1>3, <1>4, <1>5, <1>6, <1>7, <1>8, <1>9, <1>10, <1>11, <1>12, <1>13,
     <1>14, <1>15, <1>16, <1>17, <1>18, <1>19, <1>20, <1>21, <1>22, <1>23, <1>24 DEF
     NextStep, TaskStep, LoopStep, GenerateStep, StreamStep, PlainStep, vars, Receive,
     Cancel

----------------------------------------------------------------------------
(* The context *)

(* What earlier pieces say does not change. *)
LEMMA OldSame ==
  ASSUME IInv, [NextStep]_vars, NEW q \in PieceNo, q < piece
  PROVE  Spoken(q)' = Spoken(q)
<1>1. gen'[q] = gen[q]
  <2>0. q # piece /\ gen \in [PieceNo -> Seq(Codes)]
    BY DEF IInv, Typed, PieceNo
  <2>1. CASE UNCHANGED gen
    BY <2>1
  <2>2. CASE StepCancelled
    BY <2>0, <2>2 DEF StepCancelled
  <2>3. ASSUME NEW f \in Codes, NEW pr \in {"none", "low", "high"}, StepFrame(f, pr)
        PROVE  gen'[q] = gen[q]
    BY <2>0, <2>3 DEF StepFrame
  <2> QED
    BY <2>1, <2>2, <2>3 DEF NextStep, TaskStep, LoopStep, GenerateStep, StreamStep,
       PlainStep, vars, PieceCancelled, Interrupted, Finish, Piece, GeneratedCancelled,
       Generated, End, PrefillNone, Prefill, StepStops, StepRebounds, Decode,
       DecodeFails, Free, FreeAll, CallbackWaits, CallbackDecodes, Flush, Send,
       SendPause, Next, PauseCancelled, Batch, BatchCancelled, BatchEnd, Receive, Cancel
<1> QED
  BY <1>1, StreamSame, SpokenSame

(* The end of what was spoken: as long as it is so, after silence, and after speech. *)
LEMMA EndStays ==
  ASSUME NEW p \in Nat, NEW c, EndOf(p, c),
         \A q \in PieceNo : q < p => Spoken(q)' = Spoken(q)
  PROVE  EndOf(p, c)'
  BY DEF EndOf, LastOf, PieceNo

(* No new context. *)
LEMMA ContextKept ==
  ASSUME IInv, [NextStep]_vars, UNCHANGED context,
         \/ UNCHANGED piece /\ (pc' \notin {"piece", "end"} => pc \notin {"piece", "end"})
         \/ /\ piece' = piece + 1 /\ pc' = "piece" /\ pc \notin {"piece", "end"}
  PROVE  ContextInv'
<1>1. SUFFICES ASSUME NEW p \in PieceNo, NEW c \in Seq(Codes), c = context'[p],
                      p <= piece', p = piece' => pc' \notin {"piece", "end"}
               PROVE  EndOf(p, c)'
  BY DEF ContextInv
<1>2. p \in Nat /\ p <= piece /\ (p = piece => pc \notin {"piece", "end"})
  BY <1>1 DEF IInv, Typed, PieceNo
<1>3. EndOf(p, c)
  BY <1>1, <1>2 DEF IInv, ContextInv
<1>4. \A q \in PieceNo : q < p => q < piece
  BY <1>2 DEF IInv, Typed, PieceNo
<1> QED
  BY <1>2, <1>3, <1>4, EndStays, OldSame

(* Neither the tail nor what was spoken is new. *)
LEMMA TailKept ==
  ASSUME IInv, [NextStep]_vars, UNCHANGED <<piece, gen, tail>>,
         OwnTail' => OwnTail, NextTail' => NextTail
  PROVE  TailInv'
<1>1. SUFFICES ASSUME NEW p \in PieceNo, NEW c \in Seq(Codes), p = piece', c = tail'
               PROVE  TailOf(p, c)'
  BY DEF TailInv
<1>2. TailOf(p, c)
  BY <1>1 DEF IInv, TailInv
<1>3. \A q \in PieceNo : Spoken(q)' = Spoken(q)
  BY StreamSame, SpokenSame
<1>4. (EndOf(p, c) => EndOf(p, c)') /\ (EndOf(p + 1, c) => EndOf(p + 1, c)')
  BY <1>3, EndStays DEF PieceNo
<1> QED
  BY <1>2, <1>4 DEF TailOf

LEMMA EndSilent ==
  ASSUME NEW p \in PieceNo, NEW c, EndOf(p, c), Spoken(p) = <<>>
  PROVE  EndOf(p + 1, c)
  BY DEF EndOf, PieceNo

LEMMA EndSpoken ==
  ASSUME NEW p \in PieceNo, Spoken(p) # <<>>
  PROVE  EndOf(p + 1, LastOf(Spoken(p), ContextFrames))
  BY DEF EndOf, PieceNo

LEMMA ContextStep ==
  ASSUME IInv, [NextStep]_vars
  PROVE  ContextInv'
<1>1. CASE UNCHANGED <<pc, piece, gen, context>>
  BY <1>1, ContextKept
<1>2. CASE PieceCancelled
  BY <1>2, ContextKept DEF PieceCancelled, Interrupted, Finish
<1>3. CASE Piece
  <2>1. SUFFICES ASSUME NEW p \in PieceNo, NEW c \in Seq(Codes), c = context'[p],
                        p <= piece', p = piece' => pc' \notin {"piece", "end"}
                 PROVE  EndOf(p, c)'
    BY DEF ContextInv
  <2>2. p <= piece /\ p \in Nat /\ \A q \in PieceNo : q < p => q < piece
    BY <1>3, <2>1 DEF IInv, Typed, PieceNo, Piece
  <2>3. CASE p = piece
    <3>1. c = IF p > 1 THEN tail ELSE <<>>
      BY <1>3, <2>1, <2>3 DEF IInv, Typed, Piece
    <3>2. EndOf(p, tail)
      BY <1>3, <2>3 DEF IInv, Typed, TailInv, TailOf, OwnTail, Piece
    <3>3. ~(p > 1) => EndOf(p, <<>>)
      BY DEF EndOf, PieceNo
    <3>4. EndOf(p, c)
      BY <3>1, <3>2, <3>3
    <3> QED
      BY <2>2, <3>4, EndStays, OldSame
  <2>4. CASE p # piece
    <3>1. c = context[p]
      BY <1>3, <2>1, <2>4 DEF IInv, Typed, Piece
    <3>2. EndOf(p, c)
      BY <2>2, <2>4, <3>1 DEF IInv, ContextInv
    <3> QED
      BY <2>2, <3>2, EndStays, OldSame
  <2> QED
    BY <2>3, <2>4
<1>4. CASE GeneratedCancelled
  BY <1>4, ContextKept DEF GeneratedCancelled, Interrupted, Finish
<1>5. CASE Generated
  BY <1>5, ContextKept DEF Generated
<1>6. CASE End
  BY <1>6, ContextKept DEF End
<1>7. CASE PrefillNone
  BY <1>7, ContextKept DEF PrefillNone
<1>8. CASE Prefill
  BY <1>8, ContextKept DEF Prefill
<1>9. CASE StepCancelled
  BY <1>9, ContextKept DEF StepCancelled, FreeAll
<1>10. CASE StepStops
  BY <1>10, ContextKept DEF StepStops
<1>11. CASE StepRebounds
  BY <1>11, ContextKept DEF StepRebounds
<1>12. ASSUME NEW f \in Codes, NEW pr \in {"none", "low", "high"}, StepFrame(f, pr)
      PROVE  ContextInv'
  BY <1>12, ContextKept DEF StepFrame
<1>13. CASE Decode
  BY <1>13, ContextKept DEF Decode
<1>14. CASE DecodeFails
  BY <1>14, ContextKept DEF DecodeFails
<1>15. CASE Free
  BY <1>15, ContextKept DEF Free, FreeAll
<1>16. CASE CallbackWaits
  BY <1>16, ContextKept DEF CallbackWaits
<1>17. CASE CallbackDecodes
  BY <1>17, ContextKept DEF CallbackDecodes
<1>18. CASE Flush
  BY <1>18, ContextKept DEF Flush
<1>19. CASE Send
  BY <1>19, ContextKept DEF Send
<1>20. CASE SendPause
  BY <1>20, ContextKept DEF SendPause, Next
<1>21. CASE PauseCancelled
  BY <1>21, ContextKept DEF PauseCancelled, Interrupted, Finish
<1>22. CASE BatchCancelled
  BY <1>22, ContextKept DEF BatchCancelled, Interrupted, Finish
<1>23. CASE BatchEnd
  BY <1>23, ContextKept DEF BatchEnd, Next
<1> QED
  BY <1>1, <1>2, <1>3, <1>4, <1>5, <1>6, <1>7, <1>8, <1>9, <1>10, <1>11, <1>12, <1>13,
     <1>14, <1>15, <1>16, <1>17, <1>18, <1>19, <1>20, <1>21, <1>22, <1>23 DEF NextStep,
     TaskStep, LoopStep, GenerateStep, StreamStep, PlainStep, vars, Batch, Receive, Cancel

LEMMA TailStep ==
  ASSUME IInv, [NextStep]_vars
  PROVE  TailInv'
<1>1. CASE UNCHANGED <<pc, piece, gen, tail, stream, cancelled>>
  BY <1>1, TailKept DEF OwnTail, NextTail
<1>2. CASE PieceCancelled
  BY <1>2 DEF TailInv, TailOf, OwnTail, NextTail, PieceCancelled, Interrupted, Finish
<1>3. CASE Piece
  <2>1. SUFFICES ASSUME NEW p \in PieceNo, NEW c \in Seq(Codes), p = piece', c = tail'
                 PROVE  TailOf(p, c)'
    BY DEF TailInv
  <2>2. p = piece /\ c = tail /\ p \in Nat
    BY <1>3, <2>1 DEF Piece, PieceNo
  <2>3. TailOf(p, c)
    BY <2>2 DEF IInv, TailInv
  <2>4. \A q \in PieceNo : q < p + 1 => Spoken(q)' = Spoken(q)
    BY <1>3, SpokenSame DEF Piece
  <2>5. (EndOf(p, c) => EndOf(p, c)') /\ (EndOf(p + 1, c) => EndOf(p + 1, c)')
    BY <2>2, <2>4, EndStays
  <2>6. EndOf(p, c)
    BY <1>3, <2>3 DEF TailOf, OwnTail, NextTail, Piece
  <2>7. EndOf(p + 1, c)
    BY <1>3, <2>2, <2>6, SpokenEmpty, EndSilent DEF IInv, GenInv, Piece
  <2> QED
    BY <1>3, <2>5, <2>6, <2>7 DEF TailOf, OwnTail, NextTail, Piece
<1>4. CASE GeneratedCancelled
  BY <1>4 DEF TailInv, TailOf, OwnTail, NextTail, GeneratedCancelled, Interrupted, Finish
<1>5. CASE Generated
  <2>1. SUFFICES ASSUME NEW p \in PieceNo, NEW c \in Seq(Codes), p = piece', c = tail'
                 PROVE  TailOf(p, c)'
    BY DEF TailInv
  <2>2. p = piece /\ p \in Nat /\ gen' = gen /\ ~stream /\ stream' = stream
    BY <1>5, <2>1 DEF PieceNo, Generated
  <2>3. Spoken(p) = gen[p]
    BY <2>2 DEF Spoken
  <2>4. EndOf(p + 1, c)
    <3>1. CASE gen[p] = <<>>
      <4>1. c = tail
        BY <1>5, <2>1, <2>2, <3>1 DEF Generated
      <4>2. EndOf(p, c)
        BY <1>5, <2>2, <4>1 DEF IInv, TailInv, TailOf, OwnTail, Generated
      <4> QED
        BY <2>3, <3>1, <4>2, EndSilent
    <3>2. CASE gen[p] # <<>>
      <4>1. c = LastOf(Spoken(p), ContextFrames)
        BY <1>5, <2>1, <2>2, <2>3, <3>2 DEF Generated
      <4> QED
        BY <2>3, <3>2, <4>1, EndSpoken
    <3> QED
      BY <3>1, <3>2
  <2>5. \A q \in PieceNo : q < p + 1 => Spoken(q)' = Spoken(q)
    BY <2>2, SpokenSame
  <2>6. EndOf(p + 1, c)'
    BY <2>2, <2>4, <2>5, EndStays
  <2> QED
    BY <1>5, <2>2, <2>6 DEF TailOf, OwnTail, NextTail, Generated
<1>6. CASE End
  BY <1>6 DEF TailInv, TailOf, OwnTail, NextTail, End
<1>7. CASE PrefillNone
  BY <1>7, TailKept DEF IInv, FlowInv, OwnTail, NextTail, PrefillNone
<1>8. CASE Prefill
  BY <1>8, TailKept DEF IInv, FlowInv, OwnTail, NextTail, Prefill
<1>9. CASE StepCancelled
  <2>1. SUFFICES ASSUME NEW p \in PieceNo, NEW c \in Seq(Codes), p = piece', c = tail'
                 PROVE  TailOf(p, c)'
    BY DEF TailInv
  <2>2. p = piece /\ c = tail /\ p \in Nat
    BY <1>9, <2>1 DEF StepCancelled, PieceNo
  <2>3. TailOf(p, c)
    BY <2>2 DEF IInv, TailInv
  <2>4. \A q \in PieceNo : q < p => Spoken(q)' = Spoken(q)
    BY <2>2, OldSame
  <2>5. EndOf(p, c) => EndOf(p, c)'
    BY <2>2, <2>4, EndStays
  <2> QED
    BY <1>9, <2>2, <2>3, <2>5 DEF TailOf, OwnTail, NextTail, StepCancelled
<1>10. CASE StepStops
  BY <1>10, TailKept DEF IInv, FlowInv, OwnTail, NextTail, StepStops
<1>11. CASE StepRebounds
  BY <1>11, TailKept DEF IInv, FlowInv, OwnTail, NextTail, StepRebounds
<1>12. ASSUME NEW f \in Codes, NEW pr \in {"none", "low", "high"}, StepFrame(f, pr)
      PROVE  TailInv'
  <2>1. SUFFICES ASSUME NEW p \in PieceNo, NEW c \in Seq(Codes), p = piece', c = tail'
                 PROVE  TailOf(p, c)'
    BY DEF TailInv
  <2>2. p = piece /\ c = tail /\ p \in Nat
    BY <1>12, <2>1 DEF StepFrame, PieceNo
  <2>3. TailOf(p, c)
    BY <2>2 DEF IInv, TailInv
  <2>4. \A q \in PieceNo : q < p => Spoken(q)' = Spoken(q)
    BY <2>2, OldSame
  <2>5. EndOf(p, c) => EndOf(p, c)'
    BY <2>2, <2>4, EndStays
  <2>6. CASE ~stream
    BY <1>12, <2>2, <2>3, <2>5, <2>6 DEF TailOf, OwnTail, NextTail, StepFrame
  <2>7. CASE stream /\ pc' = "free" /\ Spoken(p)' = Spoken(p)
    <3>1. EndOf(p + 1, c)
      BY <1>12, <2>3, <2>7 DEF TailOf, OwnTail, NextTail, StepFrame
    <3>2. \A q \in PieceNo : q < p + 1 => Spoken(q)' = Spoken(q)
      BY <2>2, <2>4, <2>7 DEF PieceNo
    <3>3. EndOf(p + 1, c)'
      BY <2>2, <3>1, <3>2, EndStays
    <3> QED
      BY <1>12, <2>7, <3>3 DEF TailOf, OwnTail, NextTail, StepFrame
  <2>8. CASE stream /\ pc' = "callback"
    BY <1>12, <2>8 DEF TailOf, OwnTail, NextTail, StepFrame
  <2> QED
    BY <1>12, <2>2, <2>6, <2>7, <2>8, Grown
<1>13. CASE Decode
  BY <1>13, TailKept DEF IInv, FlowInv, OwnTail, NextTail, Decode
<1>14. CASE DecodeFails
  BY <1>14, TailKept DEF IInv, FlowInv, OwnTail, NextTail, DecodeFails
<1>15. CASE Free
  BY <1>15, TailKept DEF IInv, FlowInv, OwnTail, NextTail, Free, FreeAll
<1>16. CASE CallbackWaits
  <2>1. SUFFICES ASSUME NEW p \in PieceNo, NEW c \in Seq(Codes), p = piece', c = tail'
                 PROVE  TailOf(p, c)'
    BY DEF TailInv
  <2>2. p = piece /\ p \in Nat /\ gen' = gen /\ stream /\ stream' = stream
    BY <1>16, <2>1 DEF IInv, FlowInv, PieceNo, CallbackWaits
  <2>3. Spoken(p) = gen[p] /\ gen[p] # <<>>
    BY <1>16, <2>2 DEF IInv, GenInv, Spoken, CallbackWaits
  <2>4. c = LastOf(Spoken(p), ContextFrames)
    BY <1>16, <2>1, <2>2, <2>3 DEF CallbackWaits, Keep
  <2>5. EndOf(p + 1, c)
    BY <2>3, <2>4, EndSpoken
  <2>6. \A q \in PieceNo : q < p + 1 => Spoken(q)' = Spoken(q)
    BY <2>2, SpokenSame
  <2>7. EndOf(p + 1, c)'
    BY <2>2, <2>5, <2>6, EndStays
  <2>8. pc' \in {"send", "decode"}
    BY <1>16 DEF CallbackWaits
  <2> QED
    BY <2>2, <2>7, <2>8 DEF TailOf, OwnTail, NextTail
<1>17. CASE CallbackDecodes
  <2>1. SUFFICES ASSUME NEW p \in PieceNo, NEW c \in Seq(Codes), p = piece', c = tail'
                 PROVE  TailOf(p, c)'
    BY DEF TailInv
  <2>2. p = piece /\ p \in Nat /\ gen' = gen /\ stream /\ stream' = stream
    BY <1>17, <2>1 DEF IInv, FlowInv, PieceNo, CallbackDecodes
  <2>3. Spoken(p) = gen[p] /\ gen[p] # <<>>
    BY <1>17, <2>2 DEF IInv, GenInv, Spoken, CallbackDecodes
  <2>4. c = LastOf(Spoken(p), ContextFrames)
    BY <1>17, <2>1, <2>2, <2>3 DEF CallbackDecodes, Keep
  <2>5. EndOf(p + 1, c)
    BY <2>3, <2>4, EndSpoken
  <2>6. \A q \in PieceNo : q < p + 1 => Spoken(q)' = Spoken(q)
    BY <2>2, SpokenSame
  <2>7. EndOf(p + 1, c)'
    BY <2>2, <2>5, <2>6, EndStays
  <2>8. pc' \in {"send", "decode"}
    BY <1>17 DEF CallbackDecodes
  <2> QED
    BY <2>2, <2>7, <2>8 DEF TailOf, OwnTail, NextTail
<1>18. CASE Flush
  BY <1>18, TailKept DEF IInv, FlowInv, OwnTail, NextTail, Flush
<1>19. CASE Send
  BY <1>19, TailKept DEF IInv, FlowInv, OwnTail, NextTail, Send
<1>20. CASE SendPause
  <2>1. SUFFICES ASSUME NEW p \in PieceNo, NEW c \in Seq(Codes), p = piece', c = tail'
                 PROVE  TailOf(p, c)'
    BY DEF TailInv
  <2>2. SUFFICES ASSUME pc' = "piece", piece' = piece + 1 PROVE TailOf(p, c)'
    BY <1>20 DEF TailOf, OwnTail, NextTail, SendPause, Next
  <2>3. PICK r \in PieceNo : r = piece
    BY DEF IInv, Typed
  <2>4. c = tail /\ p = r + 1 /\ p \in Nat
    BY <1>20, <2>1, <2>2, <2>3 DEF PieceNo, SendPause
  <2>5. TailOf(r, c)
    BY <2>3, <2>4 DEF IInv, TailInv
  <2>6. EndOf(p, c)
    BY <1>20, <2>4, <2>5 DEF TailOf, OwnTail, NextTail, SendPause
  <2>7. \A q \in PieceNo : Spoken(q)' = Spoken(q)
    BY <1>20, SpokenSame DEF SendPause
  <2>8. EndOf(p, c)'
    BY <2>4, <2>6, <2>7, EndStays
  <2> QED
    BY <2>2, <2>8 DEF TailOf, OwnTail, NextTail
<1>21. CASE PauseCancelled
  BY <1>21 DEF TailInv, TailOf, OwnTail, NextTail, PauseCancelled, Interrupted, Finish
<1>22. CASE BatchCancelled
  BY <1>22 DEF TailInv, TailOf, OwnTail, NextTail, BatchCancelled, Interrupted, Finish
<1>23. CASE BatchEnd
  <2>1. SUFFICES ASSUME NEW p \in PieceNo, NEW c \in Seq(Codes), p = piece', c = tail'
                 PROVE  TailOf(p, c)'
    BY DEF TailInv
  <2>2. SUFFICES ASSUME pc' = "piece", piece' = piece + 1 PROVE TailOf(p, c)'
    BY <1>23 DEF TailOf, OwnTail, NextTail, BatchEnd, Next
  <2>3. PICK r \in PieceNo : r = piece
    BY DEF IInv, Typed
  <2>4. c = tail /\ p = r + 1 /\ p \in Nat
    BY <1>23, <2>1, <2>2, <2>3 DEF PieceNo, BatchEnd
  <2>5. TailOf(r, c)
    BY <2>3, <2>4 DEF IInv, TailInv
  <2>6. EndOf(p, c)
    BY <1>23, <2>4, <2>5 DEF TailOf, OwnTail, NextTail, BatchEnd
  <2>7. \A q \in PieceNo : Spoken(q)' = Spoken(q)
    BY <1>23, SpokenSame DEF BatchEnd
  <2>8. EndOf(p, c)'
    BY <2>4, <2>6, <2>7, EndStays
  <2> QED
    BY <2>2, <2>8 DEF TailOf, OwnTail, NextTail
<1>24. CASE Cancel
  BY <1>24, TailKept DEF IInv, FlowInv, OwnTail, NextTail, Cancel
<1> QED
  BY <1>1, <1>2, <1>3, <1>4, <1>5, <1>6, <1>7, <1>8, <1>9, <1>10, <1>11, <1>12, <1>13,
     <1>14, <1>15, <1>16, <1>17, <1>18, <1>19, <1>20, <1>21, <1>22, <1>23, <1>24 DEF
     NextStep, TaskStep, LoopStep, GenerateStep, StreamStep, PlainStep, vars, Batch,
     Receive

----------------------------------------------------------------------------
(* The audio *)

(* What a piece that was begun says grows at its end, if at all. *)
LEMMA Longer ==
  ASSUME IInv, [NextStep]_vars, ~cancelled, NEW q \in PieceNo, q <= piece
  PROVE  \E t \in Seq(Codes) : Spoken(q)' = Spoken(q) \o t
<1>1. Spoken(q) \in Seq(Codes)
  BY SpokenType DEF IInv
<1>2. Spoken(q)' = Spoken(q) => \E t \in Seq(Codes) : Spoken(q)' = Spoken(q) \o t
  BY <1>1, ConcatEmptySeq, EmptySeq
<1>3. CASE UNCHANGED gen
  BY <1>2, <1>3, StreamSame, SpokenSame
<1>4. CASE q < piece
  BY <1>2, <1>4, OldSame
<1>5. ASSUME NEW f \in Codes, NEW pr \in {"none", "low", "high"}, StepFrame(f, pr), q = piece
      PROVE  \E t \in Seq(Codes) : Spoken(q)' = Spoken(q) \o t
  <2>1. CASE Spoken(q)' = Spoken(q)
    BY <1>2, <2>1
  <2>2. CASE Spoken(q)' = Append(Spoken(q), f)
    <3>1. <<f>> \in Seq(Codes) /\ Spoken(q)' = Spoken(q) \o <<f>>
      BY <1>1, <2>2, AppendIsConcat
    <3> QED
      BY <3>1
  <2> QED
    BY <1>5, <2>1, <2>2, Grown
<1>6. UNCHANGED gen \/ \E f \in Codes, pr \in {"none", "low", "high"} : StepFrame(f, pr)
  BY DEF NextStep, TaskStep, LoopStep, GenerateStep, StreamStep, PlainStep, vars,
     PieceCancelled, Interrupted, Finish, Piece, GeneratedCancelled, Generated, End,
     PrefillNone, Prefill, StepCancelled, FreeAll, StepStops, StepRebounds, Decode,
     DecodeFails, Free, CallbackWaits, CallbackDecodes, Flush, Send, SendPause, Next,
     PauseCancelled, Batch, BatchCancelled, BatchEnd, Receive, Cancel
<1>7. q < piece \/ q = piece
  BY DEF IInv, Typed, PieceNo
<1> QED
  BY <1>3, <1>4, <1>5, <1>6, <1>7

(* The task goes from piece to piece. *)
LEMMA PieceGrows ==
  ASSUME IInv, [NextStep]_vars
  PROVE  piece \in Nat /\ piece' \in Nat /\ piece <= piece'
<1>1. piece' = piece \/ piece' = piece + 1
  BY DEF NextStep, TaskStep, LoopStep, GenerateStep, StreamStep, PlainStep, vars,
     PieceCancelled, Piece, GeneratedCancelled, Generated, End, PrefillNone, Prefill,
     StepCancelled, StepStops, StepRebounds, StepFrame, Decode, DecodeFails, Free,
     CallbackWaits, CallbackDecodes, Flush, Send, SendPause, Next, PauseCancelled, Batch,
     BatchCancelled, BatchEnd, Receive, Cancel
<1> QED
  BY <1>1 DEF IInv, Typed, PieceNo

(* An item keeps its place. *)
LEMMA FitStays ==
  ASSUME IInv, [NextStep]_vars, ~cancelled, NEW w \in Items, Fits(w)
  PROVE  Fits(w)' /\ From(w)' = From(w)
<1>1. /\ w.piece \in PieceNo /\ w.pause \in BOOLEAN /\ w.after \in Nat
      /\ Len(w.frames) \in Nat /\ w.piece <= piece
  BY DEF Items, Fits
<1>2. w.piece <= piece' /\ (w.pause => w.piece < piece')
  BY <1>1, PieceGrows DEF Fits, PieceNo
<1>3. CASE w.pause
  <2>1. Spoken(w.piece)' = Spoken(w.piece)
    BY <1>1, <1>3, OldSame DEF Fits
  <2> QED
    BY <1>2, <1>3, <2>1 DEF Fits, From, Said
<1>4. CASE ~w.pause
  <2>1. PICK t \in Seq(Codes) : Spoken(w.piece)' = Spoken(w.piece) \o t
    BY <1>1, Longer
  <2>2. Spoken(w.piece) \in Seq(Codes)
    BY <1>1, SpokenType DEF IInv
  <2>3. w.after + Len(w.frames) <= Len(Spoken(w.piece))
    BY <1>4 DEF Fits
  <2>4. /\ w.after + 1 \in 1..(Len(Spoken(w.piece)) + 1)
        /\ w.after + Len(w.frames) \in 0..Len(Spoken(w.piece))
    BY <1>1, <2>2, <2>3
  <2>5. SubSeq(Spoken(w.piece) \o t, w.after + 1, w.after + Len(w.frames))
          = SubSeq(Spoken(w.piece), w.after + 1, w.after + Len(w.frames))
    BY <2>2, <2>4, Beginning
  <2>6. Said(w)' = Said(w)
    BY <1>4, <2>1, <2>5 DEF Said
  <2>7. Len(Spoken(w.piece) \o t) = Len(Spoken(w.piece)) + Len(t) /\ Len(t) \in Nat
    BY <2>2, ConcatProperties
  <2>8. w.after + Len(w.frames) <= Len(Spoken(w.piece)')
    BY <1>1, <2>1, <2>2, <2>3, <2>7
  <2>9. Fits(w)'
    BY <1>2, <1>4, <2>6, <2>8 DEF Fits
  <2> QED
    BY <1>4, <2>9 DEF From
<1> QED
  BY <1>3, <1>4

(* So do all of them. *)
LEMMA TiledStays ==
  ASSUME IInv, [NextStep]_vars, ~cancelled, NEW s \in Seq(Items), Tiled(s)
  PROVE  Tiled(s)'
<1>1. SUFFICES ASSUME NEW i \in 1..Len(s) PROVE Fits(s[i])' /\ From(s[i])' = Reached(s, i - 1)
  BY DEF Tiled, Reached, To
<1>2. s[i] \in Items /\ Fits(s[i]) /\ From(s[i]) = Reached(s, i - 1)
  BY DEF Tiled
<1> QED
  BY <1>2, FitStays

(* Another item joins them. *)
LEMMA TiledAppend ==
  ASSUME NEW s \in Seq(Items), NEW w \in Items, Tiled(s)', Fits(w)', From(w)' = Reached(s, Len(s))
  PROVE  /\ Tiled(Append(s, w))'
         /\ Reached(Append(s, w), Len(Append(s, w))) = To(w)
<1> DEFINE e == Append(s, w)
<1>1. /\ e \in Seq(Items) /\ Len(e) = Len(s) + 1 /\ Len(s) \in Nat
      /\ \A i \in 1..Len(s) : e[i] = s[i]
      /\ e[Len(s) + 1] = w
  BY AppendProperties
<1> HIDE DEF e
<1>2. \A i \in 0..Len(s) : Reached(e, i) = Reached(s, i)
  BY <1>1 DEF Reached
<1>3. ASSUME NEW i \in 1..Len(e) PROVE Fits(e[i])' /\ From(e[i])' = Reached(e, i - 1)
  <2>1. CASE i = Len(s) + 1
    <3>1. e[i] = w /\ Reached(e, i - 1) = Reached(s, Len(s))
      BY <1>1, <1>2, <2>1
    <3> QED
      BY <3>1
  <2>2. CASE i # Len(s) + 1
    <3>1. i \in 1..Len(s) /\ i - 1 \in 0..Len(s)
      BY <1>1, <2>2
    <3>2. e[i] = s[i] /\ Reached(e, i - 1) = Reached(s, i - 1)
      BY <1>1, <1>2, <3>1
    <3>3. Fits(s[i])' /\ From(s[i])' = Reached(s, i - 1)
      BY <3>1 DEF Tiled, Reached, To
    <3> QED
      BY <3>2, <3>3
  <2> QED
    BY <2>1, <2>2
<1>4. Tiled(e)'
  BY <1>3 DEF Tiled, Reached, To
<1>5. Reached(e, Len(e)) = To(w)
  BY <1>1 DEF Reached
<1> QED
  BY <1>4, <1>5 DEF e

(* An item goes from the channel to its reader. *)
LEMMA Passed ==
  ASSUME NEW s \in Seq(Items), NEW t \in Seq(Items), t # <<>>
  PROVE  Append(s, Head(t)) \o Tail(t) = s \o t
<1>1. Head(t) \in Items /\ Tail(t) \in Seq(Items) /\ t = <<Head(t)>> \o Tail(t)
  BY HeadTailProperties, AppendProperties, SeqEqual, ConcatProperties
<1>2. Append(s, Head(t)) = s \o <<Head(t)>> /\ <<Head(t)>> \in Seq(Items)
  BY <1>1, AppendIsConcat
<1> QED
  BY <1>1, <1>2, ConcatAssociative

(* What is sent after everything else. *)
LEMMA Sending ==
  ASSUME IInv, [NextStep]_vars, ~cancelled, faults = 0, NEW p \in PieceNo, p = piece,
         NEW w \in Items, chan' = Append(chan, w), heard' = heard,
         Fits(w)', From(w)' = <<p, Until(p)>>,
         NEW s \in Seq(Items), s = Everything'
  PROVE  Tiled(s)' /\ Reached(s, Len(s)) = To(w)
<1>1. PICK e \in Seq(Items) : e = Everything
  BY ConcatProperties DEF IInv, Typed, Everything
<1>2. Tiled(e) /\ Reached(e, Len(e)) = <<p, Until(p)>>
  BY <1>1 DEF IInv, AudioInv
<1>3. Tiled(e)'
  BY <1>2, TiledStays
<1>4. s = Append(e, w)
  BY <1>1, AppendAssoc DEF IInv, Typed, Everything
<1> QED
  BY <1>2, <1>3, <1>4, TiledAppend

(* Nothing is sent. *)
LEMMA Keeping ==
  ASSUME IInv, [NextStep]_vars, ~cancelled, faults = 0, NEW p \in PieceNo, p = piece,
         NEW s \in Seq(Items), s = Everything
  PROVE  Tiled(s)' /\ Reached(s, Len(s)) = <<p, Until(p)>>
<1>1. Tiled(s) /\ Reached(s, Len(s)) = <<p, Until(p)>>
  BY DEF IInv, AudioInv
<1> QED
  BY <1>1, TiledStays

(* Nothing is sent, and how far the audio must reach is as before. *)
LEMMA AudioKept ==
  ASSUME IInv, [NextStep]_vars, UNCHANGED <<piece, chan, heard>>,
         cancelled' = FALSE => ~cancelled, faults' = 0 => faults = 0,
         \A p \in PieceNo : p = piece /\ faults' = 0 => Until(p)' = Until(p)
  PROVE  AudioInv'
<1>1. SUFFICES ASSUME NEW s \in Seq(Items), NEW p \in PieceNo,
                      s = Everything', p = piece', faults' = 0, ~cancelled'
               PROVE  Tiled(s)' /\ (Reached(s, Len(s)) = <<p, Until(p)>>)'
  BY DEF AudioInv
<1>2. s = Everything /\ p = piece /\ faults = 0 /\ ~cancelled
  BY <1>1 DEF Everything, IInv, Typed
<1>3. Tiled(s)' /\ Reached(s, Len(s)) = <<p, Until(p)>>
  BY <1>2, Keeping
<1>4. Until(p)' = Until(p)
  BY <1>1, <1>2
<1> QED
  BY <1>3, <1>4 DEF Reached, To

LEMMA AudioStep ==
  ASSUME IInv, [NextStep]_vars
  PROVE  AudioInv'
<1>1. CASE UNCHANGED <<pc, piece, gen, fed, wave, chan, heard, stream, cancelled, faults>>
  BY <1>1, SpokenSame, AudioKept DEF Until
<1>2. CASE PieceCancelled
  BY <1>2 DEF AudioInv, PieceCancelled, Interrupted, Finish
<1>3. CASE Piece
  <2>1. Len(<<>>) = 0
    BY EmptySeq
  <2> QED
    BY <1>3, <2>1, AudioKept DEF Until, Piece
<1>4. CASE GeneratedCancelled
  BY <1>4 DEF AudioInv, GeneratedCancelled, Interrupted, Finish
<1>5. CASE Generated
  <2>1. Len(<<>>) = 0
    BY EmptySeq
  <2> QED
    BY <1>5, <2>1, AudioKept DEF Until, Generated
<1>6. CASE End
  <2>1. SUFFICES ASSUME NEW s \in Seq(Items), NEW p \in PieceNo,
                        s = Everything', p = piece', faults' = 0, ~cancelled'
                 PROVE  Tiled(s)' /\ (Reached(s, Len(s)) = <<p, Until(p)>>)'
    BY DEF AudioInv
  <2>2. s = Everything
    <3>1. chan \in Seq(Items) /\ heard \in Seq(Items)
      BY DEF IInv, Typed
    <3>2. CASE stream
      BY <1>6, <2>1, <3>2 DEF End, Everything
    <3>3. CASE ~stream
      <4>1. heard = <<>>
        BY <1>6, <3>3 DEF IInv, FlowInv, End
      <4>2. <<>> \o chan = chan /\ chan \o <<>> = chan
        BY <3>1, ConcatEmptySeq
      <4> QED
        BY <1>6, <2>1, <3>3, <4>1, <4>2 DEF End, Everything
    <3> QED
      BY <3>2, <3>3
  <2>3. p = piece /\ faults = 0 /\ ~cancelled /\ UNCHANGED <<gen, stream>>
    BY <1>6, <2>1 DEF End
  <2>4. Tiled(s)' /\ Reached(s, Len(s)) = <<p, Until(p)>>
    BY <2>2, <2>3, Keeping
  <2>5. Until(p)' = Until(p)
    BY <1>6, <2>3, SpokenSame DEF Until, End
  <2> QED
    BY <2>4, <2>5 DEF Reached, To
<1>7. CASE PrefillNone
  BY <1>7 DEF IInv, Typed, AudioInv, PrefillNone, Fault
<1>8. CASE Prefill
  BY <1>8, AudioKept DEF IInv, FlowInv, Until, Prefill
<1>9. CASE StepCancelled
  BY <1>9 DEF AudioInv, StepCancelled, FreeAll
<1>10. CASE StepStops
  BY <1>10, AudioKept DEF IInv, FlowInv, Until, StepStops
<1>11. CASE StepRebounds
  BY <1>11, AudioKept DEF IInv, FlowInv, Until, StepRebounds
<1>12. ASSUME NEW f \in Codes, NEW pr \in {"none", "low", "high"}, StepFrame(f, pr)
      PROVE  AudioInv'
  <2>1. \A p \in PieceNo : p = piece => Until(p)' = Until(p)
    BY <1>12, Grown DEF Until, StepFrame
  <2> QED
    BY <1>12, <2>1, AudioKept DEF StepFrame
<1>13. CASE Decode
  BY <1>13, AudioKept DEF IInv, FlowInv, Until, Decode
<1>14. CASE DecodeFails
  BY <1>14 DEF IInv, Typed, AudioInv, DecodeFails, Fault
<1>15. CASE Free
  BY <1>15, AudioKept DEF IInv, FlowInv, Until, Free
<1>16. CASE CallbackWaits
  BY <1>16, AudioKept DEF IInv, FlowInv, Until, CallbackWaits
<1>17. CASE CallbackDecodes
  <2>1. SUFFICES ASSUME NEW p \in PieceNo, p = piece, faults' = 0
                 PROVE  faults = 0 /\ Until(p)' = Until(p)
    BY <1>17, AudioKept DEF IInv, Typed, CallbackDecodes
  <2>2. ~RunFramesFails
    BY <2>1, NoFault
  <2>3. PICK b \in IF started THEN Budgets ELSE {FirstBudget} :
          Len(pending) >= b /\ pc' = "send" /\ RunFrames(b)
    BY <1>17, <2>2 DEF CallbackDecodes
  <2>4. b \in 0..Len(pending)
    BY <2>3, FrameAssumption DEF IInv, Typed
  <2>5. faults = 0 /\ wave'.after = Len(fed)
    BY <2>1, <2>3, <2>4, Ran DEF IInv, RunFrames
  <2> QED
    BY <1>17, <2>3, <2>5 DEF IInv, FlowInv, Until, CallbackDecodes
<1>18. CASE Flush
  <2>1. SUFFICES ASSUME NEW p \in PieceNo, p = piece, faults' = 0
                 PROVE  faults = 0 /\ Until(p)' = Until(p)
    BY <1>18, AudioKept DEF IInv, Typed, Flush
  <2>2. ~RunFramesFails
    BY <2>1, NoFault
  <2>3. \/ pc' = "pause" /\ UNCHANGED <<fed, faults>>
        \/ pc' = "sendlast" /\ RunFrames(Len(pending))
    BY <1>18, <2>2 DEF Flush
  <2>4. RunFrames(Len(pending)) => wave'.after = Len(fed)
    BY Ran DEF IInv, Typed
  <2> QED
    BY <1>18, <2>1, <2>3, <2>4 DEF Until, Flush, RunFrames
<1>19. CASE Send
  <2>1. SUFFICES ASSUME NEW s \in Seq(Items), NEW p \in PieceNo,
                        s = Everything', p = piece', faults' = 0, ~cancelled'
                 PROVE  Tiled(s)' /\ (Reached(s, Len(s)) = <<p, Until(p)>>)'
    BY DEF AudioInv
  <2>2. /\ p = piece /\ faults = 0 /\ ~cancelled /\ stream
        /\ UNCHANGED <<gen, stream, fed, piece, heard>>
    BY <1>19, <2>1 DEF IInv, FlowInv, Send
  <2>3. PICK w \in Items : w = wave
    BY DEF IInv, Typed
  <2>4. chan' = Append(chan, w)
    BY <1>19, <2>2, <2>3 DEF Send, Sent
  <2>5. /\ w.piece = p /\ ~w.pause /\ w.after + Len(w.frames) = Len(fed)
        /\ w.frames = SubSeq(fed, w.after + 1, Len(fed))
    BY <1>19, <2>2, <2>3 DEF IInv, WaveInv, Send
  <2>6. /\ fed \in Seq(Codes) /\ pending \in Seq(Codes) /\ w.after \in Nat
        /\ Len(w.frames) \in Nat /\ Len(fed) \in Nat /\ w.after <= Len(fed)
    <3>1. w.after + Len(w.frames) = Len(fed)
      BY <2>5
    <3>2. /\ fed \in Seq(Codes) /\ pending \in Seq(Codes)
          /\ w.after \in Nat /\ w.frames \in Seq(Codes)
      BY DEF IInv, Typed, Items
    <3> QED
      BY <3>1, <3>2
  <2>7. SubSeq(Spoken(p), w.after + 1, Len(fed)) = w.frames /\ Len(fed) <= Len(Spoken(p))
    <3>1. CASE pc = "send"
      <4>1. Spoken(p) = fed \o pending
        BY <2>2, <3>1 DEF IInv, CodecInv, Fed, CallingBack
      <4>2. Len(fed \o pending) = Len(fed) + Len(pending) /\ Len(pending) \in Nat
        BY <2>6, ConcatProperties
      <4>3. w.after + 1 \in 1..(Len(fed) + 1) /\ Len(fed) \in 0..Len(fed)
        BY <2>6
      <4>4. SubSeq(fed \o pending, w.after + 1, Len(fed)) = SubSeq(fed, w.after + 1, Len(fed))
        BY <2>6, <4>3, Beginning
      <4>5. Len(fed) <= Len(Spoken(p))
        BY <2>6, <4>1, <4>2
      <4> QED
        BY <2>5, <4>1, <4>4, <4>5
    <3>2. CASE pc = "sendlast"
      <4>1. Spoken(p) = fed
        BY <2>2, <3>2 DEF IInv, CodecInv, Fed
      <4> QED
        BY <2>5, <2>6, <4>1
    <3> QED
      BY <1>19, <3>1, <3>2 DEF Send
  <2>8. Spoken(p)' = Spoken(p)
    BY <2>2, SpokenSame
  <2>9. p \in Nat /\ p <= piece'
    BY <2>2 DEF PieceNo
  <2>10. Fits(w)'
    BY <2>5, <2>7, <2>8, <2>9 DEF Fits, Said
  <2>11. From(w)' = <<p, Until(p)>>
    BY <1>19, <2>3, <2>5 DEF From, Until, Send
  <2>12. Tiled(s)' /\ Reached(s, Len(s)) = To(w)
    BY <2>1, <2>2, <2>4, <2>10, <2>11, Sending
  <2>13. To(w) = <<p, Len(fed)>>
    BY <2>5 DEF To
  <2>14. Until(p)' = Len(fed)
    BY <1>19, <2>2 DEF Until, Send
  <2> QED
    BY <2>12, <2>13, <2>14 DEF Reached, To
<1>20. CASE SendPause
  <2>1. SUFFICES ASSUME NEW s \in Seq(Items), NEW p \in PieceNo,
                        s = Everything', p = piece', faults' = 0, ~cancelled'
                 PROVE  Tiled(s)' /\ (Reached(s, Len(s)) = <<p, Until(p)>>)'
    BY DEF AudioInv
  <2>2. faults = 0 /\ ~cancelled /\ UNCHANGED <<gen, stream, heard>>
    BY <1>20, <2>1 DEF SendPause
  <2>3. PICK r \in PieceNo : r = piece
    BY DEF IInv, Typed
  <2>4. Len(fed) = Len(Spoken(r))
    BY <1>20, <2>2, <2>3 DEF IInv, CodecInv, Fed, SendPause
  <2>5. Until(r) = Len(fed)
    BY <1>20, <2>3 DEF IInv, FlowInv, Until, SendPause
  <2>6. Spoken(r)' = Spoken(r)
    BY <2>2, SpokenSame
  <2>7. CASE r < Pieces
    <3>1. PICK w \in Items : w = Pause
      <4>1. Pause \in Items
        BY DEF IInv, Typed, Items, Pause
      <4> QED
        BY <4>1
    <3>2. w.piece = r /\ w.pause /\ w.frames = <<>>
      BY <2>3, <3>1 DEF Pause
    <3>3. chan' = Append(chan, w) /\ p = r + 1 /\ piece' = r + 1 /\ pc' = "piece"
      BY <1>20, <2>1, <2>3, <2>7, <3>1 DEF SendPause, Next
    <3>4. Fits(w)'
      BY <3>2, <3>3 DEF Fits, Said, PieceNo
    <3>5. From(w)' = <<r, Until(r)>>
      BY <2>4, <2>5, <2>6, <3>2 DEF From
    <3>6. Tiled(s)' /\ Reached(s, Len(s)) = To(w)
      BY <2>1, <2>2, <2>3, <3>3, <3>4, <3>5, Sending
    <3>7. To(w) = <<p, 0>> /\ Until(p)' = 0
      BY <3>2, <3>3 DEF To, Until
    <3> QED
      BY <3>6, <3>7 DEF Reached, To
  <2>8. CASE ~(r < Pieces)
    <3>1. s = Everything /\ p = r /\ pc' = "last"
      BY <1>20, <2>1, <2>3, <2>8 DEF SendPause, Next, Everything
    <3>2. Tiled(s)' /\ Reached(s, Len(s)) = <<p, Until(p)>>
      BY <2>2, <2>3, <3>1, Keeping
    <3>3. Until(p)' = Len(Spoken(p)')
      BY <3>1 DEF Until
    <3> QED
      BY <2>4, <2>5, <2>6, <3>1, <3>2, <3>3 DEF Reached, To
  <2> QED
    BY <2>7, <2>8
<1>21. CASE PauseCancelled
  BY <1>21 DEF AudioInv, PauseCancelled, Interrupted, Finish
<1>22. CASE Batch
  <2>1. SUFFICES ASSUME NEW s \in Seq(Items), NEW p \in PieceNo,
                        s = Everything', p = piece', faults' = 0, ~cancelled'
                 PROVE  Tiled(s)' /\ (Reached(s, Len(s)) = <<p, Until(p)>>)'
    BY DEF AudioInv
  <2> DEFINE m == Min({BatchSize, Len(pending)})
  <2>2. ~RunFramesFails
    BY <2>1, NoFault
  <2>3. RunFrames(m) /\ chan' = Append(chan, wave')
    BY <1>22, <2>2 DEF Batch
  <2>4. /\ p = piece /\ faults = 0 /\ ~cancelled /\ ~stream /\ pc = "batch"
        /\ UNCHANGED <<pc, gen, stream, piece, heard>>
    BY <1>22, <2>1, <2>3 DEF IInv, FlowInv, Batch, RunFrames
  <2>5. m \in 0..Len(pending)
    BY BatchLen DEF IInv
  <2> HIDE DEF m
  <2>6. PICK w \in Items : w = wave'
    BY TypedStep DEF Typed
  <2>7. /\ w.piece = p /\ ~w.pause /\ w.after = Len(fed) /\ Len(w.frames) = m
        /\ w.frames = SubSeq(pending, 1, m) /\ fed' \in Seq(Codes) /\ Len(fed') = Len(fed) + m
        /\ w.frames = SubSeq(fed', Len(fed) + 1, Len(fed) + m)
        /\ fed' \o SubSeq(pending, m + 1, Len(pending)) = fed \o pending
    BY <2>3, <2>4, <2>5, <2>6, Ran DEF IInv
  <2>8. /\ fed \in Seq(Codes) /\ pending \in Seq(Codes)
        /\ Len(fed) \in Nat /\ Len(pending) \in Nat
        /\ SubSeq(pending, m + 1, Len(pending)) \in Seq(Codes)
    BY <2>5, Moved DEF IInv, Typed
  <2>9. Spoken(p) = fed \o pending /\ Spoken(p)' = Spoken(p)
    <3>1. fed \o pending = gen[p]
      BY <2>4 DEF IInv, CodecInv, Fed
    <3> QED
      BY <2>4, <3>1, SpokenSame DEF Spoken
  <2>10. SubSeq(Spoken(p), w.after + 1, w.after + Len(w.frames)) = w.frames
    <3>1. Len(fed) + 1 \in 1..(Len(fed') + 1) /\ Len(fed) + m \in 0..Len(fed')
      BY <2>5, <2>7, <2>8
    <3>2. SubSeq(fed' \o SubSeq(pending, m + 1, Len(pending)), Len(fed) + 1, Len(fed) + m)
            = SubSeq(fed', Len(fed) + 1, Len(fed) + m)
      BY <2>7, <2>8, <3>1, Beginning
    <3> QED
      BY <2>7, <2>9, <3>2
  <2>11. w.after + Len(w.frames) <= Len(Spoken(p))
    <3>1. Len(fed \o pending) = Len(fed) + Len(pending)
      BY <2>8, ConcatProperties
    <3> QED
      BY <2>5, <2>7, <2>8, <2>9, <3>1
  <2>12. p \in Nat /\ p <= piece'
    BY <2>4 DEF PieceNo
  <2>13. Fits(w)'
    BY <2>7, <2>9, <2>10, <2>11, <2>12 DEF Fits, Said
  <2>14. From(w)' = <<p, Until(p)>>
    BY <2>4, <2>7 DEF From, Until
  <2>15. Tiled(s)' /\ Reached(s, Len(s)) = To(w)
    BY <2>1, <2>3, <2>4, <2>6, <2>13, <2>14, Sending
  <2>16. To(w) = <<p, Len(fed')>>
    BY <2>7 DEF To
  <2>17. Until(p)' = Len(fed')
    BY <2>4 DEF Until
  <2> QED
    BY <2>15, <2>16, <2>17 DEF Reached, To
<1>23. CASE BatchCancelled
  BY <1>23 DEF AudioInv, BatchCancelled, Interrupted, Finish
<1>24. CASE BatchEnd
  <2>1. SUFFICES ASSUME NEW s \in Seq(Items), NEW p \in PieceNo,
                        s = Everything', p = piece', faults' = 0, ~cancelled'
                 PROVE  Tiled(s)' /\ (Reached(s, Len(s)) = <<p, Until(p)>>)'
    BY DEF AudioInv
  <2>2. faults = 0 /\ ~cancelled /\ UNCHANGED <<gen, stream, heard>>
    BY <1>24, <2>1 DEF BatchEnd
  <2>3. PICK r \in PieceNo : r = piece
    BY DEF IInv, Typed
  <2>4. Len(fed) = Len(Spoken(r))
    <3>1. fed \o pending = gen[r] /\ pending = <<>> /\ ~stream
      BY <1>24, <2>2, <2>3 DEF IInv, FlowInv, CodecInv, Fed, BatchEnd
    <3>2. fed \o <<>> = fed
      BY ConcatEmptySeq DEF IInv, Typed
    <3> QED
      BY <3>1, <3>2 DEF Spoken
  <2>5. Until(r) = Len(fed)
    BY <1>24, <2>3 DEF IInv, FlowInv, Until, BatchEnd
  <2>6. Spoken(r)' = Spoken(r)
    BY <2>2, SpokenSame
  <2>7. CASE r < Pieces
    <3>1. PICK w \in Items : w = Pause
      <4>1. Pause \in Items
        BY DEF IInv, Typed, Items, Pause
      <4> QED
        BY <4>1
    <3>2. w.piece = r /\ w.pause /\ w.frames = <<>>
      BY <2>3, <3>1 DEF Pause
    <3>3. chan' = Append(chan, w) /\ p = r + 1 /\ piece' = r + 1 /\ pc' = "piece"
      BY <1>24, <2>1, <2>3, <2>7, <3>1 DEF BatchEnd, Next
    <3>4. Fits(w)'
      BY <3>2, <3>3 DEF Fits, Said, PieceNo
    <3>5. From(w)' = <<r, Until(r)>>
      BY <2>4, <2>5, <2>6, <3>2 DEF From
    <3>6. Tiled(s)' /\ Reached(s, Len(s)) = To(w)
      BY <2>1, <2>2, <2>3, <3>3, <3>4, <3>5, Sending
    <3>7. To(w) = <<p, 0>> /\ Until(p)' = 0
      BY <3>2, <3>3 DEF To, Until
    <3> QED
      BY <3>6, <3>7 DEF Reached, To
  <2>8. CASE ~(r < Pieces)
    <3>1. s = Everything /\ p = r /\ pc' = "last"
      BY <1>24, <2>1, <2>3, <2>8 DEF BatchEnd, Next, Everything
    <3>2. Tiled(s)' /\ Reached(s, Len(s)) = <<p, Until(p)>>
      BY <2>2, <2>3, <3>1, Keeping
    <3>3. Until(p)' = Len(Spoken(p)')
      BY <3>1 DEF Until
    <3> QED
      BY <2>4, <2>5, <2>6, <3>1, <3>2, <3>3 DEF Reached, To
  <2> QED
    BY <2>7, <2>8
<1>25. CASE Receive
  <2>1. SUFFICES ASSUME NEW s \in Seq(Items), NEW p \in PieceNo,
                        s = Everything', p = piece', faults' = 0, ~cancelled'
                 PROVE  Tiled(s)' /\ (Reached(s, Len(s)) = <<p, Until(p)>>)'
    BY DEF AudioInv
  <2>2. p = piece /\ faults = 0 /\ ~cancelled /\ UNCHANGED <<pc, gen, stream, wave, fed>>
    BY <1>25, <2>1 DEF Receive
  <2>3. s = Everything
    <3>1. chan \in Seq(Items) /\ heard \in Seq(Items) /\ chan # <<>>
      BY <1>25 DEF IInv, Typed, Receive
    <3>2. chan' = Tail(chan) /\ heard' = Append(heard, Head(chan))
      BY <1>25, <2>2 DEF Receive
    <3> QED
      BY <2>1, <3>1, <3>2, Passed DEF Everything
  <2>4. Tiled(s)' /\ Reached(s, Len(s)) = <<p, Until(p)>>
    BY <2>2, <2>3, Keeping
  <2>5. Until(p)' = Until(p)
    BY <2>2, SpokenSame DEF Until
  <2> QED
    BY <2>4, <2>5 DEF Reached, To
<1>26. CASE Cancel
  BY <1>26 DEF AudioInv, Cancel
<1> QED
  BY <1>1, <1>2, <1>3, <1>4, <1>5, <1>6, <1>7, <1>8, <1>9, <1>10, <1>11, <1>12, <1>13,
     <1>14, <1>15, <1>16, <1>17, <1>18, <1>19, <1>20, <1>21, <1>22, <1>23, <1>24, <1>25,
     <1>26 DEF NextStep, TaskStep, LoopStep, GenerateStep, StreamStep, PlainStep, vars

----------------------------------------------------------------------------
(* The invariant holds *)

LEMMA InitInv == Init => IInv
<1> SUFFICES ASSUME Init PROVE IInv
  OBVIOUS
<1>1. 1 \in PieceNo
  BY FrameAssumption DEF PieceNo
<1>2. Pause \in Items
  BY <1>1, EmptySeq DEF Init, Pause, Items
<1>3. Typed
  <2>1. /\ gen \in [PieceNo -> Seq(Codes)] /\ context \in [PieceNo -> Seq(Codes)]
        /\ \A p \in PieceNo : gen[p] = <<>> /\ context[p] = <<>>
    BY EmptySeq DEF Init
  <2>2. chan \in Seq(Items) /\ heard \in Seq(Items) /\ Len(<<>>) = 0
    BY EmptySeq DEF Init
  <2>3. \A p \in PieceNo : Len(gen[p]) <= MaxNewFrames /\ Len(context[p]) <= ContextFrames
    BY <2>1, <2>2, FrameAssumption
  <2>4. /\ tail \in Seq(Codes) /\ Len(tail) <= ContextFrames /\ pending \in Seq(Codes)
        /\ fed \in Seq(Codes) /\ wave \in Items /\ Len(chan) <= Capacity
    BY <1>2, <2>2, EmptySeq, FrameAssumption DEF Init
  <2>5. stream \in BOOLEAN /\ pc \in Labels /\ piece \in PieceNo /\ past \in Nat
    BY <1>1 DEF Init, Labels
  <2>6. faults \in 0..MaxFaults
    BY FrameAssumption DEF Init
  <2>7. /\ valley \in BOOLEAN /\ held \in BOOLEAN /\ again \in BOOLEAN /\ started \in BOOLEAN
        /\ closed \in BOOLEAN /\ left \in BOOLEAN /\ cancelled \in BOOLEAN
    BY DEF Init
  <2> QED
    BY <2>1, <2>2, <2>3, <2>4, <2>5, <2>6, <2>7 DEF Typed
<1>4. FlowInv /\ GenInv /\ PastLives /\ CodecInv /\ WaveInv
  BY DEF Init, FlowInv, GenInv, PastLives, CodecInv, Fed, CallingBack, WaveInv
<1>5. AudioInv
  <2>1. Everything = <<>> /\ Len(<<>>) = 0
    BY EmptySeq, ConcatEmptySeq DEF Init, Everything
  <2> QED
    BY <2>1 DEF Init, AudioInv, Tiled, Reached, Until
<1>6. ContextInv /\ TailInv
  <2>1. EndOf(1, <<>>)
    BY DEF EndOf, PieceNo
  <2> QED
    BY <2>1 DEF Init, ContextInv, TailInv, TailOf, OwnTail, NextTail, PieceNo
<1> QED
  BY <1>3, <1>4, <1>5, <1>6 DEF IInv

(* Of every instance of FrameStream: the invariant. *)
THEOREM Invariance == Spec => []IInv
<1>1. IInv /\ [NextStep]_vars => IInv'
  <2> SUFFICES ASSUME IInv, [NextStep]_vars PROVE IInv'
    OBVIOUS
  <2> QED
    BY TypedStep, FlowStep, GenStep, PastStep, CodecStep, WaveStep, AudioStep, ContextStep,
       TailStep
       DEF IInv
<1> QED
  BY <1>1, InitInv, PTL DEF Spec

(* The variables keep their types, a stream's channel never holds more than its capacity, and *)
(* no piece has more frames than the request allows.                                          *)
THEOREM TypeCorrect == Spec => []TypeOK
<1>1. IInv => TypeOK
  BY DEF IInv, Typed, TypeOK
<1> QED
  BY <1>1, Invariance, PTL

(* No run of the model reads tensors that were destroyed or leaves its own behind, and the  *)
(* codec is fed the frames of one piece in their order and from the start.                  *)
THEOREM StateIsCarried == Spec => []StateCarriesOn
<1>1. IInv => StateCarriesOn
  <2> SUFFICES ASSUME IInv PROVE CodecContinues
    BY DEF IInv, StateCarriesOn
  <2>1. piece \in PieceNo
    BY DEF IInv, Typed
  <2>2. faults = 0 => Fed(piece)
    BY <2>1 DEF IInv, CodecInv
  <2> QED
    BY <2>2 DEF Fed, CallingBack, CodecContinues
<1> QED
  BY <1>1, Invariance, PTL

(* A synthesis that neither fails nor is cancelled sends every frame of every piece once, in *)
(* order, with the pauses between.                                                           *)
THEOREM AllIsSent == Spec => []NothingLost
<1>1. IInv => NothingLost
  <2> SUFFICES ASSUME IInv, closed, ~cancelled, faults = 0
               PROVE  /\ \A i \in DOMAIN Everything :
                           /\ From(Everything[i]) = Reached(Everything, i - 1)
                           /\ Everything[i].frames = Said(Everything[i])
                      /\ Reached(Everything, Len(Everything)) = <<Pieces, Len(Spoken(Pieces))>>
    BY DEF NothingLost
  <2>1. Everything \in Seq(Items) /\ DOMAIN Everything = 1..Len(Everything)
    BY ConcatProperties, LenProperties DEF IInv, Typed, Everything
  <2>2. pc = "end" /\ piece = Pieces /\ Pieces \in PieceNo
    BY FrameAssumption DEF IInv, FlowInv, PieceNo
  <2>3. Tiled(Everything) /\ Reached(Everything, Len(Everything)) = <<Pieces, Until(Pieces)>>
    BY <2>1, <2>2 DEF IInv, AudioInv
  <2>4. Until(Pieces) = Len(Spoken(Pieces))
    BY <2>2 DEF Until
  <2> QED
    BY <2>1, <2>3, <2>4 DEF Tiled, Fits
<1> QED
  BY <1>1, Invariance, PTL

(* The acoustic context of a piece is the end of the last piece before it that was spoken. *)
THEOREM ContextIsRight == Spec => []ContextIsLastSpoken
<1>1. IInv => ContextIsLastSpoken
  <2> SUFFICES ASSUME IInv, NEW p \in 1..piece, p = piece => pc \notin {"piece", "end"}
               PROVE  LET spoken == {q \in 1..(p - 1) : Spoken(q) # <<>>}
                      IN context[p] = IF spoken = {} THEN <<>>
                                      ELSE LastOf(Spoken(Max(spoken)), ContextFrames)
    BY DEF ContextIsLastSpoken
  <2> DEFINE spoken == {q \in 1..(p - 1) : Spoken(q) # <<>>}
  <2>1. /\ p \in PieceNo /\ p \in Nat /\ p <= piece
        /\ \A q \in PieceNo : q < p => q \in 1..(p - 1)
        /\ \A q \in 1..(p - 1) : q \in PieceNo /\ q < p
    <3>1. piece \in 1..Pieces /\ Pieces \in Nat
      BY FrameAssumption DEF IInv, Typed, PieceNo
    <3> QED
      BY <3>1 DEF PieceNo
  <2>2. EndOf(p, context[p])
    BY <2>1 DEF IInv, Typed, ContextInv
  <2>3. CASE context[p] = <<>> /\ \A q \in PieceNo : q < p => Spoken(q) = <<>>
    <3>1. spoken = {}
      BY <2>1, <2>3
    <3> QED
      BY <2>3, <3>1
  <2>4. ASSUME NEW q \in PieceNo, q < p, Spoken(q) # <<>>,
               context[p] = LastOf(Spoken(q), ContextFrames),
               \A r \in PieceNo : q < r /\ r < p => Spoken(r) = <<>>
        PROVE  spoken # {} /\ context[p] = LastOf(Spoken(Max(spoken)), ContextFrames)
    <3>1. q \in spoken /\ spoken \subseteq 1..(p - 1) /\ q \in Nat
      BY <2>1, <2>4 DEF PieceNo
    <3>2. \A r \in spoken : r <= q
      BY <2>1, <2>4, <3>1
    <3>3. \A x \in spoken : (\A r \in spoken : r <= x) => x = q
      BY <3>1, <3>2
    <3> HIDE DEF spoken
    <3>4. Max(spoken) = q
      <4>1. \E x \in spoken : \A r \in spoken : x >= r
        BY <3>1, <3>2
      <4> QED
        BY <3>1, <3>3, <4>1 DEF Max
    <3> QED
      BY <2>4, <3>1, <3>4
  <2> QED
    BY <2>2, <2>3, <2>4 DEF EndOf
<1> QED
  BY <1>1, Invariance, PTL

----------------------------------------------------------------------------
(* FrameStream implements Speech. *)

(* No frame waits when a stream goes from one piece to the next, and the codec is reset. *)
TurnInv ==
  /\ stream /\ pc \in {"piece", "sendlast", "pause"} => pending = <<>>
  /\ stream /\ pc = "piece" => fed = <<>>

LEMMA TurnStep ==
  ASSUME IInv, TurnInv, [NextStep]_vars
  PROVE  TurnInv'
<1>0. stream' = stream
  BY StreamSame
<1>1. CASE UNCHANGED <<pc, pending, fed>>
  BY <1>0, <1>1 DEF TurnInv
<1>2. CASE PieceCancelled \/ GeneratedCancelled \/ PauseCancelled \/ BatchCancelled
  BY <1>2 DEF TurnInv, PieceCancelled, GeneratedCancelled, PauseCancelled, BatchCancelled,
     Interrupted, Finish
<1>3. CASE Piece \/ Generated \/ End \/ PrefillNone \/ Prefill \/ StepCancelled \/ StepStops
        \/ StepRebounds \/ Decode \/ DecodeFails \/ Free
  BY <1>3 DEF TurnInv, Piece, Generated, End, PrefillNone, Prefill, StepCancelled, StepStops,
     StepRebounds, Decode, DecodeFails, Free
<1>4. ASSUME NEW f \in Codes, NEW pr \in {"none", "low", "high"}, StepFrame(f, pr)
      PROVE  TurnInv'
  BY <1>4 DEF TurnInv, StepFrame
<1>5. CASE CallbackWaits \/ CallbackDecodes
  BY <1>5 DEF TurnInv, CallbackWaits, CallbackDecodes
<1>6. CASE Flush
  BY <1>6 DEF TurnInv, Flush
<1>7. CASE Send
  BY <1>0, <1>7 DEF TurnInv, Send
<1>8. CASE SendPause
  BY <1>0, <1>8 DEF TurnInv, SendPause, Next
<1>9. CASE Batch \/ BatchEnd
  BY <1>0, <1>9 DEF IInv, FlowInv, TurnInv, Batch, BatchEnd, Next
<1>10. CASE Receive \/ Cancel
  BY <1>1, <1>10 DEF Receive, Cancel
<1> QED
  BY <1>1, <1>2, <1>3, <1>4, <1>5, <1>6, <1>7, <1>8, <1>9, <1>10
     DEF NextStep, TaskStep, LoopStep, GenerateStep, StreamStep, PlainStep, vars

LEMMA TurnInvariance == Spec => []TurnInv
<1>1. Init => TurnInv
  BY DEF Init, TurnInv
<1> QED
  BY <1>1, TurnStep, Invariance, PTL DEF Spec

(* A step that the listener does not notice, and a step that is one of Speech or none. *)
SpeechSame == UNCHANGED <<Phase, Text, Rest, Decoded, Way, stream, piece, heard, left, cancelled, faults>>
SpeechMoves == Speaker!SpeechNext \/ SpeechSame

LEMMA TextSame == ASSUME UNCHANGED <<gen, stream>> PROVE Text' = Text
  BY SpokenSame DEF Text

(* Only what one piece says is changed. *)
LEMMA TextMoves ==
  ASSUME NEW s, gen \in [PieceNo -> Seq(Codes)], piece \in PieceNo, stream' = stream,
         gen' = [gen EXCEPT ![piece] = s]
  PROVE  \A p \in PieceNo : p = piece => Text' = [Text EXCEPT ![piece] = Spoken(p)']
<1>1. \A q \in PieceNo : q # piece => Spoken(q)' = Spoken(q)
  BY SpokenSame
<1>2. \A q \in PieceNo : Text'[q] = Spoken(q)' /\ Text[q] = Spoken(q)
  BY DEF Text
<1>3. Text = [q \in PieceNo |-> Text[q]] /\ Text' = [q \in PieceNo |-> Text'[q]]
  BY DEF Text
<1> QED
  BY <1>1, <1>2, <1>3

(* What lies behind the first k frames of a sequence. *)
LEMMA BehindNone == ASSUME NEW s \in Seq(Codes) PROVE SubSeq(s, 0 + 1, Len(s)) = s
  BY SubSeqProperties, SeqEqual

LEMMA BehindAll == ASSUME NEW s \in Seq(Codes) PROVE SubSeq(s, Len(s) + 1, Len(s)) = <<>>
  BY SubSeqProperties, EmptySeq

LEMMA WholeFront == ASSUME NEW s \in Seq(Codes) PROVE SubSeq(s, 1, Len(s)) = s
  BY SubSeqProperties, SeqEqual

(* Labels between which nothing is heard. *)
LEMMA Unnoticed ==
  ASSUME UNCHANGED <<stream, piece, gen, pending, fed, chan, heard, left, cancelled, faults>>,
         pc \notin {"last", "end", "send", "sendlast"}, pc' \notin {"last", "end", "send", "sendlast"},
         pc = "batch" <=> pc' = "batch"
  PROVE  SpeechSame
  BY TextSame DEF SpeechSame, Phase, Rest, Decoded, Way

LEMMA QuietSteps ==
  ASSUME IInv, TurnInv,
         Piece \/ Generated \/ Prefill \/ StepStops \/ StepRebounds \/ Decode \/ Free \/ CallbackWaits
  PROVE  SpeechMoves
<1>1. CASE Prefill \/ StepStops \/ StepRebounds \/ Decode \/ Free \/ CallbackWaits
  BY <1>1, Unnoticed DEF SpeechMoves, Prefill, StepStops, StepRebounds, Decode, Free, CallbackWaits
<1>2. CASE Piece
  <2>1. UNCHANGED <<gen, stream, piece, chan, heard, left, cancelled, faults>>
        /\ pc = "piece" /\ pc' = "prefill" /\ pending' = <<>> /\ fed' = IF stream THEN <<>> ELSE fed
    BY <1>2 DEF Piece
  <2>2. stream => pending = <<>> /\ fed = <<>>
    BY <2>1 DEF TurnInv
  <2> QED
    BY <2>1, <2>2, TextSame DEF SpeechMoves, SpeechSame, Phase, Rest, Decoded, Way
<1>3. CASE Generated
  <2>1. UNCHANGED <<gen, stream, piece, chan, heard, left, cancelled, faults>>
        /\ pc = "generated" /\ pc' = "batch" /\ ~stream /\ fed' = <<>> /\ pending' = gen[piece]
    BY <1>3 DEF Generated
  <2>2. Len(fed') = 0
    BY <2>1
  <2> QED
    BY <2>1, <2>2, TextSame DEF SpeechMoves, SpeechSame, Phase, Rest, Decoded, Way
<1> QED
  BY <1>1, <1>2, <1>3

(* An early end, at any of the places where the code looks at the context. *)
LEMMA BreakOffMaps ==
  ASSUME IInv, PieceCancelled \/ GeneratedCancelled \/ PauseCancelled \/ BatchCancelled
  PROVE  SpeechMoves
<1>1. /\ UNCHANGED <<stream, piece, gen, chan, heard, left, cancelled, faults>>
      /\ cancelled /\ pc' = "end" /\ pc \in {"piece", "generated", "pause", "batch"}
  BY DEF PieceCancelled, GeneratedCancelled, PauseCancelled, BatchCancelled, Interrupted, Finish
<1>2. Phase = "speaking" /\ Phase' = "over" /\ Rest' = <<>> /\ Decoded' = 0 /\ Way' = Way
  BY <1>1 DEF Phase, Rest, Decoded, Way
<1>3. Speaker!BreakOff
  BY <1>1, <1>2, TextSame DEF Speaker!BreakOff, Speaker!heardVars, Speaker!causeVars
<1> QED
  BY <1>3 DEF SpeechMoves, Speaker!SpeechNext

LEMMA CloseMaps == ASSUME IInv, End PROVE SpeechMoves
<1>1. /\ UNCHANGED <<stream, piece, gen, left, cancelled, faults>>
      /\ pc = "last" /\ pc' = "end"
      /\ IF stream THEN UNCHANGED <<chan, heard>> ELSE heard' = chan /\ chan' = <<>>
  BY DEF End
<1>2. Phase = "spoken" /\ Phase' = "over" /\ Rest' = Rest /\ Decoded' = Decoded
  BY <1>1 DEF Phase, Rest, Decoded
<1>3. Way = chan /\ Way' = chan'
  BY <1>1 DEF Way
<1>4. ~stream => heard \o chan = chan
  <2>1. ~stream => heard = <<>>
    BY <1>1 DEF IInv, FlowInv
  <2>2. chan \in Seq(Items)
    BY DEF IInv, Typed
  <2> QED
    BY <2>1, <2>2, ConcatEmptySeq
<1>5. Speaker!Close
  BY <1>1, <1>2, <1>3, <1>4, TextSame DEF Speaker!Close, Speaker!madeVars, Speaker!causeVars
<1> QED
  BY <1>5 DEF SpeechMoves, Speaker!SpeechNext

(* A fault in a run of the model. *)
LEMMA GeneratorFaultMaps == ASSUME IInv, PrefillNone \/ DecodeFails PROVE SpeechMoves
<1>1. /\ UNCHANGED <<stream, piece, gen, pending, fed, chan, heard, left, cancelled>>
      /\ pc \in {"prefill", "decode"} /\ pc' \in {"generated", "free"}
      /\ faults' = faults \/ Fault
  BY DEF PrefillNone, DecodeFails
<1>2. /\ UNCHANGED <<Phase, Rest, Decoded, Way, Text>>
      /\ Phase = "speaking"
  BY <1>1, TextSame DEF Phase, Rest, Decoded, Way
<1>3. CASE faults' = faults
  BY <1>1, <1>2, <1>3 DEF SpeechMoves, SpeechSame
<1>4. CASE Fault
  <2>1. Rest \in Seq(Codes)
    BY DEF IInv, Typed, Rest
  <2>2. SubSeq(Rest, 0 + 1, Len(Rest)) = Rest /\ 0 \in 0..Len(Rest)
    BY <2>1, BehindNone
  <2>3. Speaker!Stumble(0)
    BY <1>1, <1>2, <1>4, <2>2 DEF Fault, Speaker!Stumble, Speaker!Behind, Speaker!heardVars
  <2> QED
    BY <2>2, <2>3 DEF SpeechMoves, Speaker!SpeechNext
<1> QED
  BY <1>1, <1>3, <1>4

LEMMA GiveUpTextMaps == ASSUME IInv, StepCancelled PROVE SpeechMoves
<1>1. /\ UNCHANGED <<stream, piece, pending, fed, chan, heard, left, cancelled, faults>>
      /\ pc = "step" /\ pc' = "generated" /\ cancelled /\ gen' = [gen EXCEPT ![piece] = <<>>]
  BY DEF StepCancelled
<1>2. gen \in [PieceNo -> Seq(Codes)] /\ piece \in PieceNo
  BY DEF IInv, Typed
<1>3. gen'[piece] = <<>>
  BY <1>1, <1>2
<1>4. UNCHANGED <<Phase, Decoded, Way>> /\ Phase = "speaking" /\ Rest' \in {Rest, <<>>}
  BY <1>1, <1>3 DEF Phase, Rest, Decoded, Way
<1>5. Text' = [Text EXCEPT ![piece] = <<>>]
  <2>1. ASSUME NEW p \in PieceNo, p = piece PROVE Spoken(p)' = <<>>
    BY <1>3, <2>1, FrozenEmpty, <1>1 DEF Spoken
  <2> QED
    BY <1>1, <1>2, <2>1, TextMoves
<1>6. Speaker!GiveUpText
  BY <1>1, <1>4, <1>5 DEF Speaker!GiveUpText, Speaker!heardVars, Speaker!causeVars
<1> QED
  BY <1>6 DEF SpeechMoves, Speaker!SpeechNext

(* A frame is made: part of what is said, or the one that ends a stream's piece by repeating. *)
LEMMA ThinkMaps ==
  ASSUME IInv, NEW f \in Codes, NEW pr \in {"none", "low", "high"}, StepFrame(f, pr)
  PROVE  SpeechMoves
<1>1. /\ UNCHANGED <<stream, piece, fed, chan, heard, left, cancelled, faults>>
      /\ pc = "step" /\ pc' \in {"free", "callback", "decode"}
      /\ gen' = [gen EXCEPT ![piece] = Append(@, f)]
  BY DEF StepFrame
<1>2. gen \in [PieceNo -> Seq(Codes)] /\ piece \in PieceNo
  BY DEF IInv, Typed
<1>3. UNCHANGED <<Phase, Decoded, Way>> /\ Phase = "speaking"
  BY <1>1 DEF Phase, Decoded, Way
<1>4. gen'[piece] = Append(gen[piece], f)
  BY <1>1, <1>2
<1>5. ASSUME NEW q \in PieceNo, q = piece PROVE SpeechMoves
  <2>1. Text' = [Text EXCEPT ![piece] = Spoken(q)'] /\ Text[piece] = Spoken(q)
    BY <1>1, <1>2, <1>5, TextMoves DEF Text
  <2>2. CASE stream /\ pc' = "free" /\ Spoken(q)' = Spoken(q) /\ UNCHANGED pending
    <3>1. Rest' = Rest
      BY <1>1, <2>2 DEF Rest, Phase
    <3>2. Text' = Text
      BY <2>1, <2>2, <1>5 DEF Text
    <3> QED
      BY <1>1, <1>3, <3>1, <3>2 DEF SpeechMoves, SpeechSame
  <2>3. CASE /\ Spoken(q)' = Append(Spoken(q), f)
             /\ IF stream THEN pending' = Append(pending, f) ELSE UNCHANGED pending
    <3>1. Rest' = Append(Rest, f)
      BY <1>1, <1>4, <2>3 DEF Rest, Phase
    <3>2. Text' = [Text EXCEPT ![piece] = Append(@, f)]
      BY <2>1, <2>3
    <3>3. Speaker!Think(f)
      BY <1>1, <1>3, <3>1, <3>2 DEF Speaker!Think, Speaker!heardVars, Speaker!causeVars
    <3> QED
      BY <3>3 DEF SpeechMoves, Speaker!SpeechNext
  <2> QED
    BY <2>2, <2>3, <1>5, Grown
<1> QED
  BY <1>2, <1>5

(* n frames go through the codec and their audio is on its way, or they are lost by a fault. *)
LEMMA SpeakMaps ==
  ASSUME IInv, NEW n \in 1..Len(pending), RunFrames(n),
         UNCHANGED <<stream, piece, gen, heard, left, cancelled>>,
         Phase = "speaking", Phase' = "speaking", Rest = pending, Decoded = Len(fed),
         Rest' = SubSeq(pending, n + 1, Len(pending)), Decoded' = Len(fed'),
         Way' = Append(Way, wave')
  PROVE  SpeechMoves
<1>1. n \in 0..Len(pending) /\ n > 0 /\ pending \in Seq(Codes)
  BY DEF IInv, Typed
<1>2. Len(fed') = Len(fed) + n
  BY <1>1, Ran DEF IInv
<1> DEFINE seeded == piece = 1 /\ ~started'
<1>3. seeded \in BOOLEAN /\ faults' = faults
  BY DEF RunFrames
<1>4. wave' = Speaker!Sound(SubSeq(pending, 1, n), seeded)
  BY DEF RunFrames, Audio, Speaker!Sound
<1> HIDE DEF seeded
<1>5. Speaker!Speak(n, seeded)
  BY <1>1, <1>2, <1>3, <1>4, TextSame DEF Speaker!Speak, Speaker!Behind, Speaker!causeVars
<1> QED
  BY <1>1, <1>3, <1>5 DEF SpeechMoves, Speaker!SpeechNext

LEMMA StumbleMaps ==
  ASSUME IInv, NEW n \in 0..Len(pending), RunFramesFails,
         UNCHANGED <<stream, piece, gen, heard, left, cancelled, Way, Decoded>>,
         Phase = "speaking", Phase' = "speaking", Rest = pending,
         Rest' = SubSeq(pending, n + 1, Len(pending))
  PROVE  SpeechMoves
<1>1. faults' = faults + 1
  BY DEF RunFramesFails, Fault
<1>2. Speaker!Stumble(n)
  BY <1>1, TextSame DEF Speaker!Stumble, Speaker!Behind, Speaker!heardVars
<1> QED
  BY <1>2 DEF SpeechMoves, Speaker!SpeechNext

LEMMA CallbackMaps == ASSUME IInv, CallbackDecodes PROVE SpeechMoves
<1>1. /\ UNCHANGED <<stream, piece, gen, chan, heard, left, cancelled>>
      /\ pc = "callback" /\ stream
  BY DEF CallbackDecodes, IInv, FlowInv
<1>2. PICK b \in IF started THEN Budgets ELSE {FirstBudget} :
        /\ Len(pending) >= b /\ pending' = SubSeq(pending, b + 1, Len(pending))
        /\ \/ pc' = "send" /\ RunFrames(b)
           \/ pc' = "decode" /\ RunFramesFails
  BY DEF CallbackDecodes
<1>3. b \in 1..Len(pending) /\ b \in 0..Len(pending)
  <2>1. b \in Nat \ {0}
    BY FrameAssumption
  <2>2. Len(pending) \in Nat
    BY DEF IInv, Typed
  <2> QED
    BY <1>2, <2>1, <2>2
<1>4. /\ Phase = "speaking" /\ Rest = pending /\ Decoded = Len(fed) /\ Way = chan
  BY <1>1 DEF Phase, Rest, Decoded, Way
<1>5. CASE pc' = "send" /\ RunFrames(b)
  <2>1. /\ Phase' = "speaking" /\ Rest' = SubSeq(pending, b + 1, Len(pending))
        /\ Decoded' = Len(fed') /\ Way' = Append(Way, wave')
    BY <1>1, <1>2, <1>4, <1>5 DEF Phase, Rest, Decoded, Way
  <2> QED
    BY <1>1, <1>3, <1>4, <1>5, <2>1, SpeakMaps
<1>6. CASE pc' = "decode" /\ RunFramesFails
  <2>1. /\ Phase' = "speaking" /\ Rest' = SubSeq(pending, b + 1, Len(pending))
        /\ Decoded' = Decoded /\ Way' = Way
    BY <1>1, <1>2, <1>4, <1>6 DEF Phase, Rest, Decoded, Way, RunFramesFails
  <2> QED
    BY <1>1, <1>3, <1>4, <1>6, <2>1, StumbleMaps
<1> QED
  BY <1>2, <1>5, <1>6

LEMMA FlushMaps == ASSUME IInv, Flush PROVE SpeechMoves
<1>1. /\ UNCHANGED <<stream, piece, gen, chan, heard, left, cancelled>>
      /\ pc = "generated" /\ stream /\ pending' = <<>> /\ pc' \in {"pause", "sendlast"}
  BY DEF Flush
<1>2. /\ Phase = "speaking" /\ Rest = pending /\ Decoded = Len(fed) /\ Way = chan
      /\ Phase' = "speaking" /\ Rest' = <<>> /\ Decoded' = Len(fed')
  BY <1>1 DEF Phase, Rest, Decoded, Way
<1>3. pending \in Seq(Codes) /\ SubSeq(pending, Len(pending) + 1, Len(pending)) = <<>>
  BY BehindAll DEF IInv, Typed
<1>4. Len(pending) \in Nat /\ (pending # <<>> => Len(pending) > 0)
  BY <1>3, EmptySeq
<1>5. CASE pending = <<>> /\ pc' = "pause" /\ UNCHANGED <<started, fed, wave, faults>>
  <2>1. Way' = chan
    BY <1>1, <1>5 DEF Way
  <2> QED
    BY <1>1, <1>2, <1>5, <2>1, TextSame DEF SpeechMoves, SpeechSame
<1>6. CASE pending # <<>> /\ pc' = "sendlast" /\ RunFrames(Len(pending))
  <2>1. Way' = Append(Way, wave')
    BY <1>1, <1>2, <1>6 DEF Way
  <2>2. Len(pending) \in 1..Len(pending)
    BY <1>4, <1>6
  <2>3. Rest' = SubSeq(pending, Len(pending) + 1, Len(pending))
    BY <1>2, <1>3
  <2> QED
    BY <1>1, <1>2, <1>6, <2>1, <2>2, <2>3, SpeakMaps
<1>7. CASE pending # <<>> /\ pc' = "pause" /\ RunFramesFails
  <2>1. Way' = Way /\ Decoded' = Decoded
    BY <1>1, <1>2, <1>7 DEF Way, RunFramesFails
  <2>2. Len(pending) \in 0..Len(pending)
    BY <1>4
  <2>3. Rest' = SubSeq(pending, Len(pending) + 1, Len(pending))
    BY <1>2, <1>3
  <2> QED
    BY <1>1, <1>2, <1>7, <2>1, <2>2, <2>3, StumbleMaps
<1> QED
  BY <1>5, <1>6, <1>7 DEF Flush

LEMMA BatchMaps == ASSUME IInv, Batch PROVE SpeechMoves
<1>1. /\ UNCHANGED <<stream, piece, gen, heard, left, cancelled>>
      /\ pc = "batch" /\ pc' = "batch" /\ pending # <<>>
  BY DEF Batch
<1>2. /\ Phase = "speaking" /\ Rest = pending /\ Decoded = Len(fed) /\ Way = chan
      /\ Phase' = "speaking" /\ Rest' = pending' /\ Decoded' = Len(fed') /\ Way' = chan'
  BY <1>1 DEF Phase, Rest, Decoded, Way
<1>3. pending \in Seq(Codes) /\ SubSeq(pending, Len(pending) + 1, Len(pending)) = <<>>
  BY BehindAll DEF IInv, Typed
<1>4. Len(pending) \in Nat /\ Len(pending) > 0
  BY <1>1, <1>3, EmptySeq
<1> DEFINE n == Min({BatchSize, Len(pending)})
<1>5. n \in 1..Len(pending) /\ n \in 0..Len(pending) /\ Len(pending) \in 0..Len(pending)
  BY <1>4, MinTwo, FrameAssumption
<1>6. \/ /\ RunFrames(n) /\ chan' = Append(chan, wave')
         /\ pending' = SubSeq(pending, n + 1, Len(pending))
      \/ /\ RunFramesFails /\ UNCHANGED chan
         /\ pending' = IF started THEN SubSeq(pending, n + 1, Len(pending)) ELSE <<>>
  BY DEF Batch
<1> HIDE DEF n
<1>7. CASE /\ RunFrames(n) /\ chan' = Append(chan, wave')
           /\ pending' = SubSeq(pending, n + 1, Len(pending))
  BY <1>1, <1>2, <1>5, <1>7, SpeakMaps
<1>8. CASE /\ RunFramesFails /\ UNCHANGED chan
           /\ pending' = IF started THEN SubSeq(pending, n + 1, Len(pending)) ELSE <<>>
  <2>1. UNCHANGED <<Way, Decoded>>
    BY <1>2, <1>8 DEF RunFramesFails
  <2>2. CASE started
    BY <1>1, <1>2, <1>5, <1>8, <2>1, <2>2, StumbleMaps
  <2>3. CASE ~started
    <3>1. Rest' = SubSeq(pending, Len(pending) + 1, Len(pending))
      BY <1>2, <1>3, <1>8, <2>3
    <3> QED
      BY <1>1, <1>2, <1>5, <1>8, <2>1, <3>1, StumbleMaps
  <2> QED
    BY <2>2, <2>3
<1> QED
  BY <1>6, <1>7, <1>8

(* The wave that is sent was on its way already; a cancelled send gives it up. *)
LEMMA SendMaps == ASSUME IInv, Send PROVE SpeechMoves
<1>1. /\ UNCHANGED <<stream, piece, gen, pending, fed, heard, left, cancelled, faults>>
      /\ pc \in {"send", "sendlast"} /\ pc' \in {"decode", "pause"} /\ stream
  BY DEF Send, IInv, FlowInv
<1>2. /\ UNCHANGED <<Phase, Rest, Decoded, Text>> /\ Phase = "speaking"
      /\ Way = Append(chan, wave) /\ Way' = chan'
  BY <1>1, TextSame DEF Phase, Rest, Decoded, Way
<1>3. CASE chan' = Append(chan, wave)
  BY <1>1, <1>2, <1>3 DEF SpeechMoves, SpeechSame
<1>4. CASE cancelled /\ UNCHANGED chan
  <2>1. chan \in Seq(Items) /\ wave \in Items
    BY DEF IInv, Typed
  <2>2. Way # <<>> /\ Len(Way) - 1 = Len(chan) /\ SubSeq(Way, 1, Len(Way) - 1) = chan
    BY <1>2, <2>1, AppendProperties, SubSeqProperties, SeqEqual
  <2>3. Speaker!GiveUpSound
    BY <1>1, <1>2, <1>4, <2>2 DEF Speaker!GiveUpSound, Speaker!madeVars, Speaker!causeVars
  <2> QED
    BY <2>3 DEF SpeechMoves, Speaker!SpeechNext
<1> QED
  BY <1>3, <1>4 DEF Send, Sent

(* A piece is over: the next one, after a pause, or the last word. *)
LEMMA TurnMaps == ASSUME IInv, TurnInv, SendPause \/ BatchEnd PROVE SpeechMoves
<1>1. /\ UNCHANGED <<stream, gen, pending, heard, left, cancelled, faults>>
      /\ pc \in {"pause", "batch"} /\ (pc = "batch" <=> ~stream) /\ Next /\ pending = <<>>
      /\ stream => fed' = <<>>
      /\ chan' = IF piece < Pieces THEN Append(chan, Pause) ELSE chan
  BY DEF SendPause, BatchEnd, IInv, FlowInv, TurnInv
<1>2. Len(<<>>) = 0 /\ piece \in 1..Pieces /\ Pieces \in Nat
  BY FrameAssumption DEF IInv, Typed, PieceNo
<1>3. /\ Phase = "speaking" /\ Rest = <<>> /\ Way = chan /\ Text' = Text
  BY <1>1, TextSame DEF Phase, Rest, Way
<1>4. CASE piece < Pieces
  <2>1. pc' = "piece" /\ piece' = piece + 1 /\ chan' = Append(chan, Pause)
    BY <1>1, <1>4 DEF Next
  <2>2. gen[piece + 1] = <<>>
    BY <1>2, <1>4 DEF IInv, GenInv, PieceNo
  <2>3. Phase' = "speaking" /\ Rest' = <<>> /\ Decoded' = 0 /\ Way' = Append(Way, Pause)
    BY <1>1, <1>2, <1>3, <2>1, <2>2 DEF Phase, Rest, Decoded, Way
  <2>4. Pause = Speaker!Silence
    BY DEF Pause, Speaker!Silence
  <2>5. Speaker!TurnPage
    BY <1>1, <1>3, <1>4, <2>1, <2>3, <2>4 DEF Speaker!TurnPage, Speaker!causeVars
  <2> QED
    BY <2>5 DEF SpeechMoves, Speaker!SpeechNext
<1>5. CASE ~(piece < Pieces)
  <2>1. pc' = "last" /\ piece' = piece /\ chan' = chan /\ piece = Pieces
    BY <1>1, <1>2, <1>5 DEF Next
  <2>2. Phase' = "spoken" /\ Rest' = <<>> /\ Decoded' = 0 /\ Way' = Way
    BY <1>3, <2>1 DEF Phase, Rest, Decoded, Way
  <2>3. Speaker!LastWord
    BY <1>1, <1>3, <2>1, <2>2 DEF Speaker!LastWord, Speaker!heardVars, Speaker!causeVars
  <2> QED
    BY <2>3 DEF SpeechMoves, Speaker!SpeechNext
<1> QED
  BY <1>4, <1>5

LEMMA ReceiveMaps == ASSUME IInv, Receive PROVE SpeechMoves
<1>1. /\ UNCHANGED <<stream, pc, piece, gen, pending, fed, wave, cancelled, faults>>
      /\ stream /\ ~left /\ chan # <<>> /\ chan' = Tail(chan)
      /\ IF cancelled THEN left' = TRUE /\ UNCHANGED heard
                      ELSE heard' = Append(heard, Head(chan)) /\ UNCHANGED left
  BY DEF Receive
<1>2. UNCHANGED <<Phase, Rest, Decoded, Text>>
  BY <1>1, TextSame DEF Phase, Rest, Decoded
<1>3. Way # <<>> /\ Head(Way) = Head(chan) /\ Way' = Tail(Way)
  <2>1. chan \in Seq(Items) /\ wave \in Items
    BY DEF IInv, Typed
  <2>2. /\ Append(chan, wave) # <<>> /\ Head(Append(chan, wave)) = Head(chan)
        /\ Append(Tail(chan), wave) = Tail(Append(chan, wave))
    <3>1. Len(chan) \in Nat \ {0} /\ Tail(chan) \in Seq(Items) /\ Len(Tail(chan)) = Len(chan) - 1
          /\ \A i \in 1..(Len(chan) - 1) : Tail(chan)[i] = chan[i + 1]
      BY <1>1, <2>1, EmptySeq, HeadTailProperties
    <3>2. /\ Append(chan, wave) \in Seq(Items) /\ Append(chan, wave) # <<>>
          /\ Len(Append(chan, wave)) = Len(chan) + 1
          /\ \A i \in 1..Len(chan) : Append(chan, wave)[i] = chan[i]
          /\ Append(chan, wave)[Len(chan) + 1] = wave
      BY <2>1, AppendProperties
    <3>3. /\ Append(Tail(chan), wave) \in Seq(Items)
          /\ Len(Append(Tail(chan), wave)) = Len(chan)
          /\ \A i \in 1..(Len(chan) - 1) : Append(Tail(chan), wave)[i] = Tail(chan)[i]
          /\ Append(Tail(chan), wave)[Len(chan)] = wave
      BY <2>1, <3>1, AppendProperties
    <3>4. /\ Tail(Append(chan, wave)) \in Seq(Items)
          /\ Len(Tail(Append(chan, wave))) = Len(chan)
          /\ \A i \in 1..Len(chan) : Tail(Append(chan, wave))[i] = Append(chan, wave)[i + 1]
          /\ Head(Append(chan, wave)) = Append(chan, wave)[1]
      BY <3>1, <3>2, HeadTailProperties
    <3>5. Head(chan) = chan[1]
      BY <1>1, <2>1
    <3>6. ASSUME NEW i \in 1..Len(chan)
          PROVE  Append(Tail(chan), wave)[i] = Tail(Append(chan, wave))[i]
      <4>1. CASE i = Len(chan)
        BY <4>1, <3>1, <3>2, <3>3, <3>4
      <4>2. CASE i \in 1..(Len(chan) - 1)
        BY <4>2, <3>1, <3>2, <3>3, <3>4
      <4>3. i = Len(chan) \/ i \in 1..(Len(chan) - 1)
        <5>1. Len(chan) \in Nat \ {0}
          BY <3>1
        <5> QED
          BY <5>1
      <4> QED
        BY ONLY <4>1, <4>2, <4>3
    <3>7. Append(Tail(chan), wave) = Tail(Append(chan, wave))
      BY <3>3, <3>4, <3>6, SeqEqual
    <3> QED
      BY <3>1, <3>2, <3>4, <3>5, <3>7
  <2> QED
    BY <1>1, <2>2 DEF Way
<1>4. CASE cancelled
  <2>1. Speaker!Leave
    BY <1>1, <1>2, <1>3, <1>4 DEF Speaker!Leave, Speaker!madeVars, Speaker!causeVars
  <2> QED
    BY <2>1 DEF SpeechMoves, Speaker!SpeechNext
<1>5. CASE ~cancelled
  <2>1. Speaker!Hear
    BY <1>1, <1>2, <1>3, <1>5 DEF Speaker!Hear, Speaker!madeVars, Speaker!causeVars
  <2> QED
    BY <2>1 DEF SpeechMoves, Speaker!SpeechNext
<1> QED
  BY <1>4, <1>5

LEMMA CancelMaps == ASSUME IInv, Cancel PROVE SpeechMoves
<1>1. /\ UNCHANGED <<stream, pc, piece, gen, pending, fed, wave, chan, heard, left, faults>>
      /\ pc # "end" /\ cancelled' = TRUE
  BY DEF Cancel, IInv, FlowInv
<1>2. UNCHANGED <<Phase, Rest, Decoded, Way, Text>> /\ Phase # "over"
  BY <1>1, TextSame DEF Phase, Rest, Decoded, Way
<1>3. Speaker!Cancel
  BY <1>1, <1>2 DEF Speaker!Cancel, Speaker!madeVars, Speaker!heardVars
<1> QED
  BY <1>3 DEF SpeechMoves, Speaker!SpeechNext

LEMMA FirstSpeech == Init => Speaker!SpeechInit
<1> SUFFICES ASSUME Init PROVE Speaker!SpeechInit
  OBVIOUS
<1>1. Text = [p \in 1..Pieces |-> <<>>]
  <2>1. \A p \in PieceNo : Spoken(p) = <<>>
    BY SpokenEmpty DEF Init
  <2> QED
    BY <2>1 DEF Text, PieceNo
<1>2. Phase = "speaking" /\ Rest = <<>> /\ Decoded = 0 /\ Way = <<>>
  BY FrameAssumption DEF Init, Phase, Rest, Decoded, Way, PieceNo
<1> QED
  BY <1>1, <1>2 DEF Init, Speaker!SpeechInit

(* Every step of the synthesis is one of Speech, or none. *)
LEMMA SpeechStep ==
  IInv /\ TurnInv /\ [NextStep]_vars => [Speaker!SpeechNext]_(Speaker!speechVars)
<1> SUFFICES ASSUME IInv, TurnInv, [NextStep]_vars PROVE SpeechMoves
  BY DEF SpeechMoves, SpeechSame, Speaker!speechVars, Speaker!madeVars, Speaker!heardVars,
     Speaker!causeVars
<1>1. CASE UNCHANGED vars
  BY <1>1, TextSame DEF vars, SpeechMoves, SpeechSame, Phase, Rest, Decoded, Way
<1>2. CASE LoopStep \/ GenerateStep
  BY <1>2, QuietSteps, BreakOffMaps, CloseMaps, GeneratorFaultMaps, GiveUpTextMaps, ThinkMaps
     DEF LoopStep, GenerateStep
<1>3. CASE StreamStep \/ PlainStep
  BY <1>3, QuietSteps, BreakOffMaps, CallbackMaps, FlushMaps, SendMaps, TurnMaps, BatchMaps
     DEF StreamStep, PlainStep
<1> QED
  BY <1>1, <1>2, <1>3, ReceiveMaps, CancelMaps DEF NextStep, TaskStep

(* Every behaviour of a synthesis is one of Speech (ImplementsSpeech): whatever fails and *)
(* whenever it is cancelled, what is heard is the text from its beginning, without a gap  *)
(* but for one run of frames for every inference that failed.                             *)
THEOREM SynthesisSpeaks == Spec => ImplementsSpeech
<1> QED
  BY FirstSpeech, SpeechStep, Invariance, TurnInvariance, PTL
     DEF Spec, ImplementsSpeech, Speaker!SpeechSpec

----------------------------------------------------------------------------
(* Numbers *)

(* A number is its quotient and its rest, and no other is. *)
LEMMA DivMod ==
  ASSUME NEW n \in Nat, NEW b \in Nat \ {0}
  PROVE  /\ n \div b \in Nat /\ n % b \in 0..(b - 1)
         /\ n = b * (n \div b) + (n % b)
<1>1. n \div b \in Nat /\ n % b \in 0..(b - 1)
  OBVIOUS
<1>2. n % b = n - b * (n \div b)
  OBVIOUS
<1> DEFINE q == n \div b  r == n % b
<1>3. q \in Nat /\ r \in 0..(b - 1) /\ r = n - b * q
  BY <1>1, <1>2
<1>4. n = b * q + r
  <2> HIDE DEF q, r
  <2> QED
    BY <1>3
<1> QED
  BY <1>1, <1>4

(* A number written as a multiple of b and a rest has that quotient and that rest. *)
LEMMA RestOf ==
  ASSUME NEW b \in Nat \ {0}, NEW q \in Nat, NEW r \in 0..(b - 1)
  PROVE  (b * q + r) % b = r /\ (b * q + r) \div b = q
  OBVIOUS

(* A set of numbers has a least one. *)
LEMMA Least ==
  ASSUME NEW S, S \subseteq Nat, S # {}
  PROVE  \E m \in S : \A n \in S : m <= n
<1> DEFINE Less == {p \in Nat \X Nat : p[1] < p[2]}
<1>1. IsWellFoundedOn(Less, Nat)
  BY NatLessThanWellFounded DEF OpToRel
<1>2. \A m, n \in Nat : <<m, n>> \in Less <=> m < n
  OBVIOUS
<1> HIDE DEF Less
<1>3. PICK m \in S : \A n \in S : ~ (<<n, m>> \in Less)
  BY <1>1, WFMin
<1>4. m \in Nat /\ \A n \in S : n \in Nat /\ ~(n < m)
  BY <1>2, <1>3
<1>5. \A n \in S : m <= n
  BY <1>4
<1> QED
  BY <1>5

(* A bounded set of numbers has a greatest one. *)
LEMMA Greatest ==
  ASSUME NEW S, NEW b \in Nat, S \subseteq 0..b, S # {}
  PROVE  Max(S) \in S /\ \A n \in S : n <= Max(S)
<1> DEFINE T == {x \in Nat : x <= b /\ b - x \in S}
<1>1. T \subseteq Nat /\ T # {}
  <2>1. PICK s \in S : TRUE
    OBVIOUS
  <2>2. b - s \in T
    <3>1. s \in 0..b /\ b - s \in Nat /\ b - (b - s) = s
      OBVIOUS
    <3> QED
      BY <3>1, <2>1
  <2> QED
    BY <2>2
<1>2. PICK x \in T : \A y \in T : x <= y
  BY <1>1, Least
<1>3. b - x \in S /\ \A n \in S : b - x >= n
  <2>1. ASSUME NEW n \in S PROVE b - n \in T
    <3>1. n \in 0..b /\ b - n \in Nat /\ b - (b - n) = n
      OBVIOUS
    <3> QED
      BY <3>1, <2>1
  <2> QED
    BY <1>2, <2>1
<1> HIDE DEF T
<1>4. Max(S) \in S /\ \A n \in S : Max(S) >= n
  BY <1>3 DEF Max
<1> QED
  BY <1>4

----------------------------------------------------------------------------
(* DoubleWords: the arithmetic of the random numbers, for words of any width *)

(* Words are numbers. *)
LEMMA WordNumbers == Word \subseteq Nat /\ B \in Nat \ {0}
  BY WordAssumption DEF Word

(* Two words are less than the square of B, and a number with two words in it is one with *)
(* their value as its rest.                                                               *)
LEMMA TwoWords ==
  ASSUME NEW n \in Nat, NEW hi \in Word, NEW lo \in Word
  PROVE  ((B * B) * n + Value(hi, lo)) % (B * B) = Value(hi, lo)
<1>1. B \in Nat \ {0} /\ hi \in Nat /\ lo \in Nat /\ hi <= B - 1 /\ lo <= B - 1
  BY WordNumbers DEF Word
<1>2. hi * B <= (B - 1) * B
  BY <1>1
<1>3. (B - 1) * B = B * B - B
  BY <1>1
<1>4. B * B \in Nat \ {0} /\ hi * B \in Nat
  BY <1>1
<1> DEFINE s == B * B  h == hi * B
<1>5. s \in Nat \ {0} /\ h \in Nat /\ h <= s - B
  BY <1>2, <1>3, <1>4
<1> HIDE DEF s, h
<1>6. h + lo \in 0..(s - 1)
  BY <1>1, <1>5
<1>7. (s * n + (h + lo)) % s = h + lo
  BY <1>5, <1>6, RestOf
<1> QED
  BY <1>7 DEF s, h, Value

(* The two words of a product are those of the product of the numbers. *)
LEMMA ProductExact ==
  ASSUME NEW aHi \in Word, NEW aLo \in Word, NEW bHi \in Word, NEW bLo \in Word
  PROVE  LET p == mul128mod(aHi, aLo, bHi, bLo)
         IN /\ p[1] \in Word /\ p[2] \in Word
            /\ Value(p[1], p[2]) = (Value(aHi, aLo) * Value(bHi, bLo)) % (B * B)
<1> DEFINE low == aLo * bLo  cross == aHi * bLo + aLo * bHi  high == aHi * bHi
           q == low \div B  r == low % B
           x == q + cross  k == x \div B  m == x % B
<1>1. aHi \in Nat /\ aLo \in Nat /\ bHi \in Nat /\ bLo \in Nat /\ B \in Nat \ {0}
  BY WordNumbers
<1>2. low \in Nat /\ cross \in Nat /\ high \in Nat
  BY <1>1
<1>3. Value(aHi, aLo) * Value(bHi, bLo) = high * (B * B) + cross * B + low
  BY <1>1 DEF Value
<1>4. mul128mod(aHi, aLo, bHi, bLo) = <<m, r>>
  <2>1. low \div B + aHi * bLo + aLo * bHi = x
    BY <1>1, <1>2, DivMod
  <2> QED
    BY <2>1 DEF mul128mod
<1> HIDE DEF low, cross, high
<1>5. q \in Nat /\ r \in Word /\ low = B * q + r
  BY <1>1, <1>2, DivMod DEF Word
<1> HIDE DEF q, r
<1>6. x \in Nat
  BY <1>2, <1>5
<1>7. k \in Nat /\ m \in Word /\ x = B * k + m
  BY <1>1, <1>6, DivMod DEF Word
<1>8. cross = x - q
  BY <1>2, <1>5
<1> HIDE DEF x, k, m
<1>9. high * (B * B) + cross * B + low = (B * B) * (high + k) + Value(m, r)
  <2>1. r \in Nat /\ m \in Nat
    BY <1>5, <1>7, WordNumbers
  <2>2. cross * B = (B * k + m) * B - q * B
    BY <1>1, <1>2, <1>5, <1>6, <1>7, <1>8, <2>1
  <2> QED
    BY <1>1, <1>2, <1>5, <1>7, <2>1, <2>2 DEF Value
<1>10. (Value(aHi, aLo) * Value(bHi, bLo)) % (B * B) = Value(m, r)
  <2>1. high + k \in Nat
    BY <1>2, <1>7
  <2> QED
    BY <1>3, <1>5, <1>7, <1>9, <2>1, TwoWords
<1> QED
  BY <1>4, <1>5, <1>7, <1>10

(* The two words of a sum are those of the sum: the low words carry exactly when the sum is *)
(* less than one of them.                                                                  *)
LEMMA SumExact ==
  ASSUME NEW aHi \in Word, NEW aLo \in Word, NEW bHi \in Word, NEW bLo \in Word
  PROVE  LET s == add128mod(aHi, aLo, bHi, bLo)
         IN /\ s[1] \in Word /\ s[2] \in Word
            /\ Value(s[1], s[2]) = (Value(aHi, aLo) + Value(bHi, bLo)) % (B * B)
<1> DEFINE lo == (aLo + bLo) % B  carry == IF lo < aLo THEN 1 ELSE 0
           x == aHi + bHi + carry  k == x \div B  m == x % B
<1>1. /\ aHi \in Nat /\ aLo \in Nat /\ bHi \in Nat /\ bLo \in Nat /\ B \in Nat \ {0}
      /\ aLo <= B - 1 /\ bLo <= B - 1
  BY WordNumbers DEF Word
<1>2. aLo + bLo = B * carry + lo /\ lo \in Word /\ carry \in Nat
  <2>1. CASE aLo + bLo < B
    <3>1. lo = aLo + bLo
      BY <1>1, <2>1
    <3> QED
      BY <1>1, <2>1, <3>1 DEF Word
  <2>2. CASE aLo + bLo >= B
    <3>1. aLo + bLo - B \in 0..(B - 1) /\ aLo + bLo = B * 1 + (aLo + bLo - B)
      BY <1>1, <2>2
    <3>2. lo = aLo + bLo - B
      <4>1. (B * 1 + (aLo + bLo - B)) % B = aLo + bLo - B
        BY <1>1, <3>1, RestOf
      <4> QED
        BY <3>1, <4>1
    <3>3. lo < aLo
      BY <1>1, <3>2
    <3> QED
      BY <1>1, <3>1, <3>2, <3>3 DEF Word
  <2> QED
    BY <1>1, <2>1, <2>2
<1>3. add128mod(aHi, aLo, bHi, bLo) = <<m, lo>>
  BY DEF add128mod
<1> HIDE DEF lo, carry
<1>4. x \in Nat
  BY <1>1, <1>2
<1>5. k \in Nat /\ m \in Word /\ x = B * k + m
  BY <1>1, <1>4, DivMod DEF Word
<1>6. x = aHi + bHi + carry
  OBVIOUS
<1> HIDE DEF x, k, m
<1>7. Value(aHi, aLo) + Value(bHi, bLo) = (B * B) * k + Value(m, lo)
  <2>1. lo \in Nat /\ m \in Nat
    BY <1>2, <1>5, WordNumbers
  <2>2. Value(aHi, aLo) + Value(bHi, bLo) = (aHi + bHi) * B + (aLo + bLo)
    BY <1>1 DEF Value
  <2>3. aHi + bHi = B * k + m - carry
    BY <1>1, <1>2, <1>4, <1>5, <1>6, <2>1
  <2>4. (aHi + bHi) * B = (B * k + m) * B - carry * B
    BY <1>1, <1>2, <1>5, <2>1, <2>3
  <2> QED
    BY <1>1, <1>2, <1>5, <2>1, <2>2, <2>4 DEF Value
<1> QED
  BY <1>2, <1>3, <1>5, <1>7, TwoWords

(* A rest may be taken before something is added. *)
LEMMA RestLater ==
  ASSUME NEW b \in Nat \ {0}, NEW x \in Nat, NEW y \in Nat
  PROVE  ((x % b) + y) % b = (x + y) % b
<1> DEFINE r == x % b  k == x \div b  z == r + y  j == z \div b  s == z % b
<1>1. k \in Nat /\ r \in Nat /\ x = b * k + r
  BY DivMod
<1> HIDE DEF r, k
<1>2. z \in Nat
  BY <1>1
<1>3. j \in Nat /\ s \in 0..(b - 1) /\ z = b * j + s
  BY <1>2, DivMod
<1>4. z = r + y
  OBVIOUS
<1> HIDE DEF z, j, s
<1>5. x + y = b * (k + j) + s
  BY <1>1, <1>3, <1>4
<1>6. (b * (k + j) + s) % b = s
  <2>1. k + j \in Nat
    BY <1>1, <1>3
  <2> QED
    BY <1>3, <2>1, RestOf
<1> QED
  BY <1>4, <1>5, <1>6 DEF r, z, s

(* The generator's step multiplies and adds numbers of two words, for words of any width and *)
(* any multiplier: no carry is lost (mul128mod, add128mod).                                  *)
THEOREM StepIsLinear ==
  ASSUME NEW sHi \in Word, NEW sLo \in Word, NEW iHi \in Word, NEW iLo \in Word
  PROVE  LET s == Step(<<sHi, sLo>>, <<iHi, iLo>>)
         IN /\ s[1] \in Word /\ s[2] \in Word
            /\ Value(s[1], s[2])
                 = (Value(sHi, sLo) * Value(MultHi, MultLo) + Value(iHi, iLo)) % (B * B)
<1> DEFINE pHi == mul128mod(sHi, sLo, MultHi, MultLo)[1]
           pLo == mul128mod(sHi, sLo, MultHi, MultLo)[2]
           v == Value(sHi, sLo) * Value(MultHi, MultLo)
<1>1. MultHi \in Word /\ MultLo \in Word
  BY WordAssumption
<1>2. pHi \in Word /\ pLo \in Word /\ Value(pHi, pLo) = v % (B * B)
  BY <1>1, ProductExact
<1>3. Step(<<sHi, sLo>>, <<iHi, iLo>>) = add128mod(pHi, pLo, iHi, iLo)
  BY DEF Step
<1>4. v \in Nat /\ Value(iHi, iLo) \in Nat /\ B * B \in Nat \ {0}
  BY <1>1, WordNumbers DEF Value
<1> HIDE DEF pHi, pLo, v
<1>5. ((v % (B * B)) + Value(iHi, iLo)) % (B * B) = (v + Value(iHi, iLo)) % (B * B)
  BY <1>4, RestLater
<1>6. LET s == add128mod(pHi, pLo, iHi, iLo)
      IN /\ s[1] \in Word /\ s[2] \in Word
         /\ Value(s[1], s[2]) = (Value(pHi, pLo) + Value(iHi, iLo)) % (B * B)
  BY <1>2, SumExact
<1> QED
  BY <1>2, <1>3, <1>5, <1>6 DEF v

(* A multiple that lies between the number and its negative is zero. *)
LEMMA SmallMultiple ==
  ASSUME NEW b \in Nat \ {0}, NEW k \in Int, NEW d \in Int, d = b * k, d < b, 0 - b < d
  PROVE  d = 0
<1>1. CASE k >= 1
  <2>1. b * k >= b * 1
    BY <1>1
  <2> QED
    BY <2>1
<1>2. CASE k <= 0 - 1
  <2>1. b * k <= b * (0 - 1)
    BY <1>2
  <2> QED
    BY <2>1
<1>3. CASE k = 0
  BY <1>3
<1> QED
  BY <1>1, <1>2, <1>3

(* Multiplying by a number that has an inverse, and adding, keeps different rests apart. *)
LEMMA AffineIsInjective ==
  ASSUME NEW b \in Nat \ {0}, NEW m \in Nat, NEW v \in Nat, NEW i \in Nat,
         NEW x \in 0..(b - 1), NEW y \in 0..(b - 1),
         \E q \in Nat : m * v = b * q + 1,
         (x * m + i) % b = (y * m + i) % b
  PROVE  x = y
<1>1. PICK q \in Nat : m * v = b * q + 1
  OBVIOUS
<1>2. x \in Nat /\ y \in Nat /\ x * m + i \in Nat /\ y * m + i \in Nat
  OBVIOUS
<1> DEFINE z == x * m + i  w == y * m + i  r == z % b  k == z \div b  j == w \div b
<1>3. /\ k \in Nat /\ j \in Nat /\ r \in Nat
      /\ x * m + i = b * k + r /\ y * m + i = b * j + r
  <2>1. z \in Nat /\ w \in Nat /\ w % b = r
    BY <1>2
  <2> HIDE DEF z, w
  <2>2. k \in Nat /\ r \in 0..(b - 1) /\ z = b * k + r
    BY <2>1, DivMod
  <2>3. j \in Nat /\ w = b * j + r
    <3>1. j \in Nat /\ w = b * j + (w % b)
      BY <2>1, DivMod
    <3> QED
      BY <2>1, <3>1
  <2> QED
    BY <2>2, <2>3 DEF z, w
<1> HIDE DEF z, w, r, k, j
<1> DEFINE d == x - y  e == k - j
<1>4. d \in Int /\ e \in Int /\ d * m = b * e
  <2>1. x * m - y * m = b * k - b * j
    BY <1>2, <1>3
  <2> QED
    BY <1>2, <1>3, <2>1
<1>5. d < b /\ 0 - b < d
  BY <1>2
<1>6. d = 0 => x = y
  BY <1>2
<1> HIDE DEF d, e
<1>7. d * (b * q + 1) = b * (e * v)
  <2>1. d * (m * v) = (d * m) * v
    BY <1>4
  <2>2. (b * e) * v = b * (e * v)
    BY <1>4
  <2> QED
    BY <1>1, <1>4, <2>1, <2>2
<1>8. d = b * (e * v - d * q)
  <2>1. d * (b * q + 1) = b * (d * q) + d
    BY <1>1, <1>4
  <2>2. e * v \in Int /\ d * q \in Int
    BY <1>1, <1>4
  <2> QED
    BY <1>4, <1>7, <2>1, <2>2
<1>9. e * v - d * q \in Int
  BY <1>1, <1>4
<1> QED
  BY <1>4, <1>5, <1>6, <1>8, <1>9, SmallMultiple

(* Numbers of two words are equal when their words are, and less than the square of B. *)
LEMMA ValueIsOne ==
  ASSUME NEW aHi \in Word, NEW aLo \in Word, NEW bHi \in Word, NEW bLo \in Word
  PROVE  /\ Value(aHi, aLo) \in 0..(B * B - 1)
         /\ Value(aHi, aLo) = Value(bHi, bLo) => aHi = bHi /\ aLo = bLo
<1>1. /\ aHi \in Nat /\ aLo \in 0..(B - 1) /\ bHi \in Nat /\ bLo \in 0..(B - 1)
      /\ aHi <= B - 1 /\ B \in Nat \ {0}
  BY WordNumbers DEF Word
<1>2. /\ (B * aHi + aLo) % B = aLo /\ (B * aHi + aLo) \div B = aHi
      /\ (B * bHi + bLo) % B = bLo /\ (B * bHi + bLo) \div B = bHi
  BY <1>1, RestOf
<1>3. Value(aHi, aLo) = B * aHi + aLo /\ Value(bHi, bLo) = B * bHi + bLo
  BY <1>1 DEF Value
<1>4. B * aHi <= B * B - B
  <2>1. B * aHi <= B * (B - 1) /\ B * (B - 1) = B * B - B
    BY <1>1
  <2> QED
    BY <2>1
<1>5. B * aHi + aLo \in 0..(B * B - 1)
  <2>1. B * aHi \in Nat /\ B * B \in Nat /\ aLo \in Nat /\ aLo <= B - 1
    BY <1>1
  <2> QED
    BY <1>1, <1>4, <2>1
<1> QED
  BY <1>2, <1>3, <1>5

(* A multiplier that has an inverse, as every odd one has for words of bits, never leads two  *)
(* states of the generator to the same next one (PCG64.step): none is lost on the way, and    *)
(* the first state that comes back is the one it began in.                                   *)
THEOREM StepsStayApart ==
  ASSUME NEW inverse \in Nat,
         \E q \in Nat : Value(MultHi, MultLo) * inverse = (B * B) * q + 1,
         NEW aHi \in Word, NEW aLo \in Word, NEW bHi \in Word, NEW bLo \in Word,
         NEW iHi \in Word, NEW iLo \in Word,
         Step(<<aHi, aLo>>, <<iHi, iLo>>) = Step(<<bHi, bLo>>, <<iHi, iLo>>)
  PROVE  aHi = bHi /\ aLo = bLo
<1> DEFINE m == Value(MultHi, MultLo)  i == Value(iHi, iLo)  n == B * B
           x == Value(aHi, aLo)  y == Value(bHi, bLo)
<1>1. MultHi \in Word /\ MultLo \in Word /\ n \in Nat \ {0}
  BY WordAssumption
<1>2. m \in Nat /\ i \in Nat /\ x \in 0..(n - 1) /\ y \in 0..(n - 1)
  BY <1>1, ValueIsOne
<1>3. (x * m + i) % n = (y * m + i) % n
  <2>1. /\ (x * m + i) % n = Value(Step(<<aHi, aLo>>, <<iHi, iLo>>)[1], Step(<<aHi, aLo>>, <<iHi, iLo>>)[2])
        /\ (y * m + i) % n = Value(Step(<<bHi, bLo>>, <<iHi, iLo>>)[1], Step(<<bHi, bLo>>, <<iHi, iLo>>)[2])
    BY StepIsLinear
  <2> QED
    BY <2>1
<1>4. \E q \in Nat : m * inverse = n * q + 1
  OBVIOUS
<1> HIDE DEF m, i, n, x, y
<1>5. x = y
  BY <1>1, <1>2, <1>3, <1>4, AffineIsInjective
<1> QED
  BY <1>5, ValueIsOne DEF x, y

(* The increment is an odd number of two words, twice the sequence number and one: nothing is *)
(* lost between the words when it is shifted, and setting the lowest bit never carries.       *)
THEOREM IncrementIsOdd ==
  ASSUME NEW hi \in Word, NEW lo \in Word
  PROVE  LET i == Increment(<<hi, lo>>)
         IN /\ i[1] \in Word /\ i[2] \in Word
            /\ Value(i[1], i[2]) = (2 * Value(hi, lo) + 1) % (B * B)
            /\ Value(i[1], i[2]) % 2 = 1
<1> DEFINE H == B \div 2
           c == lo \div H  l == lo % H  d == hi \div H  g == hi % H
<1>1. H \in Nat \ {0} /\ B = 2 * H
  BY WordAssumption
<1>2. hi \in Nat /\ lo \in Nat /\ hi <= B - 1 /\ lo <= B - 1
  BY WordNumbers DEF Word
<1> HIDE DEF H
<1>3. c \in Nat /\ l \in 0..(H - 1) /\ lo = H * c + l
  BY <1>1, <1>2, DivMod
<1>4. d \in Nat /\ g \in 0..(H - 1) /\ hi = H * d + g
  BY <1>1, <1>2, DivMod
<1> HIDE DEF l, d, g
<1>5. c \in {0, 1}
  <2>1. c >= 2 => H * c >= H * 2
    BY <1>1, <1>3
  <2> QED
    BY <1>1, <1>2, <1>3, <2>1
<1>6. (lo * 2) % B = 2 * l /\ (hi * 2) % B = 2 * g
  <2>1. lo * 2 = B * c + 2 * l /\ hi * 2 = B * d + 2 * g
    BY <1>1, <1>3, <1>4
  <2>2. 2 * l \in 0..(B - 1) /\ 2 * g \in 0..(B - 1)
    BY <1>1, <1>3, <1>4
  <2>3. (B * c + 2 * l) % B = 2 * l
    BY <1>3, <2>2, WordNumbers, RestOf
  <2>4. (B * d + 2 * g) % B = 2 * g
    BY <1>4, <2>2, WordNumbers, RestOf
  <2> QED
    BY <2>1, <2>3, <2>4
<1>7. Increment(<<hi, lo>>) = <<2 * g + c, 2 * l + 1>>
  BY <1>6 DEF Increment, shiftLeft1_128, H
<1> HIDE DEF c
<1>8. 2 * g + c \in Word /\ 2 * l + 1 \in Word
  BY <1>1, <1>3, <1>4, <1>5 DEF Word
<1>9. 2 * Value(hi, lo) + 1 = (B * B) * d + Value(2 * g + c, 2 * l + 1)
  <2>1. l \in Nat /\ g \in Nat /\ c \in Nat /\ d \in Nat
    BY <1>3, <1>4
  <2>2. 2 * hi = B * d + 2 * g /\ 2 * lo = B * c + 2 * l
    BY <1>1, <1>3, <1>4, <2>1
  <2>3. 2 * (hi * B + lo) = (2 * hi) * B + 2 * lo
    BY <1>1, <1>2
  <2>4. (2 * hi) * B = (B * B) * d + (2 * g) * B
    BY <1>1, <2>1, <2>2
  <2>5. (2 * g + c) * B = (2 * g) * B + B * c
    BY <1>1, <2>1
  <2> QED
    BY <1>1, <1>2, <2>1, <2>2, <2>3, <2>4, <2>5 DEF Value
<1>10. Value(2 * g + c, 2 * l + 1) % 2 = 1
  <2>1. l \in Nat /\ g \in Nat /\ c \in Nat
    BY <1>3, <1>4
  <2>2. Value(2 * g + c, 2 * l + 1) = 2 * ((2 * g + c) * H + l) + 1
    BY <1>1, <2>1 DEF Value
  <2>3. (2 * g + c) * H + l \in Nat
    BY <1>1, <2>1
  <2> QED
    BY <2>2, <2>3, RestOf
<1>11. (2 * Value(hi, lo) + 1) % (B * B) = Value(2 * g + c, 2 * l + 1)
  <2>1. ((B * B) * d + Value(2 * g + c, 2 * l + 1)) % (B * B) = Value(2 * g + c, 2 * l + 1)
    BY <1>4, <1>8, TwoWords
  <2> QED
    BY <1>9, <2>1
<1> QED
  BY <1>7, <1>8, <1>10, <1>11

----------------------------------------------------------------------------
(* Sampling: the tokens a frame is chosen from, for any scores *)

(* The places whose scores are greater than one of them, or at least as great. *)
Above(s, i) == {j \in DOMAIN s : s[j] > s[i]}
AtLeast(s, i) == {j \in DOMAIN s : s[j] >= s[i]}

(* Sets of places of a sequence are finite, and a part with as many members is the whole. *)
LEMMA FewScores ==
  ASSUME NEW s \in Seq(Int)
  PROVE  /\ IsFiniteSet(DOMAIN s) /\ Cardinality(DOMAIN s) = Len(s)
         /\ \A T \in SUBSET (DOMAIN s) : IsFiniteSet(T) /\ Cardinality(T) \in 0..Len(s)
         /\ \A U \in SUBSET (DOMAIN s) : \A T \in SUBSET U :
              Cardinality(T) <= Cardinality(U) /\ (Cardinality(T) = Cardinality(U) => T = U)
<1>1. DOMAIN s = 1..Len(s) /\ Len(s) \in Nat
  OBVIOUS
<1>2. IsFiniteSet(DOMAIN s) /\ Cardinality(DOMAIN s) = Len(s)
  <2>1. IsFiniteSet(1..Len(s)) /\ Cardinality(1..Len(s)) = IF 1 > Len(s) THEN 0 ELSE Len(s) - 1 + 1
    BY <1>1, FS_Interval
  <2> QED
    BY <1>1, <2>1
<1>3. ASSUME NEW T \in SUBSET (DOMAIN s)
      PROVE  IsFiniteSet(T) /\ Cardinality(T) \in 0..Len(s)
  <2>1. IsFiniteSet(T) /\ Cardinality(T) <= Cardinality(DOMAIN s)
    BY <1>2, FS_Subset
  <2>2. Cardinality(T) \in Nat
    BY <2>1, FS_CardinalityType
  <2> QED
    BY <1>1, <1>2, <2>1, <2>2
<1>4. ASSUME NEW U \in SUBSET (DOMAIN s), NEW T \in SUBSET U
      PROVE  Cardinality(T) <= Cardinality(U) /\ (Cardinality(T) = Cardinality(U) => T = U)
  <2>1. IsFiniteSet(U)
    BY <1>3
  <2> QED
    BY <2>1, FS_Subset
<1> QED
  BY <1>2, <1>3, <1>4

(* Of the scores in a set of places, one is the greatest. *)
LEMMA GreatestScore ==
  ASSUME NEW s \in Seq(Int), NEW P \in SUBSET (DOMAIN s), P # {}
  PROVE  \E i \in P : \A j \in P : s[j] <= s[i]
<1> DEFINE C == {Cardinality(Above(s, i)) : i \in P}
<1>1. \A i \in DOMAIN s : Above(s, i) \in SUBSET (DOMAIN s)
  BY DEF Above
<1>2. \A i \in DOMAIN s : s[i] \in Int
  OBVIOUS
<1>3. C \subseteq Nat /\ C # {}
  BY <1>1, FewScores
<1>4. PICK m \in C : \A n \in C : m <= n
  BY <1>3, Least
<1>5. PICK i \in P : m = Cardinality(Above(s, i))
  BY <1>4
<1>6. ASSUME NEW j \in P, s[j] > s[i] PROVE FALSE
  <2>1. Above(s, j) \in SUBSET Above(s, i)
    BY <1>2, <1>6 DEF Above
  <2>2. Cardinality(Above(s, j)) \in C
    OBVIOUS
  <2>3. Cardinality(Above(s, i)) <= Cardinality(Above(s, j))
    BY <1>4, <1>5, <2>2
  <2>4. Above(s, i) \in SUBSET (DOMAIN s) /\ Above(s, j) \in SUBSET (DOMAIN s)
    BY <1>1
  <2>5. Cardinality(Above(s, j)) <= Cardinality(Above(s, i))
        /\ (Cardinality(Above(s, j)) = Cardinality(Above(s, i)) => Above(s, j) = Above(s, i))
    BY <2>1, <2>4, FewScores
  <2>6. Cardinality(Above(s, i)) \in Nat /\ Cardinality(Above(s, j)) \in Nat
    BY <2>4, FewScores
  <2>7. Above(s, j) = Above(s, i)
    BY <2>3, <2>5, <2>6
  <2>8. j \in Above(s, i) /\ j \notin Above(s, j)
    BY <1>2, <1>6 DEF Above
  <2> QED
    BY <2>7, <2>8
<1>7. \A j \in P : s[j] <= s[i]
  BY <1>2, <1>6
<1> QED
  BY <1>7

(* There is an n-th largest score: fewer than n scores are greater, and n are as great. *)
LEMMA NthLargest ==
  ASSUME NEW s \in Seq(Int), NEW n \in Nat \ {0}, n <= Len(s)
  PROVE  LET v == nthLargest(s, n)
         IN /\ v \in Int
            /\ Cardinality({i \in DOMAIN s : s[i] > v}) < n
            /\ Cardinality({i \in DOMAIN s : s[i] >= v}) >= n
<1> DEFINE Low == {i \in DOMAIN s : Cardinality(AtLeast(s, i)) >= n}
<1>1. \A i \in DOMAIN s : s[i] \in Int
  OBVIOUS
<1>2. \A i \in DOMAIN s : AtLeast(s, i) \in SUBSET (DOMAIN s) /\ Above(s, i) \in SUBSET (DOMAIN s)
  BY DEF AtLeast, Above
<1>3. \A i \in DOMAIN s : /\ Cardinality(AtLeast(s, i)) \in Nat
                          /\ Cardinality(Above(s, i)) \in Nat
  BY <1>2, FewScores
<1>4. Low # {}
  <2>1. DOMAIN s # {}
    OBVIOUS
  <2> DEFINE Minus == [i \in DOMAIN s |-> 0 - s[i]]
  <2>2. Minus \in Seq(Int) /\ DOMAIN Minus = DOMAIN s
    <3>1. DOMAIN s = 1..Len(s) /\ Len(s) \in Nat
      OBVIOUS
    <3>2. \A i \in 1..Len(s) : 0 - s[i] \in Int
      BY <1>1, <3>1
    <3> QED
      BY <3>1, <3>2
  <2>3. PICK i \in DOMAIN s : \A j \in DOMAIN s : Minus[j] <= Minus[i]
    <3> HIDE DEF Minus
    <3> QED
      BY <2>1, <2>2, GreatestScore
  <2>4. \A j \in DOMAIN s : s[j] >= s[i]
    BY <1>1, <2>3
  <2>5. AtLeast(s, i) = DOMAIN s
    BY <2>4 DEF AtLeast
  <2>6. Cardinality(AtLeast(s, i)) = Len(s)
    BY <2>5, FewScores
  <2> QED
    BY <2>6
<1>5. PICK i \in Low : \A j \in Low : s[j] <= s[i]
  <2>1. Low \in SUBSET (DOMAIN s)
    OBVIOUS
  <2> HIDE DEF Low
  <2> QED
    BY <1>4, <2>1, GreatestScore
<1>6. i \in DOMAIN s /\ Cardinality(AtLeast(s, i)) >= n
  OBVIOUS
<1>7. Cardinality(Above(s, i)) < n
  <2>1. CASE Above(s, i) = {}
    <3>1. Cardinality(Above(s, i)) = 0
      BY <2>1, FS_EmptySet
    <3> QED
      BY <3>1
  <2>2. CASE Above(s, i) # {}
    <3> DEFINE Minus == [j \in DOMAIN s |-> 0 - s[j]]
    <3>1. Minus \in Seq(Int) /\ DOMAIN Minus = DOMAIN s
      <4>1. DOMAIN s = 1..Len(s) /\ Len(s) \in Nat
        OBVIOUS
      <4>2. \A j \in 1..Len(s) : 0 - s[j] \in Int
        BY <1>1, <4>1
      <4> QED
        BY <4>1, <4>2
    <3>2. PICK j \in Above(s, i) : \A k \in Above(s, i) : Minus[k] <= Minus[j]
      <4> HIDE DEF Minus
      <4> QED
        BY <1>2, <1>6, <2>2, <3>1, GreatestScore
    <3>3. j \in DOMAIN s /\ s[j] > s[i] /\ \A k \in Above(s, i) : k \in DOMAIN s /\ s[k] >= s[j]
      BY <1>1, <1>2, <1>6, <3>2 DEF Above
    <3>4. AtLeast(s, j) = Above(s, i)
      BY <1>1, <1>6, <3>3 DEF AtLeast, Above
    <3>5. j \notin Low
      BY <1>1, <1>5, <1>6, <3>3
    <3>6. ~(Cardinality(AtLeast(s, j)) >= n)
      BY <3>3, <3>5
    <3> QED
      BY <1>3, <1>6, <3>4, <3>6
  <2> QED
    BY <2>1, <2>2
<1> HIDE DEF Low
<1>8. \E v \in ToSet(s) : /\ Cardinality({j \in DOMAIN s : s[j] > v}) < n
                          /\ Cardinality({j \in DOMAIN s : s[j] >= v}) >= n
  <2>1. s[i] \in ToSet(s)
    BY <1>6 DEF ToSet
  <2>2. Cardinality({j \in DOMAIN s : s[j] > s[i]}) < n /\ Cardinality({j \in DOMAIN s : s[j] >= s[i]}) >= n
    BY <1>6, <1>7 DEF Above, AtLeast
  <2> QED
    BY <2>1, <2>2
<1>9. nthLargest(s, n) \in ToSet(s) /\ Cardinality({j \in DOMAIN s : s[j] > nthLargest(s, n)}) < n
      /\ Cardinality({j \in DOMAIN s : s[j] >= nthLargest(s, n)}) >= n
  BY <1>8 DEF nthLargest
<1>10. nthLargest(s, n) \in Int
  BY <1>1, <1>9 DEF ToSet
<1> QED
  BY <1>9, <1>10

(* A token stays among the topK exactly when fewer than topK scores are greater than its own: *)
(* equal scores stay or go together, whatever the scores (SampleFromScores, nthLargest).      *)
THEOREM TopIsExact ==
  ASSUME NEW s \in Seq(Int), NEW topK \in Nat, NEW i \in DOMAIN s
  PROVE  KeepTop(s, topK)[i] =
           IF topK = 0 \/ Cardinality(Above(s, i)) < topK THEN s[i] ELSE Removed
<1>1. s[i] \in Int /\ Len(s) \in Nat
  OBVIOUS
<1>2. Above(s, i) \in SUBSET (DOMAIN s) /\ i \notin Above(s, i)
  BY <1>1 DEF Above
<1>3. Cardinality(Above(s, i)) \in Nat /\ Cardinality(Above(s, i)) < Len(s)
  <2>1. Cardinality(Above(s, i)) \in 0..Len(s) /\ Cardinality(DOMAIN s) = Len(s)
    BY <1>2, FewScores
  <2>2. Cardinality(Above(s, i)) = Cardinality(DOMAIN s) => Above(s, i) = DOMAIN s
    BY <1>2, FewScores
  <2> QED
    BY <1>1, <1>2, <2>1, <2>2
<1>4. CASE topK = 0 \/ topK >= Len(s)
  BY <1>1, <1>3, <1>4 DEF KeepTop
<1>5. CASE topK # 0 /\ topK < Len(s)
  <2> DEFINE v == nthLargest(s, topK)
             G == {j \in DOMAIN s : s[j] > v}  E == {j \in DOMAIN s : s[j] >= v}
  <2>1. v \in Int /\ Cardinality(G) < topK /\ Cardinality(E) >= topK
    <3>1. topK \in Nat \ {0} /\ topK <= Len(s)
      BY <1>1, <1>5
    <3> QED
      BY <3>1, NthLargest
  <2>2. KeepTop(s, topK)[i] = IF s[i] < v THEN Removed ELSE s[i]
    BY <1>1, <1>5 DEF KeepTop
  <2> HIDE DEF v
  <2>3. G \in SUBSET (DOMAIN s) /\ E \in SUBSET (DOMAIN s)
    OBVIOUS
  <2>4. Cardinality(G) \in Nat /\ Cardinality(E) \in Nat
    BY <2>3, FewScores
  <2>5. CASE s[i] < v
    <3>1. E \in SUBSET Above(s, i)
      BY <1>1, <2>1, <2>5 DEF Above
    <3>2. Cardinality(E) <= Cardinality(Above(s, i))
      BY <1>2, <3>1, FewScores
    <3> QED
      BY <1>3, <1>5, <2>1, <2>2, <2>4, <2>5, <3>2
  <2>6. CASE ~(s[i] < v)
    <3>1. Above(s, i) \in SUBSET G
      BY <1>1, <2>1, <2>6 DEF Above
    <3>2. Cardinality(Above(s, i)) <= Cardinality(G)
      BY <2>3, <3>1, FewScores
    <3> QED
      BY <1>3, <1>5, <2>1, <2>2, <2>4, <2>6, <3>2
  <2> QED
    BY <2>5, <2>6
<1> QED
  BY <1>1, <1>4, <1>5

----------------------------------------------------------------------------
(* Waveform: the end of the audio, whatever is heard *)

(* The beginning of a sequence has as many samples as it says, and all of it is itself. *)
LEMMA FrontOf ==
  ASSUME NEW audio \in Seq(BOOLEAN), NEW n \in 0..Len(audio)
  PROVE  Len(SubSeq(audio, 1, n)) = n /\ SubSeq(audio, 1, Len(audio)) = audio
  BY SubSeqProperties, SeqEqual

(* A loud sample, unless it is in the incomplete window at the end, is in one of the windows *)
(* that count as voiced, and the cut lies behind it.                                         *)
LEMMA VoicedWindow ==
  ASSUME NEW audio \in Seq(BOOLEAN), NEW i \in DOMAIN audio, audio[i],
         i <= (Len(audio) \div WindowSamples) * WindowSamples
  PROVE  \E w \in VoicedWindows(audio) : i <= (w + 1) * WindowSamples
<1> DEFINE W == WindowSamples  w == (i - 1) \div W  r == (i - 1) % W  n == Len(audio) \div W
<1>1. W \in Nat \ {0} /\ i \in Nat \ {0} /\ i - 1 \in Nat /\ Len(audio) \in Nat
  BY WaveAssumption
<1>2. w \in Nat /\ r \in 0..(W - 1) /\ i - 1 = W * w + r
  BY <1>1, DivMod
<1>3. n \in Nat
  BY <1>1, DivMod
<1> HIDE DEF W, w, r, n
<1>4. i >= w * W + 1 /\ i <= (w + 1) * W
  <2>1. (w + 1) * W = W * w + W /\ w * W = W * w /\ W * w \in Nat
    BY <1>1, <1>2
  <2> QED
    BY <1>1, <1>2, <2>1
<1>5. w < n
  <2>1. CASE w >= n
    <3>1. w * W >= n * W
      BY <1>1, <1>2, <1>3, <2>1
    <3>2. i <= n * W /\ n * W \in Nat /\ w * W \in Nat
      BY <1>1, <1>2, <1>3 DEF n, W
    <3> QED
      BY <1>1, <1>4, <3>1, <3>2
  <2> QED
    BY <1>2, <1>3, <2>1
<1>6. Voiced(audio, w)
  <2>1. i \in (w * W + 1)..((w + 1) * W)
    BY <1>1, <1>2, <1>4
  <2> QED
    BY <2>1 DEF Voiced, W
<1>7. w \in VoicedWindows(audio)
  <2>1. w \in 0..(n - 1)
    BY <1>2, <1>3, <1>5
  <2> QED
    BY <1>6, <2>1 DEF VoicedWindows, n, W
<1> QED
  BY <1>4, <1>7 DEF W

(* The cut is behind every voiced window, or at the end of the audio. *)
LEMMA CutBehind ==
  ASSUME NEW audio \in Seq(BOOLEAN), VoicedWindows(audio) # {}
  PROVE  /\ CutSample(audio) \in 0..Len(audio)
         /\ \A w \in VoicedWindows(audio), i \in DOMAIN audio :
              i <= (w + 1) * WindowSamples => i <= CutSample(audio)
<1> DEFINE W == WindowSamples  S == VoicedWindows(audio)  m == Max(S)
           c == (m + 1 + PaddingWindows) * W
<1>1. W \in Nat \ {0} /\ PaddingWindows \in Nat /\ Len(audio) \in Nat
  BY WaveAssumption
<1>2. S \subseteq 0..(Len(audio) \div W)
  <2>1. Len(audio) \div W \in Nat
    BY <1>1, DivMod
  <2> QED
    BY <2>1 DEF VoicedWindows
<1>3. m \in S /\ \A w \in S : w <= m
  <2>1. Len(audio) \div W \in Nat
    BY <1>1, DivMod
  <2> QED
    BY <1>2, <2>1, Greatest
<1>4. m \in Nat /\ \A w \in S : w \in Nat
  BY <1>2, <1>3
<1> HIDE DEF W, S, m
<1>5. c \in Nat
  BY <1>1, <1>4
<1>6. CutSample(audio) = IF Len(audio) <= c THEN Len(audio) ELSE c
  <2>1. CutSample(audio) = Min({Len(audio), c})
    BY DEF CutSample, m, S, W
  <2> QED
    BY <1>1, <1>5, <2>1, MinTwo
<1>7. ASSUME NEW w \in S PROVE (w + 1) * W <= c
  <2>1. w \in Nat /\ w <= m
    BY <1>3, <1>4
  <2> QED
    BY <1>1, <1>4, <2>1
<1> HIDE DEF c
<1>8. ASSUME NEW w \in S, NEW i \in DOMAIN audio, i <= (w + 1) * W PROVE i <= CutSample(audio)
  <2>1. i \in Nat /\ i <= Len(audio) /\ (w + 1) * W \in Nat
    BY <1>1, <1>4
  <2>2. i <= c
    BY <1>5, <1>7, <1>8, <2>1
  <2> QED
    BY <1>1, <1>5, <1>6, <2>1, <2>2
<1>9. CutSample(audio) \in 0..Len(audio)
  BY <1>1, <1>5, <1>6
<1> QED
  BY <1>8, <1>9 DEF S, W

(* What is cut from the end is silence, whatever the samples and the sizes of a window and of *)
(* the padding (TrimTrailingSilence): what TrimKeepsVoice of Algorithms says, for any audio.  *)
THEOREM TrimIsSilent ==
  ASSUME NEW audio \in Seq(BOOLEAN)
  PROVE  KeepsVoice(audio, TrimTrailingSilence(audio))
<1>1. Len(audio) \in Nat /\ SubSeq(audio, 1, Len(audio)) = audio /\ DOMAIN audio = 1..Len(audio)
  BY FrontOf
<1>2. CASE TrimTrailingSilence(audio) = audio
  BY <1>1, <1>2 DEF KeepsVoice
<1>3. CASE VoicedWindows(audio) # {} /\ TrimTrailingSilence(audio) = SubSeq(audio, 1, CutSample(audio))
  <2>1. CutSample(audio) \in 0..Len(audio)
    BY <1>3, CutBehind
  <2>2. Len(TrimTrailingSilence(audio)) = CutSample(audio)
    BY <1>3, <2>1, FrontOf
  <2>3. ASSUME NEW i \in DOMAIN audio, audio[i], i <= (Len(audio) \div WindowSamples) * WindowSamples
        PROVE  i <= CutSample(audio)
    <3>1. PICK w \in VoicedWindows(audio) : i <= (w + 1) * WindowSamples
      BY <2>3, VoicedWindow
    <3> QED
      BY <1>3, <3>1, CutBehind
  <2> QED
    BY <1>3, <2>2, <2>3 DEF KeepsVoice
<1> QED
  BY <1>2, <1>3 DEF TrimTrailingSilence

==============================================================================
