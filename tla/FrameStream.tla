----------------------------- MODULE FrameStream -----------------------------
(***************************************************************************)
(* From frames to audio: what one synthesis does once its text is split    *)
(* into pieces (the loops over the pieces in SynthesizeWithContextEx and   *)
(* SynthesizeStreamEx, decodeFramesStreaming, src/pkg/ttsruntime/          *)
(* ttsruntime.go; GenerateAudioFramesWithCallbackAndOverrides and          *)
(* CodecStreamingDecodeSession, src/pkg/ortruntime/runtime.go).            *)
(*                                                                         *)
(* For each piece the global model is run on the whole prompt (prefill),   *)
(* then once per frame (decode); each run leaves a set of tensors, the     *)
(* past, that the next one reads.  A small model makes the frame.  A       *)
(* stream hands every frame to the codec, in batches that depend on how    *)
(* far the audio is ahead of the listener, and sends the audio over a      *)
(* channel; a plain synthesis decodes the piece when it is complete.       *)
(*                                                                         *)
(* Left out: the loading of the sessions (OrtSessions), the numbers, and   *)
(* whether a failure of the small model is one: the code treats it as the  *)
(* end of the speech.                                                      *)
(***************************************************************************)
EXTENDS Naturals, SequencesExt, FiniteSetsExt

CONSTANTS
  Codes,         \* the different frames (a frame is a tuple of codes)
  Pieces,        \* number of pieces of the text
  MaxNewFrames,  \* the request's bound on the frames of a piece
  RunThreshold,  \* fixedPointRunThreshold: so many equal frames end a piece
  ValleyWindow,  \* eosValleyWindow
  ContextFrames, \* ChunkContextFrames
  FirstBudget,   \* resolveStreamDecodeFrameBudget before any audio of the piece
  Budgets,       \* its answers after that
  BatchSize,     \* batchSize of decodeFramesStreaming
  Capacity,      \* of the stream's channel
  MaxFaults,     \* bound of the model on inferences that fail
  MayCancel      \* the task may be cancelled

ASSUME FrameAssumption ==
  /\ {Pieces, MaxNewFrames, RunThreshold, ContextFrames, BatchSize, Capacity} \subseteq Nat \ {0}
  /\ FirstBudget \in Nat \ {0} /\ Budgets \subseteq Nat \ {0}
  /\ ValleyWindow \in Nat /\ MaxFaults \in Nat /\ MayCancel \in BOOLEAN

VARIABLES
  stream,    \* SynthesizeStreamEx (TRUE) or SynthesizeWithContextEx (FALSE)
  pc,        \* label of the task
  piece,     \* chunkIndex + 1
  gen,       \* [1..Pieces -> Seq(Codes)]: generatedFrames of each piece
  valley,    \* eosValleySeen
  context,   \* [1..Pieces -> Seq(Codes)]: frames of earlier text put into the prompt
  tail,      \* prevChunkTailFrames
  pending,   \* pendingDecodeFrames; in a plain synthesis, what is left to decode
  started,   \* hasEmittedAudio
  fed,       \* the frames StateFeeds stands for: those decoded since Reset
  past,      \* pastByName: 0 from the prefill, n from the n-th run of decode
  held,      \* prefillOutputs still holds the tensors of the prefill
  live,      \* tensors that are not destroyed
  again,     \* history: a tensor was destroyed twice
  wave,      \* the audio that is being sent
  chan,      \* the channel; in a plain synthesis, allWaveforms
  closed,    \* the channel is closed; in a plain synthesis, it has returned
  heard,     \* the audio that arrived
  left,      \* the reader of the stream has gone
  cancelled, \* ctx.Done()
  faults     \* inferences that have failed

genVars == <<gen, valley, context, tail>>
tensorVars == <<past, held, live, again>>
audioVars == <<pending, started, fed, wave>>
outVars == <<chan, closed, heard, left>>
envVars == <<stream, cancelled, faults>>
vars == <<pc, piece, genVars, tensorVars, audioVars, outVars, envVars>>

PieceNo == 1..Pieces

LastOf(s, n) == SubSeq(s, Len(s) - Min({n, Len(s)}) + 1, Len(s))

(* The last RunThreshold frames are equal. *)
Frozen(s) == Len(s) >= RunThreshold /\ Cardinality(ToSet(LastOf(s, RunThreshold))) = 1

(* Audio depends on the state of the codec too: it was fed so many frames before these. *)
Audio(frames, hasSeed) ==
  [piece |-> piece, pause |-> FALSE, after |-> Len(fed), frames |-> frames, seed |-> hasSeed]
Pause == [piece |-> piece, pause |-> TRUE, after |-> 0, frames |-> <<>>, seed |-> FALSE]

Fault == faults < MaxFaults /\ faults' = faults + 1

Init ==
  /\ stream \in BOOLEAN /\ pc = "piece" /\ piece = 1
  /\ gen = [p \in PieceNo |-> <<>>] /\ valley = FALSE
  /\ context = [p \in PieceNo |-> <<>>] /\ tail = <<>>
  /\ past = 0 /\ held = FALSE /\ live = {} /\ again = FALSE
  /\ pending = <<>> /\ started = FALSE /\ fed = <<>> /\ wave = Pause
  /\ chan = <<>> /\ closed = FALSE /\ heard = <<>> /\ left = FALSE
  /\ cancelled = FALSE /\ faults = 0

-------------------------------------------------------------------------------
(* The loop over the pieces *)

Finish == pc' = "end" /\ closed' = TRUE /\ UNCHANGED <<chan, left>>

(* The task ends early: a stream closes its channel, a plain synthesis returns an error. *)
Interrupted == cancelled /\ Finish /\ UNCHANGED heard

PieceCancelled ==
  /\ pc = "piece" /\ Interrupted
  /\ UNCHANGED <<piece, genVars, tensorVars, audioVars, envVars>>

Piece ==
  /\ pc = "piece" /\ ~cancelled /\ pc' = "prefill"
  /\ context' = [context EXCEPT ![piece] = IF piece > 1 THEN tail ELSE <<>>]
  /\ pending' = <<>> /\ started' = FALSE
  /\ fed' = IF stream THEN <<>> ELSE fed
  /\ UNCHANGED <<piece, gen, valley, tail, tensorVars, wave, outVars, envVars>>

Next ==
  IF piece < Pieces THEN pc' = "piece" /\ piece' = piece + 1 ELSE pc' = "last" /\ piece' = piece

-------------------------------------------------------------------------------
(* Generation *)

(* The prefill is not begun, or fails: no frames. *)
PrefillNone ==
  /\ pc = "prefill" /\ pc' = "generated"
  /\ \/ cancelled /\ UNCHANGED faults
     \/ ~cancelled /\ Fault
  /\ UNCHANGED <<piece, genVars, tensorVars, audioVars, outVars, stream, cancelled>>

Prefill ==
  /\ pc = "prefill" /\ ~cancelled /\ pc' = "step"
  /\ past' = 0 /\ held' = TRUE /\ live' = live \cup {0}
  /\ valley' = FALSE
  /\ UNCHANGED <<piece, gen, context, tail, again, audioVars, outVars, envVars>>

(* The past goes, then what prefillOutputs holds and the past did not share. *)
FreeAll ==
  LET rest == IF held /\ past # 0 THEN {0} ELSE {}
  IN /\ live' = live \ ({past} \cup rest)
     /\ again' = (again \/ rest \ live # {})
     /\ held' = FALSE /\ UNCHANGED past

StepCancelled ==
  /\ pc = "step" /\ Len(gen[piece]) < MaxNewFrames /\ cancelled /\ pc' = "generated"
  /\ FreeAll /\ gen' = [gen EXCEPT ![piece] = <<>>]
  /\ UNCHANGED <<piece, valley, context, tail, audioVars, outVars, envVars>>

(* MaxNewFrames are made, or the model says that the speech is over. *)
StepStops ==
  /\ pc = "step" /\ (Len(gen[piece]) < MaxNewFrames => ~cancelled) /\ pc' = "free"
  /\ UNCHANGED <<piece, genVars, tensorVars, audioVars, outVars, envVars>>

(* The probability to go on, when the model gives it: it was low early and is high again. *)
Rebound(p) == valley /\ p = "high" /\ Len(gen[piece]) > 0

StepRebounds ==
  /\ pc = "step" /\ Len(gen[piece]) < MaxNewFrames /\ ~cancelled /\ Rebound("high") /\ pc' = "free"
  /\ UNCHANGED <<piece, genVars, tensorVars, audioVars, outVars, envVars>>

StepFrame(f, p) ==
  /\ pc = "step" /\ Len(gen[piece]) < MaxNewFrames /\ ~cancelled /\ ~Rebound(p)
  /\ valley' = (valley \/ (p = "low" /\ Len(gen[piece]) < ValleyWindow))
  /\ gen' = [gen EXCEPT ![piece] = Append(@, f)]
  /\ pc' = IF Frozen(gen'[piece]) THEN "free" ELSE IF stream THEN "callback" ELSE "decode"
  /\ pending' = IF pc' = "callback" THEN Append(pending, f) ELSE pending
  /\ UNCHANGED <<piece, context, tail, tensorVars, started, fed, wave, outVars, envVars>>

(* The old past is destroyed and replaced; the model knows the new one by its number. *)
Decode ==
  /\ pc = "decode" /\ pc' = "step"
  /\ live' = (live \ {past}) \cup {past + 1} /\ past' = past + 1
  /\ UNCHANGED <<piece, genVars, held, again, audioVars, outVars, envVars>>

DecodeFails ==
  /\ pc = "decode" /\ Fault /\ pc' = "free"
  /\ UNCHANGED <<piece, genVars, tensorVars, audioVars, outVars, stream, cancelled>>

Free ==
  /\ pc = "free" /\ pc' = "generated" /\ FreeAll
  /\ UNCHANGED <<piece, genVars, audioVars, outVars, envVars>>

-------------------------------------------------------------------------------
(* A stream: onFrame, and decodePending(true) after the last frame *)

(* RunFrames: the codec goes on where it stopped.  seed is reported only before audio was *)
(* emitted, which it has been by then.                                                    *)
RunFrames(n) ==
  /\ started' = TRUE /\ fed' = fed \o SubSeq(pending, 1, n)
  /\ wave' = Audio(SubSeq(pending, 1, n), piece = 1 /\ ~started')
  /\ UNCHANGED faults

RunFramesFails == Fault /\ UNCHANGED <<started, fed, wave>>

(* Mutant: the beginning of the piece is kept. *)
KeepHead == tail' = SubSeq(gen[piece], 1, Min({ContextFrames, Len(gen[piece])}))

(* The tail follows every frame that is called back. *)
Keep == tail' = LastOf(gen[piece], ContextFrames)

CallbackWaits ==
  /\ pc = "callback" /\ pc' = "decode" /\ Keep
  /\ \E b \in IF started THEN Budgets ELSE {FirstBudget} : Len(pending) < b
  /\ UNCHANGED <<piece, gen, valley, context, tensorVars, audioVars, outVars, envVars>>

CallbackDecodes ==
  /\ pc = "callback" /\ Keep
  /\ \E b \in IF started THEN Budgets ELSE {FirstBudget} :
       /\ Len(pending) >= b /\ pending' = SubSeq(pending, b + 1, Len(pending))
       /\ \/ pc' = "send" /\ RunFrames(b)
          \/ pc' = "decode" /\ RunFramesFails
  /\ UNCHANGED <<piece, gen, valley, context, tensorVars, outVars, stream, cancelled>>

(* Mutant: the last frames wait for the budget too. *)
FlushWaits ==
  /\ pc = "generated" /\ stream /\ ~cancelled /\ pending' = <<>>
  /\ \E b \in IF started THEN Budgets ELSE {FirstBudget} :
       \/ Len(pending) < b /\ pc' = "pause" /\ UNCHANGED <<started, fed, wave, faults>>
       \/ Len(pending) >= b /\ pc' = "sendlast" /\ RunFrames(Len(pending))
       \/ Len(pending) >= b /\ pc' = "pause" /\ RunFramesFails
  /\ UNCHANGED <<piece, genVars, tensorVars, outVars, stream, cancelled>>

Flush ==
  /\ pc = "generated" /\ stream /\ ~cancelled /\ pending' = <<>>
  /\ \/ pending = <<>> /\ pc' = "pause" /\ UNCHANGED <<started, fed, wave, faults>>
     \/ pending # <<>> /\ pc' = "sendlast" /\ RunFrames(Len(pending))
     \/ pending # <<>> /\ pc' = "pause" /\ RunFramesFails
  /\ UNCHANGED <<piece, genVars, tensorVars, outVars, stream, cancelled>>

(* A send ends when there is room, or is given up when the task is cancelled. *)
Sent(item) ==
  \/ Len(chan) < Capacity /\ chan' = Append(chan, item)
  \/ cancelled /\ UNCHANGED chan

Send ==
  /\ \/ pc = "send" /\ pc' = "decode"
     \/ pc = "sendlast" /\ pc' = "pause"
  /\ Sent(wave)
  /\ UNCHANGED <<piece, genVars, tensorVars, audioVars, closed, heard, left, envVars>>

(* decodePending(true) is over; the codec is reset, and a pause follows but for the last piece. *)
SendPause ==
  /\ pc = "pause" /\ stream /\ Next
  /\ IF piece < Pieces THEN Len(chan) < Capacity /\ chan' = Append(chan, Pause) ELSE UNCHANGED chan
  /\ fed' = <<>>
  /\ UNCHANGED <<genVars, tensorVars, pending, started, wave, closed, heard, left, envVars>>

(* Mutant: the pause is sent without a look at the context. *)
PauseStays == pc = "pause" /\ FALSE /\ UNCHANGED vars

PauseCancelled ==
  /\ pc = "pause" /\ stream /\ piece < Pieces /\ Interrupted
  /\ UNCHANGED <<piece, genVars, tensorVars, audioVars, envVars>>

-------------------------------------------------------------------------------
(* A plain synthesis: decodeFramesStreaming, batch by batch, once the frames are complete *)

GeneratedCancelled ==
  /\ pc = "generated" /\ Interrupted
  /\ UNCHANGED <<piece, genVars, tensorVars, audioVars, envVars>>

(* Mutant: the codec is not reset for a new piece. *)
GeneratedGoesOn ==
  /\ pc = "generated" /\ ~stream /\ ~cancelled /\ pc' = "batch"
  /\ tail' = IF gen[piece] = <<>> THEN tail ELSE LastOf(gen[piece], ContextFrames)
  /\ pending' = gen[piece] /\ UNCHANGED fed
  /\ UNCHANGED <<piece, gen, valley, context, tensorVars, started, wave, outVars, envVars>>

Generated ==
  /\ pc = "generated" /\ ~stream /\ ~cancelled /\ pc' = "batch"
  /\ tail' = IF gen[piece] = <<>> THEN tail ELSE LastOf(gen[piece], ContextFrames)
  /\ fed' = <<>> /\ pending' = gen[piece]
  /\ UNCHANGED <<piece, gen, valley, context, tensorVars, started, wave, outVars, envVars>>

(* A first batch that fails takes the others with it. *)
Batch ==
  /\ pc = "batch" /\ pending # <<>>
  /\ LET n == Min({BatchSize, Len(pending)}) IN
       \/ /\ RunFrames(n) /\ chan' = Append(chan, wave')
          /\ pending' = SubSeq(pending, n + 1, Len(pending))
       \/ /\ RunFramesFails /\ UNCHANGED chan
          /\ pending' = IF started THEN SubSeq(pending, n + 1, Len(pending)) ELSE <<>>
  /\ UNCHANGED <<pc, piece, genVars, tensorVars, closed, heard, left, stream, cancelled>>

BatchCancelled ==
  /\ pc = "batch" /\ pending = <<>> /\ Interrupted
  /\ UNCHANGED <<piece, genVars, tensorVars, audioVars, envVars>>

BatchEnd ==
  /\ pc = "batch" /\ pending = <<>> /\ ~cancelled /\ Next
  /\ chan' = IF piece < Pieces THEN Append(chan, Pause) ELSE chan
  /\ UNCHANGED <<genVars, tensorVars, audioVars, closed, heard, left, envVars>>

End ==
  /\ pc = "last" /\ pc' = "end" /\ closed' = TRUE
  /\ IF stream THEN UNCHANGED <<chan, heard>> ELSE heard' = chan /\ chan' = <<>>
  /\ UNCHANGED <<piece, genVars, tensorVars, audioVars, left, envVars>>

-------------------------------------------------------------------------------
(* The reader of a stream and the end of the request *)

Receive ==
  /\ stream /\ ~left /\ chan # <<>>
  /\ chan' = Tail(chan)
  /\ IF cancelled THEN left' = TRUE /\ UNCHANGED heard
                  ELSE heard' = Append(heard, Head(chan)) /\ UNCHANGED left
  /\ UNCHANGED <<pc, piece, genVars, tensorVars, audioVars, closed, envVars>>

Cancel ==
  /\ MayCancel /\ ~cancelled /\ ~closed /\ cancelled' = TRUE
  /\ UNCHANGED <<pc, piece, genVars, tensorVars, audioVars, outVars, stream, faults>>

LoopStep == PieceCancelled \/ Piece \/ GeneratedCancelled \/ Generated \/ End

GenerateStep ==
  \/ PrefillNone \/ Prefill \/ StepCancelled \/ StepStops \/ StepRebounds
  \/ \E f \in Codes, p \in {"none", "low", "high"} : StepFrame(f, p)
  \/ Decode \/ DecodeFails \/ Free

StreamStep == CallbackWaits \/ CallbackDecodes \/ Flush \/ Send \/ SendPause \/ PauseCancelled

PlainStep == Batch \/ BatchCancelled \/ BatchEnd

TaskStep == LoopStep \/ GenerateStep \/ StreamStep \/ PlainStep

NextStep == TaskStep \/ Receive \/ Cancel

Spec == Init /\ [][NextStep]_vars

(* The goroutines of the task and of its reader are scheduled, and every inference ends. *)
FairSpec == Spec /\ WF_vars(TaskStep) /\ WF_vars(Receive)

-------------------------------------------------------------------------------
(* Properties *)

Everything == heard \o chan

(* A frame that ends a piece because it repeats is not called back. *)
Spoken(p) == IF stream /\ Frozen(gen[p]) THEN Front(gen[p]) ELSE gen[p]

(* The values the variables may have. *)
TypeOK ==
  /\ stream \in BOOLEAN /\ piece \in PieceNo /\ valley \in BOOLEAN
  /\ gen \in [PieceNo -> Seq(Codes)] /\ context \in [PieceNo -> Seq(Codes)]
  /\ \A p \in PieceNo : Len(gen[p]) <= MaxNewFrames /\ Len(context[p]) <= ContextFrames
  /\ stream => Len(chan) <= Capacity
  /\ faults \in 0..MaxFaults /\ started \in BOOLEAN /\ held \in BOOLEAN

(* The codec carries its state from batch to batch and starts every piece afresh: audio is *)
(* decoded after exactly the earlier frames of the same piece, whichever batches the pace  *)
(* of the listener gave, and unless an inference failed none of them is missing.           *)
CodecContinues ==
  /\ pc \in {"callback", "decode", "free", "generated"} /\ stream /\ faults = 0 =>
       fed \o pending = Spoken(piece) \/ (pc = "generated" /\ cancelled)
  /\ pc = "batch" /\ faults = 0 => fed \o pending = gen[piece]

(* A past exists exactly during generation: no run reads tensors that are destroyed, and *)
(* none stays behind, whichever way a piece ends.                                        *)
PastLives ==
  live = IF pc \in {"step", "callback", "send", "decode", "free"} THEN {past} ELSE {}

(* What a run hands to the next one, the past of the model and the state of the codec, is *)
(* that of the same piece and of all of it.                                               *)
StateCarriesOn == PastLives /\ CodecContinues

(* A place in the text is a piece and a number of its frames.  From here and up to there  *)
(* item w takes the listener, a pause to the next piece; so far the first n items do.     *)
From(w) == <<w.piece, IF w.pause THEN Len(Spoken(w.piece)) ELSE w.after>>
To(w) == IF w.pause THEN <<w.piece + 1, 0>> ELSE <<w.piece, w.after + Len(w.frames)>>
Reached(items, n) == IF n = 0 THEN <<1, 0>> ELSE To(items[n])

(* The frames that belong between the two. *)
Said(w) == IF w.pause THEN <<>> ELSE SubSeq(Spoken(w.piece), w.after + 1, w.after + Len(w.frames))

(* Unless the task is cancelled or an inference fails, the audio is all the frames of all the *)
(* pieces, in their order, with one pause between two pieces.  A stream lacks the frame that  *)
(* ended a piece by repeating.                                                                *)
NothingLost ==
  closed /\ ~cancelled /\ faults = 0 =>
    /\ \A i \in DOMAIN Everything :
         /\ From(Everything[i]) = Reached(Everything, i - 1)
         /\ Everything[i].frames = Said(Everything[i])
    /\ Reached(Everything, Len(Everything)) = <<Pieces, Len(Spoken(Pieces))>>

(* The synthesis as its listener knows it (Speech): what is still to be spoken, how far the *)
(* codec is in the piece, and the audio on its way, the wave that is being sent included.   *)
Phase == IF pc = "end" THEN "over" ELSE IF pc = "last" THEN "spoken" ELSE "speaking"
Rest == IF Phase # "speaking" THEN <<>>
        ELSE IF stream \/ pc = "batch" THEN pending ELSE gen[piece]
Decoded == IF Phase = "speaking" /\ (stream \/ pc = "batch") THEN Len(fed) ELSE 0
Way == IF pc \in {"send", "sendlast"} THEN Append(chan, wave) ELSE chan
Text == [p \in PieceNo |-> Spoken(p)]

Speaker == INSTANCE Speech WITH
  phase <- Phase, text <- Text, rest <- Rest, decoded <- Decoded, way <- Way

(* Batches, failed inferences and cancellation together: what is heard is always a part of the *)
(* text from its beginning on, without a gap and decoded in one go for each piece, but for one *)
(* run of frames per failed inference and what a cancellation cuts off at the end.             *)
ImplementsSpeech == Speaker!SpeechSpec

(* The context of a piece is the end of the last piece before it that was spoken, as far *)
(* as it was called back: pieces without a frame do not clear it.                        *)
ContextIsLastSpoken ==
  \A p \in 1..piece : (p = piece => pc \notin {"piece", "end"}) =>
    LET spoken == {q \in 1..(p - 1) : Spoken(q) # <<>>}
    IN context[p] = IF spoken = {} THEN <<>> ELSE LastOf(Spoken(Max(spoken)), ContextFrames)

(* A synthesis ends, also when its reader has gone and the channel is full: every send *)
(* gives way to the cancellation, and every way out closes the channel.                *)
SynthesisEnds == <>closed

-------------------------------------------------------------------------------
(* What the code does not do; no run lists these. *)

(* "so that nothing is freed twice" (runtime.go:1254): the tensors of the prefill are, after *)
(* the first run of decode.  The library's Destroy bears it.                                 *)
DestroyedOnce == ~again

(* "the last frames of the previous chunk, as the acoustic context of the next" *)
(* (ttsruntime.go:1090): not when the previous one has no frames.               *)
ContextIsPrevious ==
  \A p \in 2..Pieces : p = piece /\ pc = "prefill" => context[p] = LastOf(Spoken(p - 1), ContextFrames)

(* A stream tells the seed with its first audio (X-Seed-Used, api.md:367): hasEmittedAudio *)
(* is set before it is looked at.                                                          *)
SeedIsSent == stream /\ heard # <<>> => heard[1].seed

=============================================================================
