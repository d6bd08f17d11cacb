-------------------------------- MODULE Speech --------------------------------
(***************************************************************************)
(* What a synthesis promises to its listener, without tensors, batches or  *)
(* channels: the pieces of the text are spoken one after the other, each   *)
(* from its first frame to its last and with a pause between two; what is  *)
(* heard is what was spoken, without a gap; and only a fault or a          *)
(* cancellation takes frames away.  A fault takes one run of frames that   *)
(* follow on one another, and the speech goes on behind it.  FrameStream   *)
(* implements this specification.                                          *)
(***************************************************************************)
EXTENDS Naturals, Sequences

CONSTANTS Codes,  \* the different frames
          Pieces  \* number of pieces of the text

VARIABLES stream,    \* the listener hears the audio while it is made
          phase,     \* "speaking", "spoken" or "over"
          piece,     \* the piece that is spoken
          text,      \* [1..Pieces -> Seq(Codes)]: the frames of each piece, as they are made
          rest,      \* those of the current piece that are still to be spoken
          decoded,   \* the frames of the piece that the decoder has gone through
          way,       \* the audio that was made and not heard
          heard,     \* the audio that was heard
          left,      \* the listener has gone
          cancelled, \* somebody does not want to hear more
          faults     \* inferences that have failed

madeVars == <<piece, text, rest, decoded>>
heardVars == <<way, heard, left>>
causeVars == <<cancelled, faults>>
speechVars == <<stream, phase, madeVars, heardVars, causeVars>>

Sound(frames, hasSeed) ==
  [piece |-> piece, pause |-> FALSE, after |-> decoded, frames |-> frames, seed |-> hasSeed]
Silence == [piece |-> piece, pause |-> TRUE, after |-> 0, frames |-> <<>>, seed |-> FALSE]

Behind(k) == SubSeq(rest, k + 1, Len(rest))

SpeechInit ==
  /\ stream \in BOOLEAN /\ phase = "speaking" /\ piece = 1
  /\ text = [p \in 1..Pieces |-> <<>>] /\ rest = <<>> /\ decoded = 0
  /\ way = <<>> /\ heard = <<>> /\ left = FALSE
  /\ cancelled = FALSE /\ faults = 0

(* The text of the piece grows by a frame. *)
Think(f) ==
  /\ phase = "speaking"
  /\ text' = [text EXCEPT ![piece] = Append(@, f)] /\ rest' = Append(rest, f)
  /\ UNCHANGED <<stream, phase, piece, decoded, heardVars, causeVars>>

(* The next k frames become audio. *)
Speak(k, hasSeed) ==
  /\ phase = "speaking" /\ k > 0
  /\ way' = Append(way, Sound(SubSeq(rest, 1, k), hasSeed))
  /\ rest' = Behind(k) /\ decoded' = decoded + k
  /\ UNCHANGED <<stream, phase, piece, text, heard, left, causeVars>>

(* A fault: the next k frames are never heard; none are when it ends the text of the piece. *)
Stumble(k) ==
  /\ phase = "speaking" /\ faults' = faults + 1
  /\ rest' = Behind(k)
  /\ UNCHANGED <<stream, phase, piece, text, decoded, heardVars, cancelled>>

(* All that was made of the piece is spoken. *)
TurnPage ==
  /\ phase = "speaking" /\ rest = <<>> /\ piece < Pieces
  /\ piece' = piece + 1 /\ decoded' = 0
  /\ way' = Append(way, Silence)
  /\ UNCHANGED <<stream, phase, text, rest, heard, left, causeVars>>

LastWord ==
  /\ phase = "speaking" /\ rest = <<>> /\ piece = Pieces
  /\ phase' = "spoken" /\ decoded' = 0
  /\ UNCHANGED <<stream, piece, text, rest, heardVars, causeVars>>

(* Only who has waited for the whole audio gets it now. *)
Close ==
  /\ phase = "spoken" /\ phase' = "over"
  /\ IF stream THEN UNCHANGED <<way, heard>> ELSE heard' = heard \o way /\ way' = <<>>
  /\ UNCHANGED <<stream, madeVars, left, causeVars>>

Hear ==
  /\ stream /\ ~left /\ way # <<>>
  /\ heard' = Append(heard, Head(way)) /\ way' = Tail(way)
  /\ UNCHANGED <<stream, phase, madeVars, left, causeVars>>

Cancel ==
  /\ phase # "over" /\ cancelled' = TRUE
  /\ UNCHANGED <<stream, phase, madeVars, heardVars, faults>>

(* After that the text of the piece may be given up, or audio that is not sent yet, *)
(* or all that is left; the listener goes with the next audio in hand.              *)
GiveUpText ==
  /\ phase = "speaking" /\ cancelled
  /\ text' = [text EXCEPT ![piece] = <<>>] /\ rest' \in {rest, <<>>}
  /\ UNCHANGED <<stream, phase, piece, decoded, heardVars, causeVars>>

GiveUpSound ==
  /\ phase = "speaking" /\ cancelled /\ way # <<>>
  /\ way' = SubSeq(way, 1, Len(way) - 1)
  /\ UNCHANGED <<stream, phase, madeVars, heard, left, causeVars>>

BreakOff ==
  /\ phase = "speaking" /\ cancelled /\ phase' = "over"
  /\ rest' = <<>> /\ decoded' = 0
  /\ UNCHANGED <<stream, piece, text, heardVars, causeVars>>

Leave ==
  /\ stream /\ cancelled /\ ~left /\ way # <<>>
  /\ left' = TRUE /\ way' = Tail(way)
  /\ UNCHANGED <<stream, phase, madeVars, heard, causeVars>>

SpeechNext ==
  \/ \E f \in Codes : Think(f)
  \/ \E k \in 0..Len(rest) : Stumble(k) \/ \E hasSeed \in BOOLEAN : Speak(k, hasSeed)
  \/ TurnPage \/ LastWord \/ Close \/ Hear
  \/ Cancel \/ GiveUpText \/ GiveUpSound \/ BreakOff \/ Leave

SpeechSpec == SpeechInit /\ [][SpeechNext]_speechVars
=============================================================================
