------------------------------- MODULE Waveform -------------------------------
(***************************************************************************)
(* The end of the audio (TrimTrailingSilence, src/pkg/audio/audio.go): the *)
(* silence after the last window with sound is cut, but for a little.      *)
(*                                                                         *)
(* A waveform is a sequence of samples of all channels, TRUE where it is   *)
(* loud; one loud sample makes its window a voiced one.                    *)
(***************************************************************************)
EXTENDS Naturals, SequencesExt, FiniteSetsExt

CONSTANTS
  Shortest,      \* samples below which nothing is cut: a quarter of a second
  WindowSamples, \* samples in 20 ms
  PaddingWindows \* windows that are kept: 150 ms

ASSUME WaveAssumption == Shortest \in Nat /\ WindowSamples \in Nat \ {0} /\ PaddingWindows \in Nat

Voiced(wave, w) == \E i \in (w * WindowSamples + 1)..((w + 1) * WindowSamples) : wave[i]

(* Mutant of VoicedWindows: the last one is not looked at. *)
VoicedWindowsButLast(wave) == {w \in 0..((Len(wave) \div WindowSamples) - 2) : Voiced(wave, w)}

VoicedWindows(wave) == {w \in 0..((Len(wave) \div WindowSamples) - 1) : Voiced(wave, w)}

CutSample(wave) ==
  Min({Len(wave), (Max(VoicedWindows(wave)) + 1 + PaddingWindows) * WindowSamples})

(* More than 60 per cent are not cut. *)
TrimTrailingSilence(wave) ==
  IF Len(wave) < Shortest \/ VoicedWindows(wave) = {} THEN wave
  ELSE IF (Len(wave) - CutSample(wave)) * 10 > 6 * Len(wave) THEN wave
  ELSE SubSeq(wave, 1, CutSample(wave))

(* given is a beginning of the wave, with all its sound but that in the incomplete window at *)
(* the end.                                                                                  *)
KeepsVoice(wave, given) ==
  /\ given = SubSeq(wave, 1, Len(given))
  /\ \A i \in DOMAIN wave :
       wave[i] /\ i <= (Len(wave) \div WindowSamples) * WindowSamples => i <= Len(given)
=============================================================================
