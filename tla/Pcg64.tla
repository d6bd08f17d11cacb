-------------------------------- MODULE Pcg64 --------------------------------
(***************************************************************************)
(* The random numbers (src/pkg/sampler/pcg64.go), for words of             *)
(* 2 ^ RotBits bits instead of 64: a state of two words is multiplied by a *)
(* constant and increased, and its words are folded into the output.       *)
(* The mixing of the seed is left out: its results, four words, are        *)
(* arbitrary.                                                              *)
(***************************************************************************)
EXTENDS DoubleWords, FiniteSets, SequencesExt, Bitwise

CONSTANT RotBits  \* bits of a rotation: 6

W == 2 ^ RotBits

ASSUME RotAssumption == RotBits \in Nat \ {0} /\ B = 2 ^ W

rotr64(value, rot) ==
  LET r == rot % W IN IF r = 0 THEN value ELSE (value \div 2 ^ r) + ((value * 2 ^ (W - r)) % B)

Start(state, inc) ==
  LET first == Step(<<0, 0>>, inc) IN Step(add128mod(first[1], first[2], state[1], state[2]), inc)

(* nextUint64, from the state after the step *)
Output(state) == rotr64(state[1] ^^ state[2], state[1] \div 2 ^ (W - RotBits))

(* The states after 0, 1, .., n - 1 further steps. *)
RECURSIVE Orbit(_, _, _)
Orbit(state, inc, n) ==
  <<state>> \o (IF n = 1 THEN <<>> ELSE Orbit(Step(state, inc), inc, n - 1))
=============================================================================
