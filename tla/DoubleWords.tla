----------------------------- MODULE DoubleWords -----------------------------
(***************************************************************************)
(* Numbers of two machine words, high and low, as pcg64.go calculates with *)
(* them (src/pkg/sampler/pcg64.go), for words of any width: B is 2 ^ 64.   *)
(***************************************************************************)
EXTENDS Naturals

CONSTANTS
  B,      \* the number of words
  MultHi, \* pcgMultHi
  MultLo  \* pcgMultLo

Word == 0..(B - 1)

ASSUME WordAssumption ==
  /\ B \in Nat \ {0} /\ B % 2 = 0
  /\ MultHi \in Word /\ MultLo \in Word

Value(hi, lo) == hi * B + lo

mul128mod(aHi, aLo, bHi, bLo) ==
  LET low == aLo * bLo  \* bits.Mul64
  IN <<(low \div B + aHi * bLo + aLo * bHi) % B, low % B>>

(* The low words have overflowed when their sum is less than one of them. *)
add128mod(aHi, aLo, bHi, bLo) ==
  LET lo == (aLo + bLo) % B
  IN <<(aHi + bHi + (IF lo < aLo THEN 1 ELSE 0)) % B, lo>>

shiftLeft1_128(hi, lo) == <<((hi * 2) % B) + (lo \div (B \div 2)), (lo * 2) % B>>

(* PCG64.step *)
Step(state, inc) ==
  LET product == mul128mod(state[1], state[2], MultHi, MultLo)
  IN add128mod(product[1], product[2], inc[1], inc[2])

(* Mutant of Increment: it may be even. *)
IncrementEven(seq) == shiftLeft1_128(seq[1], seq[2])

(* The end of initSeedSequence: the lowest bit of the increment is set. *)
Increment(seq) == LET shifted == shiftLeft1_128(seq[1], seq[2]) IN <<shifted[1], shifted[2] + 1>>
=============================================================================
