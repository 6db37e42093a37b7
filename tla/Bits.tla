-------------------------------- MODULE Bits --------------------------------
(* Machine words as sets of bit positions: a word is the set of the positions of its one  *)
(* bits, OR is union, AND with a mask is intersection and a shift moves every position.   *)
EXTENDS Integers, Sequences, FiniteSetsExt, SequencesExt

Word == 0..31               \* the positions of a 32-bit word
Shl(x, n) == {b + n : b \in x} \cap Word
Shr(x, n) == {b - n : b \in {p \in x : p >= n}}
Field(x, hi, lo) == Shr(x \cap (lo..hi), lo)
\* the bits of an integer's two's complement, in a field of w
BitsOf(n, w) == {b \in 0..w-1 : (n \div 2^b) % 2 = 1}
\* the integers a field denotes, unsigned and, w wide, signed
Unsigned(x) == FoldSet(LAMBDA b, s : s + 2^b, 0, x)
Signed(x, w) == Unsigned(x) - (IF w - 1 \in x THEN 2^w ELSE 0)
=============================================================================
