-------------------------------- MODULE Bits --------------------------------
(***************************************************************************)
(* Words and bit strings as the sets of their one-bits: bit 0 is the least *)
(* significant, OR is union, AND with a mask is intersection.              *)
(***************************************************************************)
EXTENDS Integers

CONSTANT ByteBits   \* 8

ShiftLeft(w, n) == {i + n : i \in w}
ShiftRight(w, n) == {i - n : i \in {j \in w : j >= n}}
Xor(v, w) == (v \ w) \cup (w \ v)
LowBits(w, n) == w \cap 0 .. n - 1

\* A string [bits, ones] with n bits of w behind it.
Extend(s, w, n) == [bits |-> s.bits + n, ones |-> s.ones \cup ShiftLeft(LowBits(w, n), s.bits)]
=============================================================================
