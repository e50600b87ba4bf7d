-------------------------------- MODULE Word --------------------------------
(***************************************************************************)
(* The machine words the codec computes in: u32 and i32 of Rust, at width  *)
(* W.  Every sum and product of the filters wraps.                         *)
(***************************************************************************)
EXTENDS Integers

CONSTANT W      \* 32

ASSUME WordWidth == W \in Nat /\ W > 1

\* What the proofs use of the powers of two, which the provers do not know.
ASSUME PowersOfTwo ==
  /\ \A n \in 0 .. W : 2^n \in Nat \ {0}
  /\ \A m, n \in 0 .. W : m <= n => 2^m <= 2^n
  /\ \A n \in 1 .. W : 2^n = 2 * 2^(n - 1)
  /\ 2^5 = 32

Words == 0 .. 2^W - 1
LeastInt == -(2^(W - 1))
Ints == LeastInt .. 2^(W - 1) - 1

Wrap(x) == x % 2^W                                   \* x as u32
Signed(x) == Wrap(x - LeastInt) + LeastInt           \* x as i32
ShiftedRight(x, n) == x \div 2^n                     \* arithmetic on an i32
HalfTowardZero(x) == IF x < 0 THEN -((-x) \div 2) ELSE x \div 2
=============================================================================
