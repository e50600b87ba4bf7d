-------------------------- MODULE FrameCodec_proof --------------------------
(***************************************************************************)
(* For every width, stream and priming: the codec's state keeps its type,  *)
(* encoder and decoder stay in step, what was encoded comes back, and the  *)
(* tape of the trace build can be followed from event to event.            *)
(***************************************************************************)
EXTENDS Trace, WellFoundedInduction, TLAPS

-----------------------------------------------------------------------------
(***************************************************************************)
(* Wrapping arithmetic.  A wrapped result differs from the true one by a   *)
(* multiple of 2^W, and a word is the only one of its class: what was      *)
(* added can be taken away again, however often it wrapped.                *)
(***************************************************************************)
LEMMA Modulus ==
  /\ 2^W \in Nat \ {0}
  /\ 2^(W - 1) \in Nat \ {0}
  /\ 2^W = 2 * 2^(W - 1)
  BY WordWidth, PowersOfTwo

LEMMA DivMod ==
  ASSUME NEW a \in Int, NEW m \in Nat \ {0}
  PROVE  /\ a \div m \in Int
         /\ a % m \in 0 .. m - 1
         /\ a = (a \div m) * m + (a % m)
         /\ a \in Nat => a \div m \in Nat
  BY SMT

\* Two members of a range of length m that differ by a multiple of m are equal.
LEMMA OneOfClass ==
  ASSUME NEW m \in Nat \ {0}, NEW l \in Int, NEW a \in Int, NEW b \in Int, NEW k \in Int,
         l <= a, a < l + m, l <= b, b < l + m, a = b + k * m
  PROVE  a = b
<1>1. ~(k >= 1)
  <2> SUFFICES ASSUME k >= 1 PROVE FALSE OBVIOUS
  <2>1. k * m >= m BY SMT
  <2> QED BY <2>1, SMT
<1>2. ~(k <= -1)
  <2> SUFFICES ASSUME k <= -1 PROVE FALSE OBVIOUS
  <2>1. k * m <= -m BY SMT
  <2> QED BY <2>1, SMT
<1> QED BY <1>1, <1>2, SMT

LEMMA WrapOff ==
  ASSUME NEW x \in Int
  PROVE  Wrap(x) \in Words /\ \E k \in Int : Wrap(x) = x + k * 2^W
<1> DEFINE m == 2^W
           q == x \div m
           r == x % m
<1>1. m \in Nat \ {0} BY Modulus
<1> HIDE DEF m
<1>2. q \in Int /\ r \in 0 .. m - 1 /\ x = q * m + r BY <1>1, DivMod
<1> HIDE DEF q, r
<1>3. -q \in Int /\ r = x + (-q) * m
  <2>1. (-q) * m = -(q * m) BY <1>1, <1>2, SMT
  <2>2. q * m \in Int BY <1>1, <1>2, SMT
  <2> QED BY <1>1, <1>2, <2>1, <2>2, SMT
<1> QED BY <1>2, <1>3 DEF Wrap, Words, r, m

LEMMA WrapWord ==
  ASSUME NEW x \in Words
  PROVE  Wrap(x) = x /\ x \in Nat
<1> DEFINE m == 2^W
<1>1. m \in Nat \ {0} BY Modulus
<1>2. x \in 0 .. m - 1 BY DEF Words
<1> HIDE DEF m
<1>3. x % m = x BY <1>1, <1>2, SMT
<1> QED BY <1>2, <1>3 DEF Wrap, m

LEMMA SignedOff ==
  ASSUME NEW x \in Int
  PROVE  Signed(x) \in Ints /\ \E k \in Int : Signed(x) = x + k * 2^W
<1> DEFINE m == 2^W
           l == LeastInt
           w == Wrap(x - l)
<1>1. m \in Nat \ {0} /\ l \in Int /\ Ints = l .. l + m - 1
  <2>1. -(2^(W - 1)) + 2^W - 1 = 2^(W - 1) - 1 BY Modulus, SMT
  <2> QED BY <2>1, Modulus DEF Ints, LeastInt
<1>2. x - l \in Int BY <1>1
<1>3. w \in 0 .. m - 1 /\ \E k \in Int : w = x - l + k * m
  BY <1>2, WrapOff DEF Words
<1>4. PICK k \in Int : w = x - l + k * m BY <1>3
<1>5. k * m \in Int BY <1>1
<1> HIDE DEF m, l, w
<1>6. w + l \in l .. l + m - 1 /\ w + l = x + k * m BY <1>1, <1>3, <1>4, <1>5, SMT
<1>7. Signed(x) = w + l BY DEF Signed, w, l
<1> QED BY <1>1, <1>6, <1>7 DEF m

\* A word is what every expression of its class wraps to.
LEMMA SignedClass ==
  ASSUME NEW a \in Ints, NEW x \in Int, NEW k \in Int, x = a + k * 2^W
  PROVE  Signed(x) = a
<1> DEFINE m == 2^W
           l == LeastInt
<1>1. m \in Nat \ {0} /\ l \in Int /\ Ints = l .. l + m - 1
  <2>1. -(2^(W - 1)) + 2^W - 1 = 2^(W - 1) - 1 BY Modulus, SMT
  <2> QED BY <2>1, Modulus DEF Ints, LeastInt
<1>2. Signed(x) \in Ints /\ \E j \in Int : Signed(x) = x + j * m BY SignedOff
<1>3. PICK j \in Int : Signed(x) = x + j * m BY <1>2
<1>4. x = a + k * m OBVIOUS
<1> DEFINE s == Signed(x)
<1>5. s \in Ints /\ s = x + j * m BY <1>2, <1>3
<1> HIDE DEF m, l, s
<1>6. (k + j) * m = k * m + j * m /\ k * m \in Int /\ j * m \in Int BY <1>1, SMT
<1>7. a \in Int /\ s \in Int /\ k + j \in Int BY <1>1, <1>5
<1>8. s = a + (k + j) * m BY <1>4, <1>5, <1>6, <1>7, SMT
<1>9. l <= a /\ a < l + m /\ l <= s /\ s < l + m BY <1>1, <1>5
<1>10. s = a BY <1>1, <1>7, <1>8, <1>9, OneOfClass
<1> QED BY <1>10 DEF s

LEMMA IntsAreIntegers == Ints \subseteq Int /\ LeastInt \in Ints /\ 0 \in Ints
  BY Modulus DEF Ints, LeastInt

LEMMA SignedInt ==
  ASSUME NEW x \in Ints
  PROVE  Signed(x) = x
<1>1. x \in Int BY IntsAreIntegers
<1>2. x = x + 0 * 2^W
  <2>1. 0 * 2^W = 0 BY Modulus, SMT
  <2> QED BY <1>1, <2>1
<1> QED BY <1>1, <1>2, SignedClass

\* The decoder adds what the encoder took away.
LEMMA SignedAddBack ==
  ASSUME NEW a \in Ints, NEW b \in Int
  PROVE  Signed(Signed(a - b) + b) = a
<1>1. a \in Int /\ 2^W \in Int BY IntsAreIntegers, Modulus
<1> DEFINE m == 2^W
           d == Signed(a - b)
<1>2. d \in Int /\ \E k \in Int : d = a - b + k * m BY <1>1, SignedOff, IntsAreIntegers
<1>3. PICK k \in Int : d = a - b + k * m BY <1>2
<1> HIDE DEF d, m
<1>4. k * m \in Int BY <1>1 DEF m
<1>5. d + b \in Int /\ d + b = a + k * m BY <1>1, <1>2, <1>3, <1>4, SMT
<1>6. Signed(d + b) = a BY <1>5, SignedClass DEF m
<1> QED BY <1>6 DEF d

\* The cascade takes the difference from its upper end.
LEMMA SignedTakeAway ==
  ASSUME NEW a \in Int, NEW b \in Ints
  PROVE  Signed(a - Signed(a - b)) = b
<1>1. b \in Int /\ 2^W \in Int BY IntsAreIntegers, Modulus
<1> DEFINE m == 2^W
           d == Signed(a - b)
<1>2. d \in Int /\ \E k \in Int : d = a - b + k * m BY <1>1, SignedOff, IntsAreIntegers
<1>3. PICK k \in Int : d = a - b + k * m BY <1>2
<1> HIDE DEF d, m
<1>4. k * m \in Int /\ (-k) * m = -(k * m) /\ -k \in Int BY <1>1, SMT DEF m
<1>5. a - d \in Int /\ a - d = b + (-k) * m BY <1>1, <1>2, <1>3, <1>4, SMT
<1>6. Signed(a - d) = b BY <1>4, <1>5, SignedClass DEF m
<1> QED BY <1>6 DEF d

-----------------------------------------------------------------------------
(***************************************************************************)
(* One codeword: a decoder whose tracker equals the encoder's reads the    *)
(* bits that were written, ends with the encoder's next tracker, and has   *)
(* the residual.                                                           *)
(***************************************************************************)
Codewords == [ones : Nat, width : 0 .. MaxK, tail : Words]

\* The powers of two that a tracker shifts by.
LEMMA TailPower ==
  ASSUME NEW k \in 0 .. MaxK
  PROVE  /\ 2^k \in Nat \ {0} /\ 2^k <= 2^(W - 1) /\ 2^k \in Words
         /\ ShlSaturating(k) = 2^k
<1>1. k \in 0 .. W - 1 /\ k \in 0 .. W /\ W - 1 \in 0 .. W BY WordWidth, RiceAssumption
<1>2. 2^k \in Nat \ {0} BY <1>1, PowersOfTwo
<1>3. k <= W - 1 BY <1>1
<1>4. 2^k <= 2^(W - 1) BY <1>1, <1>3, PowersOfTwo
<1>5. 2^k \in Words BY <1>2, <1>4, Modulus DEF Words
<1>6. ShlSaturating(k) = 2^k
  <2>1. CASE k < W - 1 BY <2>1, <1>1, WordWidth DEF ShlSaturating
  <2>2. CASE ~(k < W - 1)
    <3>1. k = W - 1 BY <2>2, <1>1, WordWidth
    <3> QED BY <3>1, WordWidth DEF ShlSaturating
  <2> QED BY <2>1, <2>2
<1> QED BY <1>2, <1>4, <1>5, <1>6

\* Every residual but the least integer survives the zigzag.
LEMMA ZigzagBack ==
  ASSUME NEW e \in Ints
  PROVE  /\ Zigzag(e) \in Words
         /\ e # LeastInt => Dezigzag(Zigzag(e)) = e
<1> DEFINE h == 2^(W - 1)
<1>1. h \in Nat \ {0} /\ 2^W = 2 * h BY Modulus
<1>2. e \in Int /\ -h <= e /\ e <= h - 1 /\ LeastInt = -h BY <1>1 DEF Ints, LeastInt
<1>3. Words = 0 .. 2 * h - 1 BY <1>1 DEF Words
<1> HIDE DEF h
<1>4. CASE e > 0
  <2>1. 2 * e - 1 \in Words /\ 2 * e \in Words BY <1>1, <1>2, <1>3, <1>4
  <2>2. Zigzag(e) = 2 * e - 1 BY <1>4, <2>1, WrapWord DEF Zigzag
  <2>3. (2 * e - 1) % 2 = 1 /\ (2 * e - 1) + 1 = 2 * e /\ (2 * e) \div 2 = e BY <1>2, SMT
  <2>4. Wrap(2 * e) = 2 * e BY <2>1, WrapWord
  <2>5. Dezigzag(2 * e - 1) = e BY <2>3, <2>4 DEF Dezigzag
  <2> QED BY <2>1, <2>2, <2>5
<1>5. CASE ~(e > 0)
  <2>1. -e \in Words BY <1>1, <1>2, <1>3, <1>5
  <2>2. Wrap(-e) = -e BY <2>1, WrapWord
  <2>3. Zigzag(e) = Wrap(2 * (-e)) BY <1>5, <2>2 DEF Zigzag
  <2>4. Zigzag(e) \in Words BY <1>2, <2>3, WrapOff
  <2>5. ASSUME e # LeastInt PROVE Dezigzag(Zigzag(e)) = e
    <3>1. 2 * (-e) \in Words BY <1>1, <1>2, <1>3, <1>5, <2>5
    <3>2. Zigzag(e) = 2 * (-e) BY <2>3, <3>1, WrapWord
    <3>3. (2 * (-e)) % 2 # 1 /\ -((2 * (-e)) \div 2) = e BY <1>2, SMT
    <3> QED BY <3>2, <3>3 DEF Dezigzag
  <2> QED BY <2>4, <2>5
<1> QED BY <1>4, <1>5

-----------------------------------------------------------------------------
\* The trackers keep their type.

LEMMA NextSumTyped ==
  ASSUME NEW s \in Words, NEW v \in Words
  PROVE  NextSum(s, v) \in Words
<1>1. Decay \in 0 .. W BY RiceAssumption, WordWidth
<1>2. 2^Decay \in Nat \ {0} BY <1>1, PowersOfTwo
<1>3. s \in Nat /\ v \in Nat BY WrapWord
<1>4. s \div 2^Decay \in Nat
  <2>1. s \in Int BY <1>3
  <2> QED BY <1>2, <1>3, <2>1, DivMod
<1>5. s + v - (s \div 2^Decay) \in Int BY <1>3, <1>4
<1> QED BY <1>5, WrapOff DEF NextSum

LEMMA NextKTyped ==
  ASSUME NEW k \in 0 .. MaxK, NEW s
  PROVE  NextK(k, s) \in 0 .. MaxK
  BY RiceAssumption DEF NextK

LEMMA AdaptedTyped ==
  ASSUME NEW st \in RiceState, NEW v \in Words
  PROVE  /\ Adapted0(st, v) \in RiceState
         /\ Adapted1(st, v) \in RiceState
         /\ Adapted1(st, v).k0 = st.k0
<1>1. /\ st.k0 \in 0 .. MaxK /\ st.k1 \in 0 .. MaxK
      /\ st.sum0 \in Words /\ st.sum1 \in Words BY DEF RiceState
<1>2. /\ NextSum(st.sum0, v) \in Words /\ NextSum(st.sum1, v) \in Words
      /\ NextK(st.k0, NextSum(st.sum0, v)) \in 0 .. MaxK
      /\ NextK(st.k1, NextSum(st.sum1, v)) \in 0 .. MaxK
  BY <1>1, NextSumTyped, NextKTyped
<1> QED BY <1>2 DEF Adapted0, Adapted1, RiceState

LEMMA RiceInitTyped == RiceInit \in RiceState
<1>1. InitK + Decay \in 0 .. W /\ W - 1 \in 0 .. W /\ InitK + Decay <= W - 1
  BY RiceAssumption, WordWidth
<1>2. 2^(InitK + Decay) \in Nat /\ 2^(InitK + Decay) <= 2^(W - 1) BY <1>1, PowersOfTwo
<1>3. 2^(InitK + Decay) \in Words BY <1>2, Modulus DEF Words
<1>4. InitK \in 0 .. MaxK BY RiceAssumption
<1> QED BY <1>3, <1>4 DEF RiceInit, RiceState

-----------------------------------------------------------------------------
(***************************************************************************)
(* The two modes.                                                          *)
(***************************************************************************)

LEMMA LowCodeword ==
  ASSUME NEW st \in RiceState, NEW e \in Ints, LowMode(st, e)
  PROVE  LET cw == Codeword(st, e)
         IN  /\ cw \in Codewords
             /\ TailWidth(st, cw.ones) = cw.width
             /\ FinalValue(st, cw) = Zigzag(e)
             /\ DecoderNext(st, cw) = EncoderNext(st, e)
             /\ EncoderNext(st, e) \in RiceState
<1> DEFINE cw == Codeword(st, e)
<1>1. cw = [ones |-> 0, width |-> st.k0, tail |-> Zigzag(e)] BY DEF Codeword
<1>2. Zigzag(e) \in Words BY ZigzagBack
<1>3. cw \in Codewords BY <1>1, <1>2 DEF Codewords, RiceState
<1>4. cw.ones = 0 /\ cw.width = st.k0 /\ cw.tail = Zigzag(e) BY <1>1
<1> HIDE DEF cw
<1>5. TailWidth(st, cw.ones) = cw.width BY <1>4 DEF TailWidth
<1>6. FinalValue(st, cw) = Zigzag(e) BY <1>4 DEF FinalValue
<1>7. DecoderNext(st, cw) = Adapted0(st, Zigzag(e)) BY <1>4, <1>6 DEF DecoderNext
<1>8. EncoderNext(st, e) = Adapted0(st, Zigzag(e)) BY DEF EncoderNext
<1>9. EncoderNext(st, e) \in RiceState BY <1>2, <1>8, AdaptedTyped
<1> QED BY <1>3, <1>5, <1>6, <1>7, <1>8, <1>9 DEF cw

LEMMA HighCodeword ==
  ASSUME NEW st \in RiceState, NEW e \in Ints, ~LowMode(st, e)
  PROVE  LET cw == Codeword(st, e)
         IN  /\ cw \in Codewords
             /\ TailWidth(st, cw.ones) = cw.width
             /\ FinalValue(st, cw) = Zigzag(e)
             /\ DecoderNext(st, cw) = EncoderNext(st, e)
             /\ EncoderNext(st, e) \in RiceState
<1> DEFINE cw == Codeword(st, e)
           z == Zigzag(e)
           p0 == 2^st.k0
           p1 == 2^st.k1
           b == PreBias(st, e)
           q == b \div p1
           r == b % p1
<1>1. st.k0 \in 0 .. MaxK /\ st.k1 \in 0 .. MaxK BY DEF RiceState
<1>2. /\ p0 \in Nat \ {0} /\ p1 \in Nat \ {0} /\ p1 \in Words
      /\ ShlSaturating(st.k0) = p0
  BY <1>1, TailPower
<1>3. z \in Words /\ z \in Nat BY ZigzagBack, WrapWord
<1>4. ~(z < p0) /\ b = z - p0 BY DEF LowMode, PreBias
<1>5. cw = [ones |-> q + 1, width |-> st.k1, tail |-> r] BY DEF Codeword
<1> HIDE DEF cw, z, p0, p1, b
<1>6. b \in Nat /\ b + p0 = z /\ b <= z BY <1>2, <1>3, <1>4
<1>7. b \in Words BY <1>3, <1>6, Modulus DEF Words
<1>8. q \in Nat /\ r \in 0 .. p1 - 1 /\ b = q * p1 + r
  <2>1. b \in Int BY <1>6
  <2> QED BY <1>2, <1>6, <2>1, DivMod
<1> HIDE DEF q, r
<1>9. r \in Words BY <1>2, <1>8, Modulus DEF Words
<1>10. cw \in Codewords BY <1>1, <1>5, <1>8, <1>9 DEF Codewords
<1>11. cw.ones = q + 1 /\ cw.width = st.k1 /\ cw.tail = r BY <1>5
<1>12. cw.ones # 0 /\ cw.ones - 1 = q BY <1>8, <1>11
<1>13. TailWidth(st, cw.ones) = cw.width BY <1>11, <1>12 DEF TailWidth
<1>14. RawValue(cw) = b
  <2>1. RawValue(cw) = Wrap((cw.ones - 1) * 2^cw.width + cw.tail) BY <1>12 DEF RawValue
  <2>2. (cw.ones - 1) * 2^cw.width + cw.tail = b BY <1>8, <1>11, <1>12 DEF p1
  <2> QED BY <1>7, <2>1, <2>2, WrapWord
<1>15. FinalValue(st, cw) = z
  <2>1. FinalValue(st, cw) = Wrap(b + p0) BY <1>2, <1>12, <1>14 DEF FinalValue
  <2> QED BY <1>3, <1>6, <2>1, WrapWord
<1>16. DecoderNext(st, cw) = Adapted0(Adapted1(st, b), z)
  BY <1>12, <1>14, <1>15 DEF DecoderNext
<1>17. EncoderNext(st, e) = Adapted0(Adapted1(st, b), z)
  <2>1. EncoderNext(st, e) = Adapted0(Adapted1(st, b), Wrap(b + p0)) BY DEF EncoderNext, b, p0
  <2> QED BY <1>3, <1>6, <2>1, WrapWord
<1>18. EncoderNext(st, e) \in RiceState BY <1>3, <1>7, <1>17, AdaptedTyped
<1> QED BY <1>10, <1>13, <1>15, <1>16, <1>17, <1>18 DEF cw, z

(***************************************************************************)
(* CodewordRoundTrip: rice_encode_one and decode_one, started from equal   *)
(* trackers, agree on the width of the tail and end with equal trackers,   *)
(* for every residual; and the residual comes back unless it is the one    *)
(* that zigzag maps to zero (rice.rs:177).                                 *)
(***************************************************************************)
THEOREM CodewordRoundTrip ==
  ASSUME NEW st \in RiceState, NEW e \in Ints
  PROVE  LET cw == Codeword(st, e)
         IN  /\ cw \in Codewords
             /\ TailWidth(st, cw.ones) = cw.width
             /\ DecoderNext(st, cw) = EncoderNext(st, e)
             /\ EncoderNext(st, e) \in RiceState
             /\ e # LeastInt => Residual(st, cw) = e
<1> DEFINE cw == Codeword(st, e)
<1>1. /\ cw \in Codewords
      /\ TailWidth(st, cw.ones) = cw.width
      /\ FinalValue(st, cw) = Zigzag(e)
      /\ DecoderNext(st, cw) = EncoderNext(st, e)
      /\ EncoderNext(st, e) \in RiceState
  <2>1. CASE LowMode(st, e) BY <2>1, LowCodeword
  <2>2. CASE ~LowMode(st, e) BY <2>2, HighCodeword
  <2> QED BY <2>1, <2>2
<1> HIDE DEF cw
<1>2. e # LeastInt => Residual(st, cw) = e BY <1>1, ZigzagBack DEF Residual
<1> QED BY <1>1, <1>2 DEF cw

\* What a decoder makes of any codeword keeps the tracker's type.
LEMMA DecoderTyped ==
  ASSUME NEW st \in RiceState, NEW cw \in Codewords
  PROVE  DecoderNext(st, cw) \in RiceState /\ Residual(st, cw) \in Ints
<1>1. cw.ones \in Nat /\ cw.width \in 0 .. MaxK /\ cw.tail \in Words /\ cw.tail \in Nat
  BY WrapWord DEF Codewords
<1>2. st.k0 \in 0 .. MaxK BY DEF RiceState
<1>3. 2^cw.width \in Nat /\ ShlSaturating(st.k0) \in Nat BY <1>1, <1>2, TailPower
<1>4. RawValue(cw) \in Words
  <2>1. (cw.ones - 1) * 2^cw.width + cw.tail \in Int BY <1>1, <1>3
  <2> QED BY <1>1, <2>1, WrapOff DEF RawValue
<1>5. FinalValue(st, cw) \in Words
  <2>1. RawValue(cw) + ShlSaturating(st.k0) \in Int BY <1>3, <1>4, WrapWord
  <2> QED BY <1>1, <2>1, WrapOff DEF FinalValue
<1>6. DecoderNext(st, cw) \in RiceState BY <1>4, <1>5, AdaptedTyped DEF DecoderNext
<1> DEFINE v == FinalValue(st, cw)
           h == 2^(W - 1)
<1>7. v \in Words /\ v \in Nat /\ h \in Nat \ {0} BY <1>5, WrapWord, Modulus
<1>8. Words = 0 .. 2 * h - 1 /\ Ints = -h .. h - 1 BY Modulus DEF Words, Ints, LeastInt
<1> HIDE DEF v, h
<1>9. Dezigzag(v) \in Ints
  <2>1. CASE v % 2 = 1
    <3>1. v + 1 \in Int BY <1>7
    <3>2. Wrap(v + 1) \in Words BY <3>1, WrapOff
    <3>3. \A u \in 0 .. 2 * h - 1 : u \div 2 \in 0 .. h - 1 BY <1>7, SMT
    <3>4. Wrap(v + 1) \div 2 \in 0 .. h - 1 BY <1>8, <3>2, <3>3
    <3>5. 0 .. h - 1 \subseteq -h .. h - 1 BY <1>7
    <3>6. Dezigzag(v) = Wrap(v + 1) \div 2 BY <2>1 DEF Dezigzag
    <3> QED BY <1>8, <3>4, <3>5, <3>6
  <2>2. CASE v % 2 # 1
    <3>1. v \div 2 \in 0 .. h - 1 BY <1>7, <1>8, SMT
    <3>2. -(v \div 2) \in -h .. h - 1 BY <1>7, <3>1
    <3> QED BY <1>8, <2>2, <3>2 DEF Dezigzag
  <2> QED BY <2>1, <2>2
<1> QED BY <1>6, <1>9 DEF Residual, v

LEMMA MinusZero == -0 = 0
<1>1. \A z \in Int : z + z = 0 => -z = z OBVIOUS
<1>2. 0 \in Int /\ 0 + 0 = 0 OBVIOUS
<1>3. QED BY <1>1, <1>2, Zenon

\* What the decoder takes for the residual has the zigzag of the one encoded.
LEMMA ZigzagAgain ==
  ASSUME NEW e \in Ints
  PROVE  Zigzag(Dezigzag(Zigzag(e))) = Zigzag(e)
<1>1. CASE e # LeastInt BY <1>1, ZigzagBack
<1>2. CASE e = LeastInt
  <2>1. PICK h : h = 2^(W - 1) OBVIOUS
  <2>2. h \in Nat \ {0} /\ 2^W = 2 * h BY <2>1, Modulus
  <2>3. Words = 0 .. 2 * h - 1 /\ e = -h BY <1>2, <2>1, <2>2 DEF Words, LeastInt
  <2>4. -e = h /\ h \in Words BY <2>2, <2>3
  <2>5. Wrap(-e) = h BY <2>4, WrapWord
  <2>6. Wrap(2 * h) = 0 BY <2>2, SMT DEF Wrap
  <2>7. ~(e > 0) BY <2>2, <2>3
  <2>8. Zigzag(e) = 0 BY <2>5, <2>6, <2>7 DEF Zigzag
  <2>9. Dezigzag(0) = 0
    <3>1. 0 % 2 # 1 /\ 0 \div 2 = 0 BY SMT
    <3>2. Dezigzag(0) = -(0 \div 2) BY <3>1, Zenon DEF Dezigzag
    <3>3. QED BY <3>1, <3>2, MinusZero, Zenon
  <2>10. Zigzag(0) = 0
    <3>1. 0 \in Words BY <2>2, <2>3
    <3>3. 2 * 0 = 0 /\ ~(0 > 0) BY SMT
    <3>2. Wrap(0) = 0 BY <3>1, WrapWord
    <3>4. QED BY <3>2, <3>3, MinusZero DEF Zigzag
  <2>11. QED BY <2>8, <2>9, <2>10
<1>3. QED BY <1>1, <1>2

LEMMA NextAgrees ==
  ASSUME NEW st \in RiceState, NEW e \in Ints, NEW cw, cw = Codeword(st, e)
  PROVE  DecoderNext(st, cw) = EncoderNext(st, Residual(st, cw))
<1>1. FinalValue(st, cw) = Zigzag(e) /\ DecoderNext(st, cw) = EncoderNext(st, e)
  <2>1. CASE LowMode(st, e) BY <2>1, LowCodeword
  <2>2. CASE ~LowMode(st, e) BY <2>2, HighCodeword
  <2>3. QED BY <2>1, <2>2
<1>2. PICK r : r = Residual(st, cw) OBVIOUS
<1>3. Zigzag(r) = Zigzag(e) BY <1>1, <1>2, ZigzagAgain DEF Residual
<1>4. EncoderNext(st, r) = EncoderNext(st, e)
  BY <1>3 DEF EncoderNext, LowMode, PreBias
<1>5. QED BY <1>1, <1>2, <1>4

-----------------------------------------------------------------------------
(***************************************************************************)
(* The predictors: types, and that the decoder's step undoes the encoder's.*)
(***************************************************************************)

LEMMA DotTyped ==
  ASSUME NEW a \in [Taps -> Ints], NEW b \in [Taps -> Ints]
  PROVE  Dot(a, b) \in Int
<1>1. \A i \in Taps : a[i] \in Int /\ b[i] \in Int BY IntsAreIntegers
<1>2. \A i \in Taps : a[i] * b[i] \in Int BY <1>1
<1>3. \A i \in 0 .. 7 : a[i] * b[i] \in Int BY <1>2 DEF Taps
<1>4. /\ a[0] * b[0] \in Int /\ a[1] * b[1] \in Int /\ a[2] * b[2] \in Int
      /\ a[3] * b[3] \in Int /\ a[4] * b[4] \in Int /\ a[5] * b[5] \in Int
      /\ a[6] * b[6] \in Int /\ a[7] * b[7] \in Int
  BY <1>3
<1> QED BY <1>4 DEF Dot

LEMMA WeightsTyped ==
  ASSUME NEW st \in LmsState
  PROVE  Weights(st) \in [Taps -> Ints]
<1>1. /\ st.qm \in [Taps -> Ints] /\ st.dx \in [Taps -> Ints] BY DEF LmsState
<1>2. Sign(st.error) \in {-1, 0, 1} BY DEF Sign
<1>3. ASSUME NEW i \in Taps
      PROVE  Signed(st.qm[i] + Sign(st.error) * st.dx[i]) \in Ints
  <2>1. st.qm[i] \in Int /\ st.dx[i] \in Int BY <1>1, IntsAreIntegers
  <2>2. Sign(st.error) * st.dx[i] \in Int BY <1>2, <2>1
  <2>3. st.qm[i] + Sign(st.error) * st.dx[i] \in Int BY <2>1, <2>2
  <2> QED BY <2>3, SignedOff
<1> QED BY <1>3 DEF Weights

LEMMA PredictionTyped ==
  ASSUME NEW st \in LmsState
  PROVE  Prediction(st) \in Int
<1>1. Shift \in 0 .. W /\ Shift - 1 \in 0 .. W BY PredictorAssumption, WordWidth
<1>2. 2^Shift \in Nat \ {0} /\ 2^(Shift - 1) \in Nat BY <1>1, PowersOfTwo
<1>3. Dot(st.dl, Weights(st)) \in Int BY WeightsTyped, DotTyped DEF LmsState
<1>4. 2^(Shift - 1) + Dot(st.dl, Weights(st)) \in Int BY <1>2, <1>3
<1> DEFINE x == Signed(2^(Shift - 1) + Dot(st.dl, Weights(st)))
<1>5. x \in Int BY <1>4, SignedOff, IntsAreIntegers
<1> HIDE DEF x
<1>6. x \div 2^Shift \in Int BY <1>2, <1>5, DivMod
<1> QED BY <1>6 DEF Prediction, ShiftedRight, x

LEMMA PredictionBTyped ==
  ASSUME NEW prev \in Ints
  PROVE  PredictionB(prev) \in Int
<1>1. prev * 31 \in Int BY IntsAreIntegers
<1>2. Signed(prev * 31) \in Int BY <1>1, SignedOff, IntsAreIntegers
<1>3. 2^5 = 32 BY PowersOfTwo
<1>4. Signed(prev * 31) \div 32 \in Int BY <1>2, SMT
<1> QED BY <1>3, <1>4 DEF PredictionB, ShiftedRight

LEMMA MagnitudeTyped ==
  ASSUME NEW i \in 1 .. 4
  PROVE  DxMags[i] \in Ints /\ -DxMags[i] \in Ints
<1>1. DxMags[i] \in 0 .. 2^(W - 1) - 1 BY PredictorAssumption
<1> QED BY <1>1, Modulus DEF Ints, LeastInt

LEMMA AdvancedTyped ==
  ASSUME NEW st \in LmsState, NEW e \in Ints, NEW s \in Ints
  PROVE  Advanced(st, e, s) \in LmsState
<1>1. st.dl \in [Taps -> Ints] /\ st.dx \in [Taps -> Ints] BY DEF LmsState
<1>2. \A i \in Taps : st.dl[i] \in Int BY <1>1, IntsAreIntegers
<1>3. 4 \in Taps /\ 5 \in Taps /\ 6 \in Taps /\ 7 \in Taps BY DEF Taps
<1>4. s \in Int BY IntsAreIntegers
<1>5. /\ Signed(s - st.dl[5] - st.dl[6] - st.dl[7]) \in Ints
      /\ Signed(s - st.dl[6] - st.dl[7]) \in Ints
      /\ Signed(s - st.dl[7]) \in Ints
  <2>1. /\ s - st.dl[5] - st.dl[6] - st.dl[7] \in Int
        /\ s - st.dl[6] - st.dl[7] \in Int
        /\ s - st.dl[7] \in Int
    BY <1>2, <1>3, <1>4
  <2> QED BY <2>1, SignedOff
<1> DEFINE a == Advanced(st, e, s)
<1>6. a.dl \in [Taps -> Ints]
  <2>1. \A i \in Taps : i + 1 \in Taps \/ i = 7 BY DEF Taps
  <2>2. \A i \in Taps : i < 4 => st.dl[i + 1] \in Ints
    <3> SUFFICES ASSUME NEW i \in Taps, i < 4 PROVE i + 1 \in Taps BY <1>1
    <3> QED BY DEF Taps
  <2>3. \A i \in Taps : i < 4 \/ i = 4 \/ i = 5 \/ i = 6 \/ i = 7 BY DEF Taps
  <2> QED BY <1>5, <2>2, <2>3 DEF Advanced
<1>7. a.dx \in [Taps -> Ints]
  <2>1. \A i \in Taps : i < 4 => st.dx[i + 1] \in Ints
    <3> SUFFICES ASSUME NEW i \in Taps, i < 4 PROVE i + 1 \in Taps BY <1>1
    <3> QED BY DEF Taps
  <2>2. \A i \in Taps : ~(i < 4) => DxMags[i - 3] \in Ints /\ -DxMags[i - 3] \in Ints
    <3> SUFFICES ASSUME NEW i \in Taps, ~(i < 4) PROVE i - 3 \in 1 .. 4
      BY MagnitudeTyped
    <3> QED BY DEF Taps
  <2>3. ASSUME NEW i \in Taps PROVE a.dx[i] \in Ints
    <3>1. a.dx[i] = IF i < 4 THEN st.dx[i + 1]
                    ELSE IF st.dl[i] < 0 THEN -DxMags[i - 3] ELSE DxMags[i - 3]
      BY DEF Advanced
    <3> QED BY <2>1, <2>2, <3>1
  <2>4. a.dx = [i \in Taps |-> a.dx[i]] BY DEF Advanced
  <2> QED BY <2>3, <2>4
<1>8. a.qm \in [Taps -> Ints] /\ a.error \in Ints BY WeightsTyped DEF Advanced
<1>9. a = [dl |-> a.dl, dx |-> a.dx, qm |-> a.qm, error |-> a.error] BY DEF Advanced
<1> HIDE DEF a
<1>10. a \in LmsState BY <1>6, <1>7, <1>8, <1>9 DEF LmsState
<1> QED BY <1>10 DEF a

LEMMA HalfTyped ==
  ASSUME NEW x \in Int
  PROVE  HalfTowardZero(x) \in Int
  BY SMT DEF HalfTowardZero

LEMMA ForwardTyped ==
  ASSUME NEW n \in Nat \ {0}, NEW pcm \in [0 .. n - 1 -> Ints]
  PROVE  Forward(pcm, n) \in [0 .. n - 1 -> Ints]
<1> DEFINE d == [c \in 0 .. n - 2 |-> Signed(pcm[c + 1] - pcm[c])]
<1>1. \A c \in 0 .. n - 1 : pcm[c] \in Ints /\ pcm[c] \in Int BY IntsAreIntegers
<1>2. ASSUME NEW c \in 0 .. n - 2 PROVE d[c] \in Ints /\ d[c] \in Int
  <2>1. c \in 0 .. n - 1 /\ c + 1 \in 0 .. n - 1 OBVIOUS
  <2>2. pcm[c + 1] - pcm[c] \in Int BY <1>1, <2>1
  <2> QED BY <2>2, SignedOff, IntsAreIntegers
<1> HIDE DEF d
<1>3. ASSUME NEW c \in 0 .. n - 1
      PROVE  (IF c < n - 1 THEN d[c]
              ELSE IF n < 2 THEN pcm[c]
              ELSE Signed(pcm[c] - HalfTowardZero(d[n - 2]))) \in Ints
  <2>1. CASE c < n - 1
    <3>1. c \in 0 .. n - 2 BY <2>1
    <3> QED BY <1>2, <2>1, <3>1
  <2>2. CASE ~(c < n - 1) /\ n < 2 BY <1>1, <2>2
  <2>3. CASE ~(c < n - 1) /\ ~(n < 2)
    <3>1. n - 2 \in 0 .. n - 2 BY <2>3
    <3>2. HalfTowardZero(d[n - 2]) \in Int BY <1>2, <3>1, HalfTyped
    <3>3. pcm[c] - HalfTowardZero(d[n - 2]) \in Int BY <1>1, <3>2
    <3> QED BY <2>3, <3>3, SignedOff
  <2> QED BY <2>1, <2>2, <2>3
<1> QED BY <1>3 DEF Forward, d

\* The differences are undone from the top channel down.
LEMMA CascadeBack ==
  ASSUME NEW n \in Nat, n >= 2, NEW pcm \in [0 .. n - 1 -> Ints]
  PROVE  LET f == Forward(pcm, n)
         IN  /\ Signed(f[n - 1] + HalfTowardZero(f[n - 2])) = pcm[n - 1]
             /\ \A c \in 0 .. n - 2 : Signed(pcm[c + 1] - f[c]) = pcm[c]
<1> DEFINE f == Forward(pcm, n)
           d == [c \in 0 .. n - 2 |-> Signed(pcm[c + 1] - pcm[c])]
<1>1. \A c \in 0 .. n - 1 : pcm[c] \in Ints /\ pcm[c] \in Int BY IntsAreIntegers
<1>2. \A c \in 0 .. n - 2 : f[c] = Signed(pcm[c + 1] - pcm[c])
  <2> SUFFICES ASSUME NEW c \in 0 .. n - 2 PROVE f[c] = d[c] OBVIOUS
  <2>1. c \in 0 .. n - 1 /\ c < n - 1 OBVIOUS
  <2> QED BY <2>1 DEF Forward
<1>3. f[n - 1] = Signed(pcm[n - 1] - HalfTowardZero(f[n - 2]))
  <2>1. n - 1 \in 0 .. n - 1 /\ ~(n < 2) /\ n - 2 \in 0 .. n - 2 OBVIOUS
  <2>2. f[n - 2] = d[n - 2] BY <1>2, <2>1
  <2> QED BY <2>1, <2>2 DEF Forward
<1>4. f[n - 2] \in Int
  <2>1. n - 2 \in 0 .. n - 1 /\ n \in Nat \ {0} OBVIOUS
  <2> QED BY <2>1, ForwardTyped, IntsAreIntegers
<1> HIDE DEF f, d
<1>5. Signed(f[n - 1] + HalfTowardZero(f[n - 2])) = pcm[n - 1]
  <2>1. n - 1 \in 0 .. n - 1 OBVIOUS
  <2>2. HalfTowardZero(f[n - 2]) \in Int BY <1>4, HalfTyped
  <2> QED BY <1>1, <1>3, <2>1, <2>2, SignedAddBack
<1>6. ASSUME NEW c \in 0 .. n - 2 PROVE Signed(pcm[c + 1] - f[c]) = pcm[c]
  <2>1. c \in 0 .. n - 1 /\ c + 1 \in 0 .. n - 1 OBVIOUS
  <2> QED BY <1>1, <1>2, <2>1, SignedTakeAway
<1> QED BY <1>5, <1>6 DEF f

-----------------------------------------------------------------------------
(***************************************************************************)
(* A channel of the encoder and one of the decoder, one sample further.    *)
(***************************************************************************)

LEMMA EncodedTyped ==
  ASSUME NEW st \in ChannelState, NEW s \in Ints
  PROVE  /\ InputA(st, s) \in Ints
         /\ EncoderResidual(st, s) \in Ints
         /\ Encoded(st, s) \in ChannelState
         /\ Codeword(st.rice, EncoderResidual(st, s)) \in Codewords
<1>1. st.rice \in RiceState /\ st.lms \in LmsState /\ st.prev \in Ints BY DEF ChannelState
<1>2. s \in Int /\ PredictionB(st.prev) \in Int BY <1>1, PredictionBTyped, IntsAreIntegers
<1>3. InputA(st, s) \in Ints
  <2>1. s - PredictionB(st.prev) \in Int BY <1>2
  <2> QED BY <2>1, SignedOff DEF InputA
<1>4. EncoderResidual(st, s) \in Ints
  <2>1. InputA(st, s) \in Int /\ Prediction(st.lms) \in Int
    BY <1>1, <1>3, PredictionTyped, IntsAreIntegers
  <2>2. InputA(st, s) - Prediction(st.lms) \in Int BY <2>1
  <2> QED BY <2>2, SignedOff DEF EncoderResidual, LmsResidual
<1>5. /\ EncoderNext(st.rice, EncoderResidual(st, s)) \in RiceState
      /\ Codeword(st.rice, EncoderResidual(st, s)) \in Codewords
  BY <1>1, <1>4, CodewordRoundTrip
<1>6. Advanced(st.lms, EncoderResidual(st, s), InputA(st, s)) \in LmsState
  BY <1>1, <1>3, <1>4, AdvancedTyped
<1>7. Encoded(st, s) \in ChannelState BY <1>5, <1>6 DEF Encoded, ChannelState
<1> QED BY <1>3, <1>4, <1>5, <1>7

LEMMA DecodedTyped ==
  ASSUME NEW st \in ChannelState, NEW cw \in Codewords
  PROVE  Decoded(st, cw) \in ChannelState /\ DecodedB(st, cw) \in Ints
<1>1. st.rice \in RiceState /\ st.lms \in LmsState /\ st.prev \in Ints BY DEF ChannelState
<1>2. DecoderNext(st.rice, cw) \in RiceState /\ Residual(st.rice, cw) \in Ints
  BY <1>1, DecoderTyped
<1>3. DecodedA(st, cw) \in Ints
  <2>1. Residual(st.rice, cw) \in Int /\ Prediction(st.lms) \in Int
    BY <1>1, <1>2, PredictionTyped, IntsAreIntegers
  <2>2. Residual(st.rice, cw) + Prediction(st.lms) \in Int BY <2>1
  <2> QED BY <2>2, SignedOff DEF DecodedA, LmsSample
<1>4. DecodedB(st, cw) \in Ints
  <2>1. DecodedA(st, cw) \in Int /\ PredictionB(st.prev) \in Int
    BY <1>1, <1>3, PredictionBTyped, IntsAreIntegers
  <2>2. DecodedA(st, cw) + PredictionB(st.prev) \in Int BY <2>1
  <2> QED BY <2>2, SignedOff DEF DecodedB
<1>5. Advanced(st.lms, Residual(st.rice, cw), DecodedA(st, cw)) \in LmsState
  BY <1>1, <1>2, <1>3, AdvancedTyped
<1> QED BY <1>2, <1>4, <1>5 DEF Decoded, ChannelState

\* With equal states and a residual that survives, the decoder's step yields
\* the encoder's sample and the encoder's next state.
LEMMA ChannelRoundTrip ==
  ASSUME NEW st \in ChannelState, NEW s \in Ints, EncoderResidual(st, s) # LeastInt
  PROVE  LET cw == Codeword(st.rice, EncoderResidual(st, s))
         IN  DecodedB(st, cw) = s /\ Decoded(st, cw) = Encoded(st, s)
<1> DEFINE e == EncoderResidual(st, s)
           a == InputA(st, s)
           cw == Codeword(st.rice, e)
<1>1. st.rice \in RiceState /\ st.lms \in LmsState /\ st.prev \in Ints BY DEF ChannelState
<1>2. a \in Ints /\ e \in Ints /\ e # LeastInt BY EncodedTyped
<1>3. /\ Prediction(st.lms) \in Int /\ PredictionB(st.prev) \in Int /\ s \in Int
  BY <1>1, PredictionTyped, PredictionBTyped, IntsAreIntegers
<1>4. e = Signed(a - Prediction(st.lms)) BY DEF EncoderResidual, LmsResidual
<1>5. a = Signed(s - PredictionB(st.prev)) BY DEF InputA
<1>6. Residual(st.rice, cw) = e /\ DecoderNext(st.rice, cw) = EncoderNext(st.rice, e)
  BY <1>1, <1>2, CodewordRoundTrip
<1>7. Encoded(st, s) = [rice |-> EncoderNext(st.rice, e),
                        lms |-> Advanced(st.lms, e, a), prev |-> s]
  BY DEF Encoded
<1> HIDE DEF e, a, cw
<1>8. DecodedA(st, cw) = a
  BY <1>2, <1>3, <1>4, <1>6, SignedAddBack DEF DecodedA, LmsSample
<1>9. DecodedB(st, cw) = s BY <1>3, <1>5, <1>8, SignedAddBack DEF DecodedB
<1>10. Decoded(st, cw) = Encoded(st, s) BY <1>6, <1>7, <1>8, <1>9 DEF Decoded
<1> QED BY <1>9, <1>10 DEF cw, e

-----------------------------------------------------------------------------
(***************************************************************************)
(* Where the codewords of a body are.                                      *)
(***************************************************************************)

\* The place of the codeword of channel c of row r among n channels.
At(n, r, c) == (r - 1) * n + c + 1

LEMMA Product ==
  ASSUME NEW n \in Nat, NEW a \in Nat, NEW b \in Nat
  PROVE  /\ a * n \in Nat
         /\ (a + 1) * n = a * n + n
         /\ a <= b => a * n <= b * n
<1>1. a * n \in Nat /\ b * n \in Nat BY SMT
<1>2. (a + 1) * n = a * n + n BY SMT
<1>3. ASSUME a <= b PROVE a * n <= b * n
  <2>1. b - a \in Nat BY <1>3
  <2>2. (b - a) * n \in Nat BY <2>1, SMT
  <2>3. (b - a) * n = b * n - a * n BY SMT
  <2> QED BY <1>1, <2>2, <2>3
<1> QED BY <1>1, <1>2, <1>3

\* Codewords lie in the order in which the loops visit rows and channels.
InOrder(n, r, c, row0, ch0) ==
  /\ At(n, r, c) <= (row0 - 1) * n + ch0 <=> r < row0 \/ (r = row0 /\ c < ch0)
  /\ At(n, r, c) = At(n, row0, ch0) <=> r = row0 /\ c = ch0

LEMMA AtOrder ==
  ASSUME NEW n \in Nat \ {0}, NEW r \in Nat \ {0}, NEW c \in 0 .. n - 1,
         NEW row0 \in Nat \ {0}, NEW ch0 \in 0 .. n - 1
  PROVE  /\ At(n, r, c) \in Nat \ {0}
         /\ At(n, r, c) <= r * n
         /\ InOrder(n, r, c, row0, ch0)
<1> DEFINE a == (r - 1) * n
           b == (row0 - 1) * n
<1>1. r - 1 \in Nat /\ row0 - 1 \in Nat OBVIOUS
<1>2. a \in Nat /\ b \in Nat BY <1>1, Product
<1>3. r * n = a + n
  <2>1. r = (r - 1) + 1 OBVIOUS
  <2> QED BY <1>1, <2>1, Product
<1>4. row0 * n = b + n
  <2>1. row0 = (row0 - 1) + 1 OBVIOUS
  <2> QED BY <1>1, <2>1, Product
<1>5. r < row0 => a + n <= b
  <2> SUFFICES ASSUME r < row0 PROVE a + n <= b OBVIOUS
  <2>1. r <= row0 - 1 /\ r \in Nat OBVIOUS
  <2>2. r * n <= (row0 - 1) * n BY <1>1, <2>1, Product
  <2> QED BY <1>3, <2>2
<1>6. row0 < r => b + n <= a
  <2> SUFFICES ASSUME row0 < r PROVE b + n <= a OBVIOUS
  <2>1. row0 <= r - 1 /\ row0 \in Nat OBVIOUS
  <2>2. row0 * n <= (r - 1) * n BY <1>1, <2>1, Product
  <2> QED BY <1>4, <2>2
<1>7. r = row0 => a = b OBVIOUS
<1>8. At(n, r, c) = a + c + 1 /\ At(n, row0, ch0) = b + ch0 + 1 BY DEF At
<1> HIDE DEF a, b
<1>9. r < row0 \/ r = row0 \/ row0 < r OBVIOUS
<1>10. /\ a + c + 1 \in Nat \ {0}
       /\ a + c + 1 <= b + ch0 <=> r < row0 \/ (r = row0 /\ c < ch0)
       /\ a + c + 1 <= a + n
       /\ a + c + 1 = b + ch0 + 1 <=> r = row0 /\ c = ch0
  BY <1>2, <1>5, <1>6, <1>7, <1>9
<1> QED BY <1>3, <1>8, <1>10 DEF InOrder, b

\* Padding takes no bit away.
LEMMA Padded ==
  ASSUME NEW b \in Nat, NEW m \in Nat \ {0}
  PROVE  b <= ((b + m - 1) \div m) * m
<1> DEFINE x == b + m - 1
<1>1. x \in Nat /\ x \in Int OBVIOUS
<1> DEFINE q == x \div m
           r == x % m
<1> HIDE DEF x
<1>2. r \in 0 .. m - 1 /\ x = q * m + r /\ q \in Nat BY <1>1, DivMod
<1>3. q * m \in Nat BY <1>2, Product
<1> HIDE DEF q, r
<1>4. b <= q * m BY <1>2, <1>3 DEF x
<1> QED BY <1>4 DEF q, x

-----------------------------------------------------------------------------
(***************************************************************************)
(* A body is explained by a chronicle h of the encoder: h[c][r] is the     *)
(* state of channel c before row r.  The decoder never sees the encoder,   *)
(* but retraces the chronicle of the body it reads.                        *)
(***************************************************************************)

Input(str, f, r, c) == Forward(str.frames[f][r], str.nch)[c]

FreshState(pr) == [rice |-> RiceInit, lms |-> LmsInit(pr), prev |-> 0]

\* The turn from st to next on the sample s wrote cw.
Turn(st, next, s, cw, clip) ==
  /\ next = Encoded(st, s)
  /\ cw = Codeword(st.rice, EncoderResidual(st, s))
  /\ ~clip => EncoderResidual(st, s) # LeastInt

Explains(str, pr, f, h, words, clip) ==
  /\ h \in [0 .. str.nch - 1 -> [1 .. Len(str.frames[f]) + 1 -> ChannelState]]
  /\ \A c \in 0 .. str.nch - 1 : h[c][1] = FreshState(pr)
  /\ \A c \in 0 .. str.nch - 1 : \A r \in 1 .. Len(str.frames[f]) :
       At(str.nch, r, c) <= Len(words) =>
         Turn(h[c][r], h[c][r + 1], Input(str, f, r, c), words[At(str.nch, r, c)], clip)

LEMMA StreamTyped ==
  ASSUME NEW str \in Streams, NEW f \in DOMAIN str.frames
  PROVE  /\ str.nch \in Nat \ {0}
         /\ str.frames \in Seq(Seq([0 .. str.nch - 1 -> Ints]))
         /\ Len(str.frames) \in Nat \ {0}
         /\ DOMAIN str.frames = 1 .. Len(str.frames)
         /\ str.frames[f] \in Seq([0 .. str.nch - 1 -> Ints])
         /\ Len(str.frames[f]) \in Nat \ {0}
         /\ \A r \in 1 .. Len(str.frames[f]) : str.frames[f][r] \in [0 .. str.nch - 1 -> Ints]
         /\ \A r \in 1 .. Len(str.frames[f]), c \in 0 .. str.nch - 1 :
              Input(str, f, r, c) \in Ints
<1> DEFINE S == [0 .. str.nch - 1 -> Ints]
<1>1. str.nch \in Nat \ {0} /\ str.frames \in Seq(Seq(S) \ {<<>>}) \ {<<>>}
  BY StreamsAssumption
<1> HIDE DEF S
<1>2. Len(str.frames) \in Nat /\ DOMAIN str.frames = 1 .. Len(str.frames) BY <1>1
<1>3. str.frames[f] \in Seq(S) \ {<<>>} BY <1>1, <1>2
<1>4. Len(str.frames) # 0 BY <1>2
<1>5. Len(str.frames[f]) \in Nat /\ Len(str.frames[f]) # 0 BY <1>3
<1>6. \A r \in 1 .. Len(str.frames[f]) : str.frames[f][r] \in S BY <1>3
<1>7. str.frames \in Seq(Seq(S))
  <2>1. \A g \in 1 .. Len(str.frames) : str.frames[g] \in Seq(S) BY <1>1
  <2> QED BY <1>1, <1>2, <2>1
<1>8. \A r \in 1 .. Len(str.frames[f]), c \in 0 .. str.nch - 1 : Input(str, f, r, c) \in Ints
  BY <1>1, <1>6, ForwardTyped DEF Input, S
<1> QED BY <1>1, <1>2, <1>3, <1>4, <1>5, <1>6, <1>7, <1>8 DEF S

LEMMA FreshTyped ==
  ASSUME NEW pr \in Primings
  PROVE  FreshState(pr) \in ChannelState
<1>1. pr \in [Taps -> Ints] /\ 0 \in Ints BY PrimingsAssumption, IntsAreIntegers
<1>2. LmsInit(pr) \in LmsState BY <1>1 DEF LmsInit, LmsState
<1> QED BY <1>1, <1>2, RiceInitTyped DEF FreshState, ChannelState

\* An empty body has a chronicle.
LEMMA EmptyExplained ==
  ASSUME NEW str \in Streams, NEW f \in DOMAIN str.frames, NEW pr \in Primings, NEW clip
  PROVE  \E h : Explains(str, pr, f, h, <<>>, clip)
<1> DEFINE h == [c \in 0 .. str.nch - 1 |->
                   [r \in 1 .. Len(str.frames[f]) + 1 |-> FreshState(pr)]]
<1>1. str.nch \in Nat \ {0} /\ Len(str.frames[f]) \in Nat \ {0} BY StreamTyped
<1>2. h \in [0 .. str.nch - 1 -> [1 .. Len(str.frames[f]) + 1 -> ChannelState]]
  BY FreshTyped
<1>3. \A c \in 0 .. str.nch - 1 : h[c][1] = FreshState(pr)
  <2>1. 1 \in 1 .. Len(str.frames[f]) + 1 BY <1>1
  <2> QED BY <2>1
<1>4. \A c \in 0 .. str.nch - 1 : \A r \in 1 .. Len(str.frames[f]) :
        ~(At(str.nch, r, c) <= Len(<<>>))
  <2> SUFFICES ASSUME NEW c \in 0 .. str.nch - 1, NEW r \in 1 .. Len(str.frames[f])
               PROVE  ~(At(str.nch, r, c) <= 0)
    OBVIOUS
  <2>1. r \in Nat \ {0} BY <1>1
  <2>2. At(str.nch, r, c) \in Nat \ {0} BY <1>1, <2>1, AtOrder
  <2> QED BY <2>2
<1> HIDE DEF h
<1>5. Explains(str, pr, f, h, <<>>, clip) BY <1>2, <1>3, <1>4 DEF Explains
<1> QED BY <1>5

\* One turn of the encoder extends the chronicle at its end.
LEMMA ExtendExplained ==
  ASSUME NEW str \in Streams, NEW f \in DOMAIN str.frames, NEW pr, NEW h,
         NEW words \in Seq(Codewords), NEW clip \in BOOLEAN,
         Explains(str, pr, f, h, words, clip),
         NEW r0 \in 1 .. Len(str.frames[f]), NEW c0 \in 0 .. str.nch - 1,
         Len(words) = (r0 - 1) * str.nch + c0,
         NEW e, e = EncoderResidual(h[c0][r0], Input(str, f, r0, c0)),
         NEW cw, cw = Codeword(h[c0][r0].rice, e), cw \in Codewords,
         NEW next, next = Encoded(h[c0][r0], Input(str, f, r0, c0)), next \in ChannelState,
         NEW h2, h2 = [h EXCEPT ![c0] = [@ EXCEPT ![r0 + 1] = next]]
  PROVE  Explains(str, pr, f, h2, Append(words, cw), clip \/ e = LeastInt)
<1> DEFINE n == str.nch
           rows == Len(str.frames[f])
           C == 0 .. n - 1
           R == 1 .. rows
           R1 == 1 .. rows + 1
<1>1. n \in Nat \ {0} /\ rows \in Nat \ {0} BY StreamTyped
<1>2. /\ h \in [C -> [R1 -> ChannelState]]
      /\ \A c \in C : h[c][1] = FreshState(pr)
      /\ \A c \in C : \A r \in R : At(n, r, c) <= Len(words) =>
           Turn(h[c][r], h[c][r + 1], Input(str, f, r, c), words[At(n, r, c)], clip)
  BY DEF Explains
<1>3. r0 \in R /\ c0 \in C /\ r0 \in Nat \ {0} BY <1>1
<1>4. At(n, r0, c0) = Len(words) + 1 BY DEF At
<1>5. Len(words) \in Nat /\ Len(Append(words, cw)) = Len(words) + 1 OBVIOUS
<1> HIDE DEF n, rows
<1>6. r0 + 1 \in R1 /\ r0 + 1 # 1 /\ 1 \in R1 BY <1>1, <1>3
<1>7. h2 \in [C -> [R1 -> ChannelState]] BY <1>2, <1>3, <1>6
<1>8. /\ h2[c0][r0 + 1] = next
      /\ \A c \in C, r \in R1 : c # c0 \/ r # r0 + 1 => h2[c][r] = h[c][r]
  BY <1>2, <1>3, <1>6
<1>9. \A c \in C : h2[c][1] = FreshState(pr) BY <1>2, <1>6, <1>8
<1>10. ASSUME NEW c \in C, NEW r \in R, At(n, r, c) <= Len(words) + 1
       PROVE  Turn(h2[c][r], h2[c][r + 1], Input(str, f, r, c),
                   Append(words, cw)[At(n, r, c)], clip \/ e = LeastInt)
  <2>1. r \in Nat \ {0} /\ r \in R1 /\ r + 1 \in R1 BY <1>1
  <2>2. /\ At(n, r, c) \in Nat \ {0}
        /\ At(n, r, c) <= (r0 - 1) * n + c0 <=> r < r0 \/ (r = r0 /\ c < c0)
        /\ At(n, r, c) = At(n, r0, c0) <=> r = r0 /\ c = c0
    <3>1. c \in 0 .. n - 1 /\ c0 \in 0 .. n - 1 BY <1>3
    <3> HIDE DEF C, R, R1
    <3>2. At(n, r, c) \in Nat \ {0} /\ InOrder(n, r, c, r0, c0)
      BY <1>1, <1>3, <2>1, <3>1, AtOrder
    <3> QED BY <3>2 DEF InOrder
  <2>3. CASE At(n, r, c) <= Len(words)
    <3>1. r < r0 \/ (r = r0 /\ c < c0) BY <2>2, <2>3 DEF n
    <3>2. ~(c = c0 /\ r = r0 + 1) /\ ~(c = c0 /\ r + 1 = r0 + 1)
      BY <1>3, <2>1, <3>1
    <3>3. h2[c][r] = h[c][r] /\ h2[c][r + 1] = h[c][r + 1] BY <1>8, <2>1, <3>2
    <3>4. Append(words, cw)[At(n, r, c)] = words[At(n, r, c)] BY <1>5, <2>2, <2>3
    <3>5. Turn(h[c][r], h[c][r + 1], Input(str, f, r, c), words[At(n, r, c)], clip)
      BY <1>2, <2>3
    <3> QED BY <3>3, <3>4, <3>5 DEF Turn
  <2>4. CASE ~(At(n, r, c) <= Len(words))
    <3>1. At(n, r, c) = Len(words) + 1 BY <1>5, <1>10, <2>2, <2>4
    <3>2. r = r0 /\ c = c0 BY <1>4, <2>2, <3>1
    <3>3. Append(words, cw)[At(n, r, c)] = cw BY <1>5, <3>1
    <3>4. r0 # r0 + 1 BY <1>3
    <3>5. h2[c][r] = h[c][r] /\ h2[c][r + 1] = next BY <1>8, <2>1, <3>2, <3>4
    <3> QED BY <3>2, <3>3, <3>5 DEF Turn
  <2> QED BY <2>3, <2>4
<1>11. \A c \in C : \A r \in R : At(n, r, c) <= Len(Append(words, cw)) =>
         Turn(h2[c][r], h2[c][r + 1], Input(str, f, r, c),
              Append(words, cw)[At(n, r, c)], clip \/ e = LeastInt)
  BY <1>5, <1>10
<1> QED BY <1>7, <1>9, <1>11 DEF Explains, n, rows

\* Once something was clipped, less is claimed.
LEMMA ExplainsClipped ==
  ASSUME NEW str, NEW pr, NEW f, NEW h, NEW words, NEW clip \in BOOLEAN, NEW clip2 \in BOOLEAN,
         Explains(str, pr, f, h, words, clip), clip => clip2
  PROVE  Explains(str, pr, f, h, words, clip2)
<1>1. ASSUME NEW st, NEW nx, NEW s, NEW cw, Turn(st, nx, s, cw, clip)
      PROVE  Turn(st, nx, s, cw, clip2)
  BY <1>1 DEF Turn
<1> QED BY <1>1 DEF Explains

-----------------------------------------------------------------------------
(***************************************************************************)
(* The inductive invariant.                                                *)
(***************************************************************************)

BodyType == [words : Seq(Codewords), bits : Nat]

Retracing == pc \in {"decode", "inverse"}

\* Control and sizes: bodies are as long as the loops have come.
Shaped ==
  /\ pc \in {"encode", "ready", "decode", "inverse"}
  /\ bodies \in Seq(BodyType)
  /\ Len(bodies) = IF pc = "encode" THEN frame ELSE Len(stream.frames)
  /\ \A f \in DOMAIN bodies :
       /\ Len(bodies[f].words) <= bodies[f].bits
       /\ Len(bodies[f].words) =
            IF pc = "encode" /\ f = frame THEN (row - 1) * stream.nch + ch
                                          ELSE Rows(f) * stream.nch
  /\ pc = "encode" /\ row > Rows(frame) => ch = 0
  /\ Retracing => row <= Rows(frame) /\ slot \in [Channels -> Ints]
  /\ pc = "inverse" => stream.nch >= 2

\* Every body has a chronicle; the encoder is at the end of the last.
EncoderAt(h) == \A c \in Channels : enc[c] = h[c][IF c < ch THEN row + 1 ELSE row]
BodyExplained(f) ==
  \E h : /\ Explains(stream, prime, f, h, bodies[f].words, clipped)
         /\ pc = "encode" /\ f = frame => EncoderAt(h)
Encoding == \A f \in DOMAIN bodies : BodyExplained(f)

\* The decoder is somewhere on the chronicle of its body: with its trackers
\* whatever happened, with all its state if nothing was clipped.
Follows(d, st) == d.rice = st.rice /\ (~clipped => d = st)
DecoderAt(h) ==
  \A c \in Channels :
    Follows(dec[c], h[c][IF pc = "inverse" \/ c < ch THEN row + 1 ELSE row])
Decoding ==
  Retracing =>
    \E h : /\ Explains(stream, prime, frame, h, bodies[frame].words, clipped)
           /\ DecoderAt(h)

\* The row in the making: decorrelated samples, then samples from the top down.
SlotRight ==
  ~clipped =>
    /\ pc = "decode" =>
         \A c \in Channels : c < ch => slot[c] = Input(stream, frame, row, c)
    /\ pc = "inverse" =>
         \A c \in Channels : slot[c] = IF c <= ch THEN Input(stream, frame, row, c)
                                       ELSE stream.frames[frame][row][c]

OutRight ==
  /\ out \in Seq([Channels -> Ints])
  /\ ~clipped => RowsRight
  /\ pc = "encode" => out = <<>>
  /\ Retracing => Len(out) = row - 1
  /\ pc = "ready" => out = <<>> \/ Len(out) = Rows(frame)

IInv == TypeOK /\ Shaped /\ Encoding /\ Decoding /\ SlotRight /\ OutRight

-----------------------------------------------------------------------------
\* What TypeOK says of the stream and the place in it.
LEMMA Here ==
  ASSUME TypeOK
  PROVE  /\ stream \in Streams /\ prime \in Primings /\ clipped \in BOOLEAN
         /\ stream.nch \in Nat \ {0}
         /\ Channels = 0 .. stream.nch - 1
         /\ LastChannel = stream.nch - 1
         /\ ch \in 0 .. stream.nch - 1
         /\ DOMAIN stream.frames = 1 .. Len(stream.frames)
         /\ Len(stream.frames) \in Nat \ {0}
         /\ frame \in DOMAIN stream.frames
         /\ frame \in Nat \ {0}
         /\ \A f \in DOMAIN stream.frames : Rows(f) \in Nat \ {0}
         /\ row \in Nat \ {0}
         /\ row \in 1 .. Rows(frame) + 1
         /\ FreshChannels \in [Channels -> ChannelState]
         /\ \A c \in Channels : FreshChannels[c] = FreshState(prime)
<1>1. /\ stream \in Streams /\ prime \in Primings /\ clipped \in BOOLEAN
      /\ frame \in DOMAIN stream.frames
      /\ row \in 1 .. Rows(frame) + 1 /\ ch \in Channels
  BY DEF TypeOK
<1>2. /\ stream.nch \in Nat \ {0} /\ DOMAIN stream.frames = 1 .. Len(stream.frames)
      /\ Len(stream.frames) \in Nat \ {0}
  BY <1>1, StreamTyped
<1>3. \A f \in DOMAIN stream.frames : Rows(f) \in Nat \ {0} BY <1>1, StreamTyped DEF Rows
<1>4. Channels = 0 .. stream.nch - 1 /\ LastChannel = stream.nch - 1
  BY DEF Channels, LastChannel
<1>5. FreshState(prime) \in ChannelState BY <1>1, FreshTyped
<1>6. FreshChannels = [c \in Channels |-> FreshState(prime)] BY DEF FreshChannels, FreshState
<1>7. row \in Nat \ {0} /\ frame \in Nat \ {0} BY <1>1, <1>2, <1>3
<1> QED BY <1>1, <1>2, <1>3, <1>4, <1>5, <1>6, <1>7

LEMMA InitIInv == Init => IInv
<1> SUFFICES ASSUME Init PROVE IInv OBVIOUS
<1> USE DEF Init
<1>1. /\ stream \in Streams /\ prime \in Primings BY DEF Init
<1>2. /\ stream.nch \in Nat \ {0} /\ Len(stream.frames) \in Nat \ {0}
      /\ DOMAIN stream.frames = 1 .. Len(stream.frames)
  <2>1. PICK f : f \in DOMAIN stream.frames
    <3>1. stream.frames \in Seq(Seq([0 .. stream.nch - 1 -> Ints]) \ {<<>>}) \ {<<>>}
      BY <1>1, StreamsAssumption
    <3> DEFINE S == Seq([0 .. stream.nch - 1 -> Ints]) \ {<<>>}
    <3>2. stream.frames \in Seq(S) /\ stream.frames # <<>> BY <3>1
    <3> HIDE DEF S
    <3>3. Len(stream.frames) # 0 /\ Len(stream.frames) \in Nat BY <3>2
    <3>4. 1 \in DOMAIN stream.frames BY <3>2, <3>3
    <3> QED BY <3>4
  <2> QED BY <1>1, <2>1, StreamTyped
<1>3. 1 \in DOMAIN stream.frames /\ Rows(1) \in Nat \ {0}
  <2>1. 1 \in DOMAIN stream.frames BY <1>2
  <2> QED BY <1>1, <2>1, StreamTyped DEF Rows
<1>4. FreshState(prime) \in ChannelState BY <1>1, FreshTyped
<1>5. FreshChannels = [c \in Channels |-> FreshState(prime)] BY DEF FreshChannels, FreshState
<1>6. TypeOK
  <2>1. 0 \in Channels /\ 1 \in 1 .. Rows(1) + 1 BY <1>2, <1>3 DEF Channels
  <2> QED BY <1>1, <1>3, <1>4, <1>5, <2>1 DEF TypeOK
<1>7. Shaped
  <2>1. EmptyBody \in BodyType /\ EmptyBody.words = <<>> /\ EmptyBody.bits = 0
    BY DEF EmptyBody, BodyType
  <2>2. bodies \in Seq(BodyType) /\ Len(bodies) = 1 /\ DOMAIN bodies = {1} /\ bodies[1] = EmptyBody
    BY <2>1
  <2>3. (row - 1) * stream.nch + ch = 0
    <3>1. 0 * stream.nch = 0 BY <1>2, SMT
    <3> QED BY <3>1
  <2>4. ~(row > Rows(frame)) BY <1>3
  <2> QED BY <2>1, <2>2, <2>3, <2>4 DEF Shaped, Retracing
<1>8. Encoding
  <2>1. PICK h : Explains(stream, prime, 1, h, <<>>, clipped) BY <1>1, <1>3, EmptyExplained
  <2>2. DOMAIN bodies = {1} /\ bodies[1].words = <<>> BY DEF EmptyBody
  <2>3. \A c \in Channels : enc[c] = h[c][1]
    BY <1>5, <2>1 DEF Explains, Channels
  <2>4. EncoderAt(h) BY <1>2, <2>3 DEF EncoderAt, Channels
  <2> QED BY <2>1, <2>2, <2>4 DEF Encoding, BodyExplained
<1>9. Decoding /\ SlotRight BY DEF Decoding, SlotRight, Retracing
<1>10. OutRight BY DEF OutRight, Retracing, RowsRight
<1> QED BY <1>6, <1>7, <1>8, <1>9, <1>10 DEF IInv

-----------------------------------------------------------------------------
(***************************************************************************)
(* The encoder's steps.                                                    *)
(***************************************************************************)

\* The next place of the encoder's loops, and how far the body has come.
IsNextPlace(n, r, c, r2, c2) ==
  /\ r2 \in Nat \ {0} /\ c2 \in 0 .. n - 1
  /\ (r2 - 1) * n + c2 = (r - 1) * n + c + 1
  /\ (r - 1) * n \in Nat
  /\ \A k \in 0 .. n - 1 :
       (IF k < c2 THEN r2 + 1 ELSE r2) = (IF k = c \/ k < c THEN r + 1 ELSE r)

LEMMA NextPlace ==
  ASSUME NEW n \in Nat \ {0}, NEW r \in Nat \ {0}, NEW c \in 0 .. n - 1,
         NEW r2, r2 = (IF c < n - 1 THEN r ELSE r + 1),
         NEW c2, c2 = (IF c < n - 1 THEN c + 1 ELSE 0)
  PROVE  IsNextPlace(n, r, c, r2, c2)
<1> DEFINE a == (r - 1) * n
<1>1. a \in Nat /\ r * n = a + n
  <2>1. r - 1 \in Nat /\ r = (r - 1) + 1 OBVIOUS
  <2> QED BY <2>1, Product
<1>2. CASE c < n - 1
  <2>1. r2 = r /\ c2 = c + 1 BY <1>2
  <2>2. (r2 - 1) * n = a BY <2>1
  <2> HIDE DEF a
  <2> QED BY <1>1, <1>2, <2>1, <2>2 DEF a, IsNextPlace
<1>3. CASE ~(c < n - 1)
  <2>1. r2 = r + 1 /\ c2 = 0 /\ c = n - 1 BY <1>3
  <2>2. (r2 - 1) * n = r * n
    <3>1. r2 - 1 = r BY <2>1
    <3> QED BY <3>1
  <2> HIDE DEF a
  <2> QED BY <1>1, <1>3, <2>1, <2>2 DEF a, IsNextPlace
<1> QED BY <1>2, <1>3

LEMMA EncodeOneStep ==
  ASSUME IInv, EncodeOne
  PROVE  IInv'
<1> DEFINE n == stream.nch
           s == Input(stream, frame, row, ch)
           st == enc[ch]
           e == EncoderResidual(st, s)
           cw == Codeword(st.rice, e)
           next == Encoded(st, s)
<1>1. TypeOK /\ Shaped /\ Encoding /\ OutRight BY DEF IInv
<1>2. /\ stream \in Streams /\ prime \in Primings /\ clipped \in BOOLEAN
      /\ n \in Nat \ {0}
      /\ Channels = 0 .. n - 1 /\ LastChannel = n - 1 /\ ch \in 0 .. n - 1
      /\ DOMAIN stream.frames = 1 .. Len(stream.frames)
      /\ frame \in DOMAIN stream.frames /\ frame \in Nat \ {0}
      /\ Rows(frame) \in Nat \ {0}
      /\ row \in Nat \ {0}
  BY <1>1, Here
<1>3. /\ pc = "encode" /\ row <= Rows(frame)
      /\ bodies' = [bodies EXCEPT ![frame] = Extended(@, cw)]
      /\ enc' = [enc EXCEPT ![ch] = next]
      /\ clipped' = (clipped \/ e = LeastInt)
      /\ ch' = IF ch < n - 1 THEN ch + 1 ELSE 0
      /\ row' = IF ch < n - 1 THEN row ELSE row + 1
      /\ stream' = stream /\ prime' = prime /\ pc' = pc /\ frame' = frame
      /\ dec' = dec /\ slot' = slot /\ out' = out
  BY <1>2 DEF EncodeOne, decoderVars, Input
<1>4. row \in 1 .. Rows(frame) /\ row \in 1 .. Len(stream.frames[frame])
  BY <1>2, <1>3 DEF Rows
<1>5. s \in Ints /\ st \in ChannelState /\ enc \in [Channels -> ChannelState]
  BY <1>1, <1>2, <1>4, StreamTyped DEF TypeOK
<1>6. e \in Ints /\ next \in ChannelState /\ cw \in Codewords BY <1>5, EncodedTyped
<1>7. /\ bodies \in Seq(BodyType) /\ Len(bodies) = frame /\ frame \in DOMAIN bodies
      /\ DOMAIN bodies = 1 .. frame
      /\ bodies[frame] \in BodyType
      /\ Len(bodies[frame].words) = (row - 1) * n + ch
  <2>1. bodies \in Seq(BodyType) /\ Len(bodies) = frame BY <1>1, <1>3 DEF Shaped
  <2>2. DOMAIN bodies = 1 .. frame /\ frame \in 1 .. frame BY <1>2, <2>1
  <2>3. bodies[frame] \in BodyType BY <2>1, <2>2
  <2>4. Len(bodies[frame].words) = (row - 1) * n + ch
    BY <1>1, <1>3, <2>2 DEF Shaped
  <2> QED BY <2>1, <2>2, <2>3, <2>4
<1>8. /\ row' \in Nat \ {0} /\ ch' \in 0 .. n - 1
      /\ (row' - 1) * n + ch' = (row - 1) * n + ch + 1
      /\ (row - 1) * n \in Nat
      /\ \A k \in 0 .. n - 1 :
           (IF k < ch' THEN row' + 1 ELSE row') =
           (IF k = ch \/ k < ch THEN row + 1 ELSE row)
  <2>1. IsNextPlace(n, row, ch, row', ch') BY <1>2, <1>3, NextPlace
  <2> QED BY <2>1 DEF IsNextPlace
<1> DEFINE b == bodies[frame]
<1>9. /\ bodies'[frame] = Extended(b, cw)
      /\ \A f \in DOMAIN bodies : f # frame => bodies'[f] = bodies[f]
      /\ DOMAIN bodies' = DOMAIN bodies /\ Len(bodies') = frame
  BY <1>3, <1>7
<1>10. /\ Extended(b, cw) \in BodyType
       /\ Extended(b, cw).words = Append(b.words, cw)
       /\ Extended(b, cw).bits >= b.bits + 1
       /\ b.words \in Seq(Codewords) /\ b.bits \in Nat
  <2>1. BitLength(cw) \in Nat /\ BitLength(cw) >= 1
    BY <1>6, RiceAssumption DEF BitLength, Codewords
  <2>2. b.words \in Seq(Codewords) /\ b.bits \in Nat BY <1>7 DEF BodyType
  <2> HIDE DEF b, cw
  <2> QED BY <1>6, <2>1, <2>2 DEF Extended, BodyType
<1>11. bodies' \in Seq(BodyType) BY <1>3, <1>7, <1>10
<1> HIDE DEF n, s, st, e, cw, next, b
<1>12. TypeOK'
  <2>1. row' \in 1 .. Rows(frame) + 1
    <3>1. row' = row \/ row' = row + 1 BY <1>3
    <3> QED BY <1>4, <1>2, <3>1
  <2>2. enc' \in [Channels -> ChannelState] BY <1>3, <1>5, <1>6
  <2>3. Channels' = Channels /\ Rows(frame)' = Rows(frame)
    BY <1>3 DEF Channels, Rows
  <2>4. clipped' \in BOOLEAN BY <1>3
  <2>5. dec \in [Channels -> ChannelState] BY <1>1 DEF TypeOK
  <2> QED BY <1>2, <1>3, <1>8, <2>1, <2>2, <2>3, <2>4, <2>5 DEF TypeOK
<1>13. Shaped'
  <2>1. Rows(frame)' = Rows(frame) BY <1>3 DEF Rows
  <2>2. ASSUME NEW f \in DOMAIN bodies'
        PROVE  /\ Len(bodies'[f].words) <= bodies'[f].bits
               /\ Len(bodies'[f].words) =
                    IF f = frame THEN (row' - 1) * n + ch' ELSE Rows(f)' * n
    <3>1. CASE f = frame
      <4>1. Len(b.words) <= b.bits BY <1>1, <1>7 DEF Shaped, b
      <4>2. Len(Append(b.words, cw)) = Len(b.words) + 1 /\ Len(b.words) \in Nat BY <1>10
      <4>3. bodies'[f].words = Append(b.words, cw) /\ bodies'[f].bits >= b.bits + 1
        BY <1>9, <1>10, <3>1 DEF b
      <4>4. bodies'[f].bits \in Nat BY <1>9, <1>10, <3>1 DEF BodyType
      <4> QED BY <1>7, <1>8, <1>10, <3>1, <4>1, <4>2, <4>3, <4>4 DEF b
    <3>2. CASE f # frame
      <4>1. f \in DOMAIN bodies /\ bodies'[f] = bodies[f] BY <1>9, <3>2
      <4>2. Rows(f)' = Rows(f) BY <1>3 DEF Rows
      <4> QED BY <1>1, <3>2, <4>1, <4>2 DEF Shaped, n
    <3> QED BY <3>1, <3>2
  <2>3. row' > Rows(frame) => ch' = 0 BY <1>2, <1>3
  <2> QED BY <1>3, <1>9, <1>11, <2>1, <2>2, <2>3 DEF Shaped, Retracing, n
<1>14. Encoding'
  <2>1. ASSUME NEW f \in DOMAIN bodies' PROVE BodyExplained(f)'
    <3>1. f \in DOMAIN bodies BY <1>9
    <3>2. PICK h : /\ Explains(stream, prime, f, h, bodies[f].words, clipped)
                   /\ f = frame => EncoderAt(h)
      BY <1>1, <1>3, <3>1 DEF Encoding, BodyExplained
    <3>3. CASE f # frame
      <4>1. bodies'[f] = bodies[f] /\ clipped' \in BOOLEAN /\ clipped => clipped'
        BY <1>3, <1>9, <3>1, <3>3
      <4>2. Explains(stream, prime, f, h, bodies[f].words, clipped')
        BY <1>2, <1>3, <3>2, <4>1, ExplainsClipped
      <4> QED BY <1>3, <3>3, <4>1, <4>2 DEF BodyExplained
    <3>4. CASE f = frame
      <4>1. \A c \in 0 .. n - 1 : enc[c] = h[c][IF c < ch THEN row + 1 ELSE row]
        BY <1>2, <3>2, <3>4 DEF EncoderAt
      <4>2. st = h[ch][row] BY <1>2, <4>1 DEF st
      <4> PICK h2 : h2 = [h EXCEPT ![ch] = [@ EXCEPT ![row + 1] = next]] OBVIOUS
      <4>3. Explains(stream, prime, f, h, b.words, clipped) BY <3>2, <3>4 DEF b
      <4>4. Explains(stream, prime, f, h2, Append(b.words, cw), clipped \/ e = LeastInt)
        <5>1. /\ e = EncoderResidual(h[ch][row], Input(stream, f, row, ch))
              /\ cw = Codeword(h[ch][row].rice, e)
              /\ next = Encoded(h[ch][row], Input(stream, f, row, ch))
          BY <3>4, <4>2 DEF e, cw, next, s
        <5>2. Len(b.words) = (row - 1) * stream.nch + ch BY <1>7 DEF b, n
        <5>3. ch \in 0 .. stream.nch - 1 BY <1>2 DEF n
        <5>4. row \in 1 .. Len(stream.frames[f]) BY <1>4, <3>4
        <5>5. f \in DOMAIN stream.frames BY <1>2, <3>4
        <5> QED BY <1>2, <1>6, <1>10, <4>3, <5>1, <5>2, <5>3, <5>4, <5>5,
                   ExtendExplained
      <4>5. \A c \in 0 .. n - 1 : enc'[c] = h2[c][IF c < ch' THEN row' + 1 ELSE row']
        <5>1. h \in [0 .. n - 1 -> [1 .. Len(stream.frames[f]) + 1 -> ChannelState]]
          BY <4>3 DEF Explains, n
        <5>2. row + 1 \in 1 .. Len(stream.frames[f]) + 1 /\ row # row + 1
          BY <1>2, <1>4, <3>4 DEF Rows
        <5>3. SUFFICES ASSUME NEW c \in 0 .. n - 1
              PROVE  enc'[c] = h2[c][IF c = ch \/ c < ch THEN row + 1 ELSE row]
          BY <1>8
        <5>4. CASE c = ch
          <6>1. h2[ch][row + 1] = next BY <1>2, <5>1, <5>2
          <6> QED BY <1>2, <1>3, <1>5, <5>4, <6>1
        <5>5. CASE c # ch
          <6>1. h2[c] = h[c] BY <5>1, <5>5
          <6>2. enc'[c] = enc[c] BY <1>2, <1>3, <1>5, <5>5
          <6> QED BY <4>1, <5>5, <6>1, <6>2
        <5> QED BY <5>4, <5>5
      <4>6. bodies'[f].words = Append(b.words, cw) BY <1>9, <1>10, <3>4 DEF b
      <4>7. Explains(stream', prime', f, h2, bodies'[f].words, clipped')
        BY <1>3, <4>4, <4>6
      <4>8. EncoderAt(h2)' BY <1>2, <1>3, <4>5 DEF EncoderAt, Channels, n
      <4> QED BY <4>7, <4>8 DEF BodyExplained
    <3> QED BY <3>3, <3>4
  <2> QED BY <2>1 DEF Encoding
<1>15. Decoding' /\ SlotRight' BY <1>3 DEF Decoding, SlotRight, Retracing
<1>16. OutRight'
  <2>1. out = <<>> BY <1>1, <1>3 DEF OutRight
  <2> QED BY <1>3, <2>1 DEF OutRight, Retracing, RowsRight
<1> QED BY <1>12, <1>13, <1>14, <1>15, <1>16 DEF IInv

LEMMA FinishBodyStep ==
  ASSUME IInv, FinishBody
  PROVE  IInv'
<1> DEFINE n == stream.nch
<1>1. TypeOK /\ Shaped /\ Encoding /\ OutRight BY DEF IInv
<1>2. /\ stream \in Streams /\ prime \in Primings /\ clipped \in BOOLEAN
      /\ n \in Nat \ {0}
      /\ Channels = 0 .. n - 1
      /\ DOMAIN stream.frames = 1 .. Len(stream.frames) /\ Len(stream.frames) \in Nat \ {0}
      /\ frame \in DOMAIN stream.frames /\ frame \in Nat \ {0}
      /\ \A f \in DOMAIN stream.frames : Rows(f) \in Nat \ {0}
      /\ row \in 1 .. Rows(frame) + 1
      /\ FreshChannels \in [Channels -> ChannelState]
      /\ \A c \in Channels : FreshChannels[c] = FreshState(prime)
  BY <1>1, Here
<1>3. /\ pc = "encode" /\ row > Rows(frame) /\ row' = 1
      /\ stream' = stream /\ prime' = prime /\ ch' = ch /\ clipped' = clipped
      /\ dec' = dec /\ slot' = slot /\ out' = out
  BY DEF FinishBody, decoderVars
<1>4. row = Rows(frame) + 1 /\ ch = 0 /\ 0 \in Channels BY <1>1, <1>2, <1>3 DEF Shaped
<1>5. Channels' = Channels /\ \A f : Rows(f)' = Rows(f) BY <1>3 DEF Channels, Rows
<1>6. /\ bodies \in Seq(BodyType) /\ Len(bodies) = frame /\ DOMAIN bodies = 1 .. frame
      /\ \A f \in DOMAIN bodies : /\ Len(bodies[f].words) <= bodies[f].bits
                                  /\ Len(bodies[f].words) = Rows(f) * n
  <2>1. bodies \in Seq(BodyType) /\ Len(bodies) = frame BY <1>1, <1>3 DEF Shaped
  <2>2. (row - 1) * n + ch = Rows(frame) * n
    <3>1. row - 1 = Rows(frame) /\ Rows(frame) * n \in Nat BY <1>2, <1>4, Product
    <3> QED BY <1>4, <3>1
  <2> QED BY <1>1, <1>3, <2>1, <2>2 DEF Shaped
<1>7. /\ enc \in [Channels -> ChannelState] /\ dec \in [Channels -> ChannelState]
  BY <1>1 DEF TypeOK
<1>8. out = <<>> BY <1>1, <1>3 DEF OutRight
<1>9. \A f \in DOMAIN bodies :
        \E h : Explains(stream, prime, f, h, bodies[f].words, clipped)
  BY <1>1 DEF Encoding, BodyExplained
<1>10. CASE frame < Len(stream.frames)
  <2>1. /\ pc' = pc /\ frame' = frame + 1 /\ bodies' = Append(bodies, EmptyBody)
        /\ enc' = FreshChannels
    BY <1>10 DEF FinishBody
  <2>2. frame + 1 \in DOMAIN stream.frames BY <1>2, <1>10
  <2>3. EmptyBody \in BodyType /\ EmptyBody.words = <<>> /\ EmptyBody.bits = 0
    BY DEF EmptyBody, BodyType
  <2>4. /\ bodies' \in Seq(BodyType) /\ Len(bodies') = frame + 1
        /\ DOMAIN bodies' = 1 .. frame + 1
        /\ bodies'[frame + 1] = EmptyBody
        /\ \A f \in 1 .. frame : bodies'[f] = bodies[f]
    BY <1>2, <1>6, <2>1, <2>3
  <2>5. TypeOK'
    <3>1. 1 \in 1 .. Rows(frame + 1) + 1 BY <1>2, <2>2
    <3>2. Rows(frame)' = Rows(frame + 1) BY <1>3, <2>1 DEF Rows
    <3> QED BY <1>2, <1>3, <1>4, <1>5, <1>7, <2>1, <2>2, <3>1, <3>2 DEF TypeOK
  <2>6. Shaped'
    <3>1. (row' - 1) * n + ch' = 0
      <4>1. 0 * n = 0 BY <1>2, SMT
      <4> QED BY <1>3, <1>4, <4>1
    <3>2. ASSUME NEW f \in DOMAIN bodies'
          PROVE  /\ Len(bodies'[f].words) <= bodies'[f].bits
                 /\ Len(bodies'[f].words) =
                      IF f = frame' THEN (row' - 1) * n + ch' ELSE Rows(f) * n
      <4>1. CASE f = frame + 1 BY <2>1, <2>3, <2>4, <3>1, <4>1
      <4>2. CASE f # frame + 1
        <5>1. f \in 1 .. frame BY <1>2, <2>4, <4>2
        <5> QED BY <1>6, <2>1, <2>4, <4>2, <5>1
      <4> QED BY <4>1, <4>2
    <3>3. bodies' \in Seq(BodyType) /\ Len(bodies') = frame' BY <2>1, <2>4
    <3> HIDE DEF n
    <3> QED BY <1>3, <1>4, <1>5, <2>1, <3>2, <3>3 DEF Shaped, Retracing, n
  <2>7. Encoding'
    <3>1. ASSUME NEW f \in DOMAIN bodies' PROVE BodyExplained(f)'
      <4>1. CASE f = frame + 1
        <5>1. PICK h : Explains(stream, prime, frame + 1, h, <<>>, clipped)
          BY <1>2, <2>2, EmptyExplained
        <5>2. \A c \in Channels : enc'[c] = h[c][1]
          BY <1>2, <2>1, <5>1 DEF Explains
        <5>3. EncoderAt(h)' BY <1>2, <1>3, <1>4, <1>5, <5>2 DEF EncoderAt
        <5>4. Explains(stream', prime', f, h, bodies'[f].words, clipped')
          BY <1>3, <2>3, <2>4, <4>1, <5>1
        <5> QED BY <5>3, <5>4 DEF BodyExplained
      <4>2. CASE f # frame + 1
        <5>1. f \in 1 .. frame /\ f \in DOMAIN bodies BY <1>2, <1>6, <2>4, <4>2
        <5>2. PICK h : Explains(stream, prime, f, h, bodies[f].words, clipped)
          BY <1>9, <5>1
        <5>3. Explains(stream', prime', f, h, bodies'[f].words, clipped')
          BY <1>3, <2>4, <5>1, <5>2
        <5> QED BY <2>1, <4>2, <5>3 DEF BodyExplained
      <4> QED BY <4>1, <4>2
    <3> QED BY <3>1 DEF Encoding
  <2>8. Decoding' /\ SlotRight' BY <1>3, <2>1 DEF Decoding, SlotRight, Retracing
  <2>9. OutRight' BY <1>3, <1>8, <2>1 DEF OutRight, Retracing, RowsRight
  <2> QED BY <2>5, <2>6, <2>7, <2>8, <2>9 DEF IInv
<1>11. CASE ~(frame < Len(stream.frames))
  <2>1. pc' = "ready" /\ frame' = frame /\ bodies' = bodies /\ enc' = enc
    BY <1>11 DEF FinishBody
  <2>2. frame = Len(stream.frames) BY <1>2, <1>11
  <2>3. TypeOK'
    <3>1. 1 \in 1 .. Rows(frame) + 1 BY <1>2
    <3>2. Rows(frame)' = Rows(frame) BY <1>3, <2>1 DEF Rows
    <3> QED BY <1>2, <1>3, <1>4, <1>5, <1>7, <2>1, <3>1, <3>2 DEF TypeOK
  <2>4. Shaped' BY <1>3, <1>5, <1>6, <2>1, <2>2 DEF Shaped, Retracing
  <2>5. Encoding'
    <3>1. ASSUME NEW f \in DOMAIN bodies' PROVE BodyExplained(f)'
      <4>1. PICK h : Explains(stream, prime, f, h, bodies[f].words, clipped)
        BY <1>9, <2>1
      <4> QED BY <1>3, <2>1, <4>1 DEF BodyExplained
    <3> QED BY <3>1 DEF Encoding
  <2>6. Decoding' /\ SlotRight' BY <1>3, <2>1 DEF Decoding, SlotRight, Retracing
  <2>7. OutRight' BY <1>3, <1>8, <2>1 DEF OutRight, Retracing, RowsRight
  <2> QED BY <2>3, <2>4, <2>5, <2>6, <2>7 DEF IInv
<1> QED BY <1>10, <1>11

-----------------------------------------------------------------------------
(***************************************************************************)
(* The decoder's steps.                                                    *)
(***************************************************************************)

LEMMA StartFrameStep ==
  ASSUME IInv, NEW f \in DOMAIN stream.frames, StartFrame(f)
  PROVE  IInv'
<1> DEFINE n == stream.nch
<1>1. TypeOK /\ Shaped /\ Encoding BY DEF IInv
<1>2. /\ stream \in Streams /\ prime \in Primings /\ clipped \in BOOLEAN
      /\ n \in Nat \ {0}
      /\ Channels = 0 .. n - 1
      /\ DOMAIN stream.frames = 1 .. Len(stream.frames) /\ Len(stream.frames) \in Nat \ {0}
      /\ \A g \in DOMAIN stream.frames : Rows(g) \in Nat \ {0}
      /\ FreshChannels \in [Channels -> ChannelState]
      /\ \A c \in Channels : FreshChannels[c] = FreshState(prime)
  BY <1>1, Here
<1>3. /\ pc = "ready" /\ frame' = f /\ row' = 1 /\ ch' = 0
      /\ pc' = IF Rows(f) * n > BodyBits(bodies[f]) THEN "refused" ELSE "decode"
      /\ dec' = FreshChannels /\ slot' = [c \in Channels |-> 0] /\ out' = <<>>
      /\ stream' = stream /\ prime' = prime /\ enc' = enc /\ bodies' = bodies
      /\ clipped' = clipped
  BY DEF StartFrame
<1>4. Channels' = Channels /\ \A g : Rows(g)' = Rows(g) BY <1>3 DEF Channels, Rows
<1>5. /\ bodies \in Seq(BodyType) /\ Len(bodies) = Len(stream.frames)
      /\ f \in DOMAIN bodies /\ DOMAIN bodies = DOMAIN stream.frames
      /\ \A g \in DOMAIN bodies : /\ Len(bodies[g].words) <= bodies[g].bits
                                  /\ Len(bodies[g].words) = Rows(g) * n
  <2>1. bodies \in Seq(BodyType) /\ Len(bodies) = Len(stream.frames)
    BY <1>1, <1>3 DEF Shaped
  <2>2. DOMAIN bodies = DOMAIN stream.frames BY <1>2, <2>1
  <2> QED BY <1>1, <1>3, <2>1, <2>2 DEF Shaped
<1>6. pc' = "decode"
  <2>1. bodies[f] \in BodyType BY <1>5
  <2>2. bodies[f].bits \in Nat BY <2>1 DEF BodyType
  <2>3. bodies[f].bits <= BodyBits(bodies[f]) BY <2>2, ByteAssumption, Padded DEF BodyBits
  <2>4. Rows(f) * n <= bodies[f].bits BY <1>5
  <2>5. Rows(f) * n \in Nat BY <1>2, Product
  <2>6. BodyBits(bodies[f]) \in Int
    <3>1. bodies[f].bits + ByteBits - 1 \in Int /\ ByteBits \in Nat \ {0}
      BY <2>2, ByteAssumption
    <3>2. (bodies[f].bits + ByteBits - 1) \div ByteBits \in Int BY <3>1, DivMod
    <3> HIDE DEF n
    <3> QED BY <3>1, <3>2 DEF BodyBits
  <2>7. ~(Rows(f) * n > BodyBits(bodies[f])) BY <2>2, <2>3, <2>4, <2>5, <2>6
  <2> QED BY <1>3, <2>7
<1>7. TypeOK'
  <2>1. 1 \in 1 .. Rows(f) + 1 /\ 0 \in Channels BY <1>2
  <2>2. enc \in [Channels -> ChannelState] BY <1>1 DEF TypeOK
  <2>3. Rows(frame)' = Rows(f) BY <1>3 DEF Rows
  <2> QED BY <1>2, <1>3, <1>4, <1>6, <2>1, <2>2, <2>3 DEF TypeOK
<1>8. Shaped'
  <2>1. slot' \in [Channels -> Ints] BY <1>3, IntsAreIntegers
  <2>2. 1 <= Rows(f) BY <1>2
  <2>3. Rows(frame)' = Rows(f) BY <1>3 DEF Rows
  <2> QED BY <1>3, <1>4, <1>5, <1>6, <2>1, <2>2, <2>3 DEF Shaped, Retracing
<1>9. Encoding'
  <2>1. ASSUME NEW g \in DOMAIN bodies' PROVE BodyExplained(g)'
    <3>1. PICK h : Explains(stream, prime, g, h, bodies[g].words, clipped)
      BY <1>1, <1>3 DEF Encoding, BodyExplained
    <3> QED BY <1>3, <1>6, <3>1 DEF BodyExplained
  <2> QED BY <2>1 DEF Encoding
<1>10. Decoding'
  <2>1. PICK h : Explains(stream, prime, f, h, bodies[f].words, clipped)
    BY <1>1, <1>5 DEF Encoding, BodyExplained
  <2>2. \A c \in Channels : dec'[c] = h[c][1] BY <1>2, <1>3, <2>1 DEF Explains
  <2>3. DecoderAt(h)' BY <1>2, <1>3, <1>4, <1>6, <2>2 DEF DecoderAt, Follows
  <2> QED BY <1>3, <2>1, <2>3 DEF Decoding
<1>11. SlotRight' BY <1>2, <1>3, <1>4, <1>6 DEF SlotRight
<1>12. OutRight' BY <1>3, <1>6 DEF OutRight, Retracing, RowsRight
<1> QED BY <1>7, <1>8, <1>9, <1>10, <1>11, <1>12 DEF IInv

\* A finished row goes to the output; the loop goes on or the frame is done.
LEMMA Delivered ==
  ASSUME IInv, Retracing, NEW r \in [Channels -> Ints], Deliver(r),
         ~clipped => r = stream.frames[frame][row],
         stream' = stream, frame' = frame, clipped' = clipped
  PROVE  /\ OutRight'
         /\ row' = row + 1 /\ ch' = 0 /\ pc' \in {"decode", "ready"}
         /\ row' \in 1 .. Rows(frame) + 1
         /\ pc' = "decode" => row' <= Rows(frame)
<1>1. TypeOK /\ Shaped /\ OutRight BY DEF IInv
<1>2. /\ Rows(frame) \in Nat \ {0} /\ row \in Nat \ {0} BY <1>1, Here
<1>3. /\ out' = Append(out, r) /\ row' = row + 1 /\ ch' = 0
      /\ pc' = IF row < Rows(frame) THEN "decode" ELSE "ready"
  BY DEF Deliver
<1>4. row <= Rows(frame) BY <1>1 DEF Shaped
<1>5. /\ out \in Seq([Channels -> Ints]) /\ Len(out) = row - 1
      /\ ~clipped => \A i \in DOMAIN out : out[i] = stream.frames[frame][i]
  BY <1>1 DEF OutRight, RowsRight
<1> DEFINE S == [Channels -> Ints]
<1>6. r \in S /\ out \in Seq(S) BY <1>5
<1> HIDE DEF S
<1>7. /\ out' \in Seq(S) /\ Len(out') = row
      /\ DOMAIN out = 1 .. row - 1 /\ DOMAIN out' = 1 .. row
      /\ out'[row] = r
      /\ \A i \in 1 .. row - 1 : out'[i] = out[i]
  BY <1>2, <1>3, <1>5, <1>6
<1>8. ~clipped => \A i \in DOMAIN out' : out'[i] = stream.frames[frame][i]
  <2> SUFFICES ASSUME ~clipped, NEW i \in 1 .. row
               PROVE  out'[i] = stream.frames[frame][i]
    BY <1>7
  <2>1. CASE i = row BY <1>7, <2>1
  <2>2. CASE i # row
    <3>1. i \in 1 .. row - 1 BY <1>2, <2>2
    <3> QED BY <1>5, <1>7, <3>1
  <2> QED BY <2>1, <2>2
<1>9. Channels' = Channels /\ Rows(frame)' = Rows(frame) BY DEF Channels, Rows
<1>10. pc' = "ready" => row = Rows(frame) BY <1>2, <1>3, <1>4
<1>11. OutRight'
  <2>1. (RowsRight)' <=> \A i \in DOMAIN out' : out'[i] = stream.frames[frame][i]
    BY DEF RowsRight
  <2>2. out' \in Seq([Channels' -> Ints]) BY <1>7, <1>9 DEF S
  <2>3. Len(out') = row' - 1 BY <1>2, <1>3, <1>7
  <2>4. pc' # "encode" BY <1>3
  <2>5. pc' = "ready" => Len(out') = Rows(frame)' BY <1>7, <1>9, <1>10
  <2> QED BY <1>8, <2>1, <2>2, <2>3, <2>4, <2>5 DEF OutRight
<1>12. row' \in 1 .. Rows(frame) + 1 /\ (pc' = "decode" => row' <= Rows(frame))
  BY <1>2, <1>3, <1>4
<1> QED BY <1>3, <1>11, <1>12

\* Nothing that the bodies' chronicles depend on is touched by the decoder.
LEMMA DecoderKeeps ==
  ASSUME IInv, pc # "encode", pc' \in {"ready", "decode", "inverse"},
         stream' = stream, prime' = prime, bodies' = bodies, clipped' = clipped,
         frame' = frame
  PROVE  /\ Encoding'
         /\ bodies' \in Seq(BodyType) /\ Len(bodies') = Len(stream.frames)
         /\ \A f \in DOMAIN bodies' : /\ Len(bodies'[f].words) <= bodies'[f].bits
                                      /\ Len(bodies'[f].words) = Rows(f)' * stream.nch
<1>1. Shaped /\ Encoding BY DEF IInv
<1>2. Encoding'
  <2>1. ASSUME NEW f \in DOMAIN bodies' PROVE BodyExplained(f)'
    <3>1. PICK h : Explains(stream, prime, f, h, bodies[f].words, clipped)
      BY <1>1 DEF Encoding, BodyExplained
    <3> QED BY <3>1 DEF BodyExplained
  <2> QED BY <2>1 DEF Encoding
<1>3. \A f : Rows(f)' = Rows(f) BY DEF Rows
<1> QED BY <1>1, <1>2, <1>3 DEF Shaped

\* What one turn of the decoder finds and leaves, for some chronicle h.
Found(h) ==
  /\ Explains(stream, prime, frame, h, bodies[frame].words, clipped)
  /\ DecoderAt(h)
  /\ NextCodeword \in Codewords
  /\ NextCodeword.width = TailWidth(dec[ch].rice, NextCodeword.ones)
  /\ DecoderNext(dec[ch].rice, NextCodeword) =
       EncoderNext(dec[ch].rice, Residual(dec[ch].rice, NextCodeword))
  /\ Follows(Decoded(dec[ch], NextCodeword), h[ch][row + 1])
  /\ ~clipped => DecodedB(dec[ch], NextCodeword) = Input(stream, frame, row, ch)

LEMMA TurnFinds ==
  ASSUME IInv, pc = "decode"
  PROVE  \E h : Found(h)
<1> DEFINE n == stream.nch
           i == At(n, row, ch)
           cw == NextCodeword
           s == Input(stream, frame, row, ch)
<1>1. TypeOK /\ Shaped /\ Decoding BY DEF IInv
<1>2. /\ stream \in Streams /\ n \in Nat \ {0}
      /\ Channels = 0 .. n - 1 /\ ch \in 0 .. n - 1
      /\ DOMAIN stream.frames = 1 .. Len(stream.frames)
      /\ frame \in DOMAIN stream.frames
      /\ Rows(frame) \in Nat \ {0} /\ row \in Nat \ {0}
  BY <1>1, Here
<1>3. row <= Rows(frame) /\ row \in 1 .. Len(stream.frames[frame])
  <2>1. row <= Rows(frame) BY <1>1 DEF Shaped, Retracing
  <2> QED BY <1>2, <2>1 DEF Rows
<1>4. frame \in DOMAIN bodies /\ Len(bodies[frame].words) = Rows(frame) * n
  <2>1. DOMAIN bodies = DOMAIN stream.frames BY <1>1, <1>2 DEF Shaped
  <2> QED BY <1>1, <1>2, <2>1 DEF Shaped
<1>5. PICK h : /\ Explains(stream, prime, frame, h, bodies[frame].words, clipped)
               /\ DecoderAt(h)
  BY <1>1 DEF Decoding, Retracing
<1>6. i <= Len(bodies[frame].words)
  <2>1. i <= row * n /\ i \in Nat BY <1>2, AtOrder
  <2>2. row * n <= Rows(frame) * n /\ row * n \in Nat /\ Rows(frame) * n \in Nat
    BY <1>2, <1>3, Product
  <2> HIDE DEF i, n
  <2> QED BY <1>4, <2>1, <2>2
<1>7. bodies[frame].words[i] = cw BY DEF NextCodeword, At
<1>8. Turn(h[ch][row], h[ch][row + 1], s, cw, clipped)
  BY <1>2, <1>3, <1>5, <1>6, <1>7 DEF Explains
<1>9. h[ch][row] \in ChannelState
  <2>1. row \in 1 .. Len(stream.frames[frame]) + 1 BY <1>3, <1>2 DEF Rows
  <2> QED BY <1>2, <1>5, <2>1 DEF Explains
<1>10. s \in Ints BY <1>2, <1>3, StreamTyped
<1>11. Follows(dec[ch], h[ch][row]) BY <1>2, <1>5 DEF DecoderAt
<1> DEFINE st == h[ch][row]
           e == EncoderResidual(st, s)
<1> HIDE DEF n, i, cw, s, st, e
<1>12. /\ st \in ChannelState /\ st.rice \in RiceState
       /\ h[ch][row + 1] = Encoded(st, s) /\ cw = Codeword(st.rice, e)
       /\ ~clipped => e # LeastInt
  BY <1>8, <1>9 DEF Turn, st, e, ChannelState
<1>13. e \in Ints /\ cw \in Codewords BY <1>10, <1>12, EncodedTyped DEF e
<1>14. /\ TailWidth(st.rice, cw.ones) = cw.width
       /\ DecoderNext(st.rice, cw) = EncoderNext(st.rice, e)
  BY <1>12, <1>13, CodewordRoundTrip
<1>15. dec[ch].rice = st.rice /\ (~clipped => dec[ch] = st)
  BY <1>11 DEF Follows, st
<1>16. Decoded(dec[ch], cw).rice = Encoded(st, s).rice
  <2>1. Decoded(dec[ch], cw).rice = DecoderNext(st.rice, cw) BY <1>15 DEF Decoded
  <2>2. Encoded(st, s).rice = EncoderNext(st.rice, e) BY DEF Encoded, e
  <2> QED BY <1>14, <2>1, <2>2
<1>17. ~clipped => DecodedB(dec[ch], cw) = s /\ Decoded(dec[ch], cw) = Encoded(st, s)
  BY <1>10, <1>12, <1>15, ChannelRoundTrip DEF e
<1>18. DecoderNext(dec[ch].rice, cw) = EncoderNext(dec[ch].rice, Residual(dec[ch].rice, cw))
  BY <1>12, <1>13, <1>15, NextAgrees
<1>19. Found(h)
  BY <1>5, <1>12, <1>13, <1>14, <1>15, <1>16, <1>17, <1>18 DEF Found, Follows, cw, s
<1> QED BY <1>19

LEMMA DecodeOneStep ==
  ASSUME IInv, DecodeOne
  PROVE  IInv'
<1> DEFINE n == stream.nch
           cw == NextCodeword
           b == DecodedB(dec[ch], cw)
           filled == [slot EXCEPT ![ch] = b]
<1>1. TypeOK /\ Shaped /\ Encoding /\ SlotRight /\ OutRight /\ pc = "decode" /\ Retracing
  BY DEF IInv, DecodeOne, Retracing
<1>2. /\ stream \in Streams /\ prime \in Primings /\ clipped \in BOOLEAN
      /\ n \in Nat \ {0}
      /\ Channels = 0 .. n - 1 /\ LastChannel = n - 1 /\ ch \in 0 .. n - 1
      /\ frame \in DOMAIN stream.frames
      /\ Rows(frame) \in Nat \ {0} /\ row \in Nat \ {0} /\ row \in 1 .. Rows(frame) + 1
  BY <1>1, Here
<1>3. PICK h : Found(h) BY <1>1, TurnFinds
<1>4. /\ cw \in Codewords
      /\ Follows(Decoded(dec[ch], cw), h[ch][row + 1])
      /\ ~clipped => b = Input(stream, frame, row, ch)
      /\ Explains(stream, prime, frame, h, bodies[frame].words, clipped)
      /\ \A c \in 0 .. n - 1 : Follows(dec[c], h[c][IF c < ch THEN row + 1 ELSE row])
      /\ ~(cw.width # TailWidth(dec[ch].rice, cw.ones))
  BY <1>1, <1>2, <1>3 DEF Found, DecoderAt
<1>5. /\ dec' = [dec EXCEPT ![ch] = Decoded(@, cw)]
      /\ slot' = filled
      /\ IF ch < n - 1
         THEN pc' = pc /\ ch' = ch + 1 /\ row' = row /\ out' = out
         ELSE IF n < 2
         THEN Deliver(filled)
         ELSE pc' = "inverse" /\ row' = row /\ ch' = ch /\ out' = out
      /\ stream' = stream /\ prime' = prime /\ frame' = frame /\ enc' = enc
      /\ bodies' = bodies /\ clipped' = clipped
  BY <1>2, <1>4 DEF DecodeOne
<1>6. enc \in [Channels -> ChannelState] /\ dec \in [Channels -> ChannelState]
  BY <1>1 DEF TypeOK
<1>7. Decoded(dec[ch], cw) \in ChannelState /\ b \in Ints
  BY <1>2, <1>4, <1>6, DecodedTyped
<1>8. slot \in [0 .. n - 1 -> Ints] /\ row <= Rows(frame)
  BY <1>1, <1>2 DEF Shaped
<1>9. filled \in [0 .. n - 1 -> Ints] BY <1>2, <1>7, <1>8
<1>10. dec' \in [0 .. n - 1 -> ChannelState] BY <1>2, <1>5, <1>6, <1>7
<1>11. \A c \in 0 .. n - 1 :
         Follows(dec'[c], h[c][IF c = ch \/ c < ch THEN row + 1 ELSE row])
  <2> SUFFICES ASSUME NEW c \in 0 .. n - 1
               PROVE  Follows(dec'[c], h[c][IF c = ch \/ c < ch THEN row + 1 ELSE row])
    OBVIOUS
  <2>1. CASE c = ch
    <3>1. dec'[ch] = Decoded(dec[ch], cw) BY <1>2, <1>5, <1>6
    <3> QED BY <1>4, <2>1, <3>1
  <2>2. CASE c # ch
    <3>1. dec'[c] = dec[c] BY <1>2, <1>5, <1>6, <2>2
    <3> QED BY <1>4, <2>2, <3>1
  <2> QED BY <2>1, <2>2
<1>12. ~clipped => \A c \in 0 .. n - 1 : c <= ch => filled[c] = Input(stream, frame, row, c)
  <2> SUFFICES ASSUME ~clipped, NEW c \in 0 .. n - 1, c <= ch
               PROVE  filled[c] = Input(stream, frame, row, c)
    OBVIOUS
  <2>1. CASE c = ch BY <1>2, <1>4, <1>8, <2>1
  <2>2. CASE c # ch
    <3>1. c < ch BY <1>2, <2>2
    <3>2. slot[c] = Input(stream, frame, row, c) BY <1>1, <1>2, <3>1 DEF SlotRight
    <3> QED BY <1>8, <2>2, <3>2
  <2> QED BY <2>1, <2>2
<1>13. Channels' = Channels /\ Rows(frame)' = Rows(frame) BY <1>5 DEF Channels, Rows
<1>14. \A d, st : Follows(d, st)' <=> Follows(d, st) BY <1>5 DEF Follows
<1> HIDE DEF n, cw, b, filled
<1>15. CASE ch < n - 1
  <2>1. pc' = "decode" /\ ch' = ch + 1 /\ row' = row /\ out' = out BY <1>1, <1>5, <1>15
  <2>2. ch' \in 0 .. n - 1 BY <1>2, <1>15, <2>1
  <2>3. TypeOK' BY <1>2, <1>5, <1>6, <1>10, <1>13, <2>1, <2>2 DEF TypeOK
  <2>4. /\ Encoding'
        /\ bodies' \in Seq(BodyType) /\ Len(bodies') = Len(stream.frames)
        /\ \A f \in DOMAIN bodies' : /\ Len(bodies'[f].words) <= bodies'[f].bits
                                     /\ Len(bodies'[f].words) = Rows(f)' * stream.nch
    BY <1>1, <1>5, <2>1, DecoderKeeps
  <2>5. Shaped'
    BY <1>2, <1>5, <1>8, <1>9, <1>13, <2>1, <2>4 DEF Shaped, Retracing
  <2>6. Decoding'
    <3>1. DecoderAt(h)'
      <4>1. \A c \in 0 .. n - 1 : c < ch' <=> c = ch \/ c < ch BY <1>2, <2>1
      <4>2. \A c \in 0 .. n - 1 :
              Follows(dec'[c], h[c][IF c < ch' THEN row' + 1 ELSE row'])
        BY <1>11, <2>1, <4>1
      <4>3. pc' # "inverse" BY <2>1
      <4> QED BY <1>2, <1>5, <1>13, <4>2, <4>3 DEF DecoderAt, Follows
    <3> QED BY <1>4, <1>5, <3>1 DEF Decoding
  <2>7. SlotRight'
    <3>1. \A c \in 0 .. n - 1 : c < ch' => c <= ch BY <1>2, <2>1
    <3> QED BY <1>2, <1>5, <1>12, <1>13, <2>1, <3>1 DEF SlotRight
  <2>8. OutRight'
    BY <1>1, <1>5, <1>13, <2>1 DEF OutRight, Retracing, RowsRight
  <2> QED BY <2>3, <2>4, <2>5, <2>6, <2>7, <2>8 DEF IInv
<1>16. CASE ~(ch < n - 1) /\ n < 2
  <2>1. Deliver(filled) BY <1>5, <1>16
  <2>2. n = 1 /\ ch = 0 BY <1>2, <1>16
  <2>3. ~clipped => filled = stream.frames[frame][row]
    <3> SUFFICES ASSUME ~clipped PROVE filled = stream.frames[frame][row] OBVIOUS
    <3>1. row \in 1 .. Len(stream.frames[frame]) BY <1>2, <1>8 DEF Rows
    <3>2. stream.frames[frame][row] \in [0 .. n - 1 -> Ints]
      BY <1>2, <3>1, StreamTyped DEF n
    <3>3. filled[0] = Input(stream, frame, row, 0) BY <1>12, <2>2
    <3>4. Input(stream, frame, row, 0) = stream.frames[frame][row][0]
      BY <2>2 DEF Input, Forward, n
    <3>5. \A c \in 0 .. n - 1 : filled[c] = stream.frames[frame][row][c]
      BY <2>2, <3>3, <3>4
    <3> DEFINE pcm == stream.frames[frame][row]
    <3>6. filled = [c \in 0 .. n - 1 |-> filled[c]] BY <1>9
    <3>7. pcm = [c \in 0 .. n - 1 |-> pcm[c]] BY <3>2
    <3> QED BY <3>5, <3>6, <3>7
  <2>4. /\ OutRight'
        /\ row' = row + 1 /\ ch' = 0 /\ pc' \in {"decode", "ready"}
        /\ row' \in 1 .. Rows(frame) + 1
        /\ pc' = "decode" => row' <= Rows(frame)
    BY <1>1, <1>2, <1>5, <1>9, <2>1, <2>3, Delivered
  <2>5. TypeOK' BY <1>2, <1>5, <1>6, <1>10, <1>13, <2>2, <2>4 DEF TypeOK
  <2>6. /\ Encoding'
        /\ bodies' \in Seq(BodyType) /\ Len(bodies') = Len(stream.frames)
        /\ \A f \in DOMAIN bodies' : /\ Len(bodies'[f].words) <= bodies'[f].bits
                                     /\ Len(bodies'[f].words) = Rows(f)' * stream.nch
    BY <1>1, <1>5, <2>4, DecoderKeeps
  <2>7. Shaped'
    BY <1>2, <1>5, <1>9, <1>13, <2>4, <2>6 DEF Shaped, Retracing
  <2>8. Decoding'
    <3>1. DecoderAt(h)'
      <4>1. \A c \in 0 .. n - 1 : ~(c < ch') /\ (c = ch \/ c < ch) BY <2>2, <2>4
      <4>2. \A c \in 0 .. n - 1 : Follows(dec'[c], h[c][row'])
        BY <1>11, <2>4, <4>1
      <4>3. pc' # "inverse" BY <2>4
      <4> QED BY <1>2, <1>5, <1>13, <4>1, <4>2, <4>3 DEF DecoderAt, Follows
    <3> QED BY <1>4, <1>5, <3>1 DEF Decoding
  <2>9. SlotRight'
    <3>1. \A c \in 0 .. n - 1 : ~(c < ch') BY <2>4
    <3>2. pc' # "inverse" BY <2>4
    <3> QED BY <1>2, <1>13, <3>1, <3>2 DEF SlotRight
  <2> QED BY <2>4, <2>5, <2>6, <2>7, <2>8, <2>9 DEF IInv
<1>17. CASE ~(ch < n - 1) /\ ~(n < 2)
  <2>1. pc' = "inverse" /\ ch' = ch /\ row' = row /\ out' = out BY <1>5, <1>17
  <2>2. ch = n - 1 /\ n >= 2 BY <1>2, <1>17
  <2>3. TypeOK' BY <1>2, <1>5, <1>6, <1>10, <1>13, <2>1 DEF TypeOK
  <2>4. /\ Encoding'
        /\ bodies' \in Seq(BodyType) /\ Len(bodies') = Len(stream.frames)
        /\ \A f \in DOMAIN bodies' : /\ Len(bodies'[f].words) <= bodies'[f].bits
                                     /\ Len(bodies'[f].words) = Rows(f)' * stream.nch
    BY <1>1, <1>5, <2>1, DecoderKeeps
  <2>5. stream.nch >= 2 BY <2>2 DEF n
  <2>6. Shaped'
    BY <1>2, <1>5, <1>8, <1>9, <1>13, <2>1, <2>4, <2>5 DEF Shaped, Retracing
  <2>7. Decoding'
    <3>1. DecoderAt(h)'
      <4>1. \A c \in 0 .. n - 1 : c = ch \/ c < ch BY <1>2, <2>2
      <4>2. \A c \in 0 .. n - 1 : Follows(dec'[c], h[c][row' + 1])
        BY <1>11, <2>1, <4>1
      <4> QED BY <1>2, <1>5, <1>13, <2>1, <4>2 DEF DecoderAt, Follows
    <3> QED BY <1>4, <1>5, <3>1 DEF Decoding
  <2>8. SlotRight'
    <3>1. \A c \in 0 .. n - 1 : c <= ch BY <1>2, <2>2
    <3> QED BY <1>2, <1>5, <1>12, <1>13, <2>1, <3>1 DEF SlotRight
  <2>9. OutRight'
    BY <1>1, <1>5, <1>13, <2>1 DEF OutRight, Retracing, RowsRight
  <2> QED BY <2>3, <2>4, <2>6, <2>7, <2>8, <2>9 DEF IInv
<1> QED BY <1>15, <1>16, <1>17

LEMMA InverseStepStep ==
  ASSUME IInv, InverseStep
  PROVE  IInv'
<1> DEFINE n == stream.nch
           pcm == stream.frames[frame][row]
           f == Forward(pcm, n)
           r == IF ch = LastChannel THEN Anchored(slot, n) ELSE Cascaded(slot, ch)
           x == IF ch = n - 1 THEN Signed(slot[n - 1] + HalfTowardZero(slot[n - 2]))
                              ELSE Signed(slot[ch + 1] - slot[ch])
<1>1. /\ TypeOK /\ Shaped /\ Encoding /\ Decoding /\ SlotRight /\ OutRight
      /\ pc = "inverse" /\ Retracing
  BY DEF IInv, InverseStep, Retracing
<1>2. /\ stream \in Streams /\ prime \in Primings /\ clipped \in BOOLEAN
      /\ n \in Nat \ {0}
      /\ Channels = 0 .. n - 1 /\ LastChannel = n - 1 /\ ch \in 0 .. n - 1
      /\ frame \in DOMAIN stream.frames
      /\ Rows(frame) \in Nat \ {0} /\ row \in Nat \ {0} /\ row \in 1 .. Rows(frame) + 1
  BY <1>1, Here
<1>3. n >= 2 /\ slot \in [0 .. n - 1 -> Ints] /\ row <= Rows(frame)
  BY <1>1, <1>2 DEF Shaped
<1>4. pcm \in [0 .. n - 1 -> Ints]
  <2>1. row \in 1 .. Len(stream.frames[frame]) BY <1>2, <1>3 DEF Rows
  <2> QED BY <1>2, <2>1, StreamTyped
<1>5. /\ slot' = r
      /\ IF ch > 0
         THEN ch' = ch - 1 /\ pc' = pc /\ row' = row /\ out' = out
         ELSE Deliver(r)
      /\ stream' = stream /\ prime' = prime /\ frame' = frame /\ enc' = enc
      /\ bodies' = bodies /\ dec' = dec /\ clipped' = clipped
  BY DEF InverseStep
<1>6. r = [slot EXCEPT ![ch] = x]
  BY <1>2 DEF Anchored, Cascaded
<1>7. ~clipped => \A c \in 0 .. n - 1 : slot[c] = IF c <= ch THEN f[c] ELSE pcm[c]
  BY <1>1, <1>2 DEF SlotRight, Input
<1>8. x \in Ints
  <2>1. \A c \in 0 .. n - 1 : slot[c] \in Int BY <1>3, IntsAreIntegers
  <2>2. CASE ch = n - 1
    <3>1. n - 1 \in 0 .. n - 1 /\ n - 2 \in 0 .. n - 1 BY <1>2, <1>3
    <3>2. HalfTowardZero(slot[n - 2]) \in Int BY <2>1, <3>1, HalfTyped
    <3>3. slot[n - 1] + HalfTowardZero(slot[n - 2]) \in Int BY <2>1, <3>1, <3>2
    <3> QED BY <2>2, <3>3, SignedOff
  <2>3. CASE ch # n - 1
    <3>1. ch + 1 \in 0 .. n - 1 BY <1>2, <2>3
    <3>2. slot[ch + 1] - slot[ch] \in Int BY <1>2, <2>1, <3>1
    <3> QED BY <2>3, <3>2, SignedOff
  <2> QED BY <2>2, <2>3
<1>9. ~clipped => x = pcm[ch]
  <2> SUFFICES ASSUME ~clipped PROVE x = pcm[ch] OBVIOUS
  <2>1. /\ Signed(f[n - 1] + HalfTowardZero(f[n - 2])) = pcm[n - 1]
        /\ \A c \in 0 .. n - 2 : Signed(pcm[c + 1] - f[c]) = pcm[c]
    BY <1>2, <1>3, <1>4, CascadeBack
  <2> HIDE DEF f, pcm
  <2>2. CASE ch = n - 1
    <3>1. n - 1 \in 0 .. n - 1 /\ n - 2 \in 0 .. n - 1 /\ n - 1 <= ch /\ n - 2 <= ch
      BY <1>2, <1>3, <2>2
    <3>2. slot[n - 1] = f[n - 1] /\ slot[n - 2] = f[n - 2] BY <1>7, <3>1
    <3> QED BY <2>1, <2>2, <3>2
  <2>3. CASE ch # n - 1
    <3>1. ch \in 0 .. n - 2 /\ ch + 1 \in 0 .. n - 1 /\ ~(ch + 1 <= ch) /\ ch <= ch
      BY <1>2, <2>3
    <3>2. slot[ch + 1] = pcm[ch + 1] /\ slot[ch] = f[ch] BY <1>2, <1>7, <3>1
    <3> QED BY <2>1, <2>3, <3>1, <3>2
  <2> QED BY <2>2, <2>3
<1>10. r \in [0 .. n - 1 -> Ints] BY <1>2, <1>3, <1>6, <1>8
<1>11. ~clipped =>
         \A c \in 0 .. n - 1 : r[c] = IF c < ch THEN f[c] ELSE pcm[c]
  <2> HIDE DEF r, f, pcm, x
  <2> SUFFICES ASSUME ~clipped, NEW c \in 0 .. n - 1
               PROVE  r[c] = IF c < ch THEN f[c] ELSE pcm[c]
    OBVIOUS
  <2>1. CASE c = ch BY <1>2, <1>3, <1>6, <1>9, <2>1
  <2>2. CASE c # ch
    <3>1. r[c] = slot[c] BY <1>3, <1>6, <2>2
    <3>2. c < ch <=> c <= ch BY <1>2, <2>2
    <3> QED BY <1>7, <3>1, <3>2
  <2> QED BY <2>1, <2>2
<1>12. Channels' = Channels /\ Rows(frame)' = Rows(frame) BY <1>5 DEF Channels, Rows
<1>13. enc \in [Channels -> ChannelState] /\ dec \in [Channels -> ChannelState]
  BY <1>1 DEF TypeOK
<1>14. PICK h : /\ Explains(stream, prime, frame, h, bodies[frame].words, clipped)
                /\ \A c \in 0 .. n - 1 : Follows(dec[c], h[c][row + 1])
  BY <1>1, <1>2 DEF Decoding, DecoderAt
<1>15. Input(stream, frame, row, 0) = f[0]
       /\ \A c \in 0 .. n - 1 : Input(stream, frame, row, c) = f[c]
  BY DEF Input
<1>16. CASE ch > 0
  <2>1. ch' = ch - 1 /\ pc' = "inverse" /\ row' = row /\ out' = out BY <1>1, <1>5, <1>16
  <2>2. ch' \in 0 .. n - 1 BY <1>2, <1>16, <2>1
  <2>3. TypeOK' BY <1>2, <1>5, <1>12, <1>13, <2>1, <2>2 DEF TypeOK
  <2>4. /\ Encoding'
        /\ bodies' \in Seq(BodyType) /\ Len(bodies') = Len(stream.frames)
        /\ \A g \in DOMAIN bodies' : /\ Len(bodies'[g].words) <= bodies'[g].bits
                                     /\ Len(bodies'[g].words) = Rows(g)' * stream.nch
    BY <1>1, <1>5, <2>1, DecoderKeeps
  <2>5. slot' \in [Channels -> Ints] BY <1>2, <1>5, <1>10
  <2>6. Shaped'
    BY <1>2, <1>3, <1>5, <1>12, <2>1, <2>4, <2>5 DEF Shaped, Retracing
  <2>7. Decoding'
    <3>1. DecoderAt(h)'
      BY <1>2, <1>5, <1>12, <1>14, <2>1 DEF DecoderAt, Follows
    <3> QED BY <1>5, <1>14, <3>1 DEF Decoding
  <2>8. SlotRight'
    <3> HIDE DEF r, f, pcm
    <3>1. \A c \in 0 .. n - 1 : c <= ch' <=> c < ch BY <1>2, <2>1
    <3>2. ~clipped => \A c \in 0 .. n - 1 :
            slot'[c] = IF c <= ch' THEN Input(stream, frame, row, c) ELSE pcm[c]
      BY <1>5, <1>11, <1>15, <3>1
    <3> QED BY <1>2, <1>5, <1>12, <2>1, <3>2 DEF SlotRight, pcm
  <2>9. OutRight'
    BY <1>1, <1>5, <1>12, <2>1 DEF OutRight, Retracing, RowsRight
  <2> QED BY <2>3, <2>4, <2>6, <2>7, <2>8, <2>9 DEF IInv
<1>17. CASE ~(ch > 0)
  <2>1. Deliver(r) /\ ch = 0 BY <1>2, <1>5, <1>17
  <2>2. ~clipped => r = pcm
    <3> HIDE DEF r, f, pcm
    <3> SUFFICES ASSUME ~clipped PROVE r = pcm OBVIOUS
    <3>1. \A c \in 0 .. n - 1 : r[c] = pcm[c]
      <4>1. \A c \in 0 .. n - 1 : ~(c < ch) BY <2>1
      <4> QED BY <1>11, <4>1
    <3>2. r = [c \in 0 .. n - 1 |-> r[c]] BY <1>10
    <3>3. pcm = [c \in 0 .. n - 1 |-> pcm[c]] BY <1>4
    <3> QED BY <3>1, <3>2, <3>3
  <2> HIDE DEF r
  <2>3. /\ OutRight'
        /\ row' = row + 1 /\ ch' = 0 /\ pc' \in {"decode", "ready"}
        /\ row' \in 1 .. Rows(frame) + 1
        /\ pc' = "decode" => row' <= Rows(frame)
    BY <1>1, <1>2, <1>5, <1>10, <2>1, <2>2, Delivered
  <2>4. 0 \in 0 .. n - 1 BY <1>2
  <2>5. TypeOK' BY <1>2, <1>5, <1>12, <1>13, <2>3, <2>4 DEF TypeOK
  <2>6. /\ Encoding'
        /\ bodies' \in Seq(BodyType) /\ Len(bodies') = Len(stream.frames)
        /\ \A g \in DOMAIN bodies' : /\ Len(bodies'[g].words) <= bodies'[g].bits
                                     /\ Len(bodies'[g].words) = Rows(g)' * stream.nch
    BY <1>1, <1>5, <2>3, DecoderKeeps
  <2>7. slot' \in [Channels -> Ints] BY <1>2, <1>5, <1>10
  <2>8. Shaped'
    BY <1>2, <1>5, <1>12, <2>3, <2>6, <2>7 DEF Shaped, Retracing
  <2>9. Decoding'
    <3>1. \A c \in 0 .. n - 1 : ~(c < ch') BY <2>3
    <3>2. DecoderAt(h)'
      BY <1>2, <1>5, <1>12, <1>14, <2>3, <3>1 DEF DecoderAt, Follows
    <3> QED BY <1>5, <1>14, <3>2 DEF Decoding
  <2>10. SlotRight'
    <3>1. \A c \in 0 .. n - 1 : ~(c < ch') BY <2>3
    <3>2. pc' # "inverse" BY <2>3
    <3> QED BY <1>2, <1>12, <3>1, <3>2 DEF SlotRight
  <2> QED BY <2>3, <2>5, <2>6, <2>8, <2>9, <2>10 DEF IInv
<1> QED BY <1>16, <1>17

-----------------------------------------------------------------------------
LEMMA StutterStep ==
  ASSUME IInv, UNCHANGED vars
  PROVE  IInv'
<1>1. /\ TypeOK /\ Shaped /\ Encoding /\ Decoding /\ SlotRight /\ OutRight BY DEF IInv
<1> USE DEF vars
<1>2. TypeOK' BY <1>1 DEF TypeOK, Channels, Rows
<1>3. Channels' = Channels /\ \A f : Rows(f)' = Rows(f) BY DEF Channels, Rows
<1>4. Shaped' BY <1>1, <1>3 DEF Shaped, Retracing
<1>5. \A h : EncoderAt(h)' <=> EncoderAt(h) BY <1>3 DEF EncoderAt
<1>6. Encoding' BY <1>1, <1>5 DEF Encoding, BodyExplained
<1>7. \A h : DecoderAt(h)' <=> DecoderAt(h) BY <1>3 DEF DecoderAt, Follows
<1>8. Decoding' BY <1>1, <1>7 DEF Decoding, Retracing
<1>9. SlotRight' BY <1>1, <1>3 DEF SlotRight
<1>10. OutRight' BY <1>1, <1>3 DEF OutRight, Retracing, RowsRight
<1> QED BY <1>2, <1>4, <1>6, <1>8, <1>9, <1>10 DEF IInv

LEMMA Inductive == IInv /\ [Next]_vars => IInv'
<1> SUFFICES ASSUME IInv, [Next]_vars PROVE IInv' OBVIOUS
<1>1. CASE EncodeOne BY <1>1, EncodeOneStep
<1>2. CASE FinishBody BY <1>2, FinishBodyStep
<1>3. CASE \E f \in DOMAIN stream.frames : StartFrame(f) BY <1>3, StartFrameStep
<1>4. CASE DecodeOne BY <1>4, DecodeOneStep
<1>5. CASE InverseStep BY <1>5, InverseStepStep
<1>6. CASE UNCHANGED vars BY <1>6, StutterStep
<1> QED BY <1>1, <1>2, <1>3, <1>4, <1>5, <1>6 DEF Next

LEMMA Invariant == Spec => []IInv
  BY InitIInv, Inductive, PTL DEF Spec

(***************************************************************************)
(* TypeCorrect: trackers, weights and registers of both sides stay in      *)
(* their words and k below its cap (rice.rs:86-160, lms.rs:44-117).        *)
(***************************************************************************)
THEOREM TypeCorrect == Spec => []TypeOK
<1>1. IInv => TypeOK BY DEF IInv
<1> QED BY <1>1, Invariant, PTL

(***************************************************************************)
(* LockStepCorrect: whatever the samples, the decoder's trackers ask for   *)
(* the bits the encoder's trackers wrote, and no body written by the       *)
(* encoder is refused (rice.rs:71-75, decoder.rs:118-134).                 *)
(***************************************************************************)
THEOREM LockStepCorrect == Spec => []LockStep
<1>1. IInv => LockStep BY DEF IInv, Shaped, LockStep
<1> QED BY <1>1, Invariant, PTL

(***************************************************************************)
(* LosslessCorrect: unless a residual was the least integer, every row     *)
(* that decode_frame_inner delivers is the row that encode_one_frame was   *)
(* given, whatever frames were decoded before.                             *)
(***************************************************************************)
THEOREM LosslessCorrect == Spec => []Lossless
<1>1. IInv => Lossless BY DEF IInv, OutRight, Lossless
<1> QED BY <1>1, Invariant, PTL

-----------------------------------------------------------------------------
(***************************************************************************)
(* Headroom.  A prediction is an i32 shifted down, so its size is bounded  *)
(* whatever wrapped before; what the encoder takes it from is a difference *)
(* of samples.  All are counted in units of a 64th of the word's range.    *)
(***************************************************************************)
Unit == 2^(W - 6)

LEMMA Units ==
  /\ Unit \in Nat \ {0}
  /\ Ints = -(32 * Unit) .. 32 * Unit - 1 /\ LeastInt = -(32 * Unit)
  /\ 2^(W - 2) = 16 * Unit
  /\ 2^(Depth - 1) \in Nat /\ 2^(Depth - 1) <= 2 * Unit
  /\ 2^Shift \in Nat /\ 2^Shift >= 4
<1>1. W \in Nat /\ W > 5 /\ Depth - 1 \in 0 .. W - 5 /\ Shift \in 2 .. W
  BY WordWidth, DepthAssumption, PredictorAssumption
<1>2. /\ W - 6 \in 0 .. W /\ W - 5 \in 1 .. W /\ W - 4 \in 1 .. W /\ W - 3 \in 1 .. W
      /\ W - 2 \in 1 .. W /\ W - 1 \in 1 .. W
      /\ (W - 5) - 1 = W - 6 /\ (W - 4) - 1 = W - 5 /\ (W - 3) - 1 = W - 4
      /\ (W - 2) - 1 = W - 3 /\ (W - 1) - 1 = W - 2
  BY <1>1
<1>3. Unit \in Nat \ {0} BY <1>2, PowersOfTwo DEF Unit
<1>4. 2^(W - 5) = 2 * Unit BY <1>2, PowersOfTwo DEF Unit
<1>5. 2^(W - 4) = 2 * 2^(W - 5) /\ 2^(W - 3) = 2 * 2^(W - 4)
      /\ 2^(W - 2) = 2 * 2^(W - 3) /\ 2^(W - 1) = 2 * 2^(W - 2)
  BY <1>2, PowersOfTwo
<1>6. 2^(W - 2) = 16 * Unit /\ 2^(W - 1) = 32 * Unit BY <1>3, <1>4, <1>5
<1>7. 2^(Depth - 1) \in Nat /\ 2^(Depth - 1) <= 2 * Unit
  <2>1. Depth - 1 \in 0 .. W /\ W - 5 \in 0 .. W /\ Depth - 1 <= W - 5 BY <1>1
  <2> QED BY <1>4, <2>1, PowersOfTwo
<1>8. 2^Shift \in Nat /\ 2^Shift >= 4
  <2>1. /\ 2 \in 0 .. W /\ 3 \in 1 .. W /\ 4 \in 1 .. W /\ 5 \in 1 .. W /\ Shift \in 0 .. W /\ 2 <= Shift
        /\ 3 - 1 = 2 /\ 4 - 1 = 3 /\ 5 - 1 = 4
    BY <1>1
  <2>2. 2^3 = 2 * 2^2 /\ 2^4 = 2 * 2^3 /\ 2^5 = 2 * 2^4 /\ 2^5 = 32 BY <2>1, PowersOfTwo
  <2>3. 2^2 \in Nat BY <2>1, PowersOfTwo
  <2>4. 2^2 = 4 BY <2>2, <2>3
  <2>5. 2^2 <= 2^Shift /\ 2^Shift \in Nat BY <2>1, PowersOfTwo
  <2> QED BY <2>4, <2>5
<1> QED BY <1>3, <1>6, <1>7, <1>8 DEF Ints, LeastInt

\* A quotient by d is within a d-th of the range.
LEMMA Quotient ==
  ASSUME NEW x \in Int, NEW u \in Nat, NEW d \in Nat \ {0}, NEW k \in Nat,
         -(k * u) <= x, x < k * u, k <= d
  PROVE  x \div d \in -u .. u - 1
<1>1. PICK q \in Int, r \in 0 .. d - 1 : x = q * d + r /\ q = x \div d BY DivMod
<1>2. k * u <= d * u /\ k * u \in Nat /\ d * u \in Nat BY Product
<1>3. PICK y \in Nat, z \in Int : y = d * u /\ z = q * d
  <2>1. q * d \in Int BY <1>1
  <2> QED BY <1>2, <2>1
<1>4. -y <= z + r /\ z + r < y /\ r \in Nat /\ r < d BY <1>1, <1>2, <1>3
<1>5. q >= -u
  <2> SUFFICES ASSUME q + 1 <= -u PROVE FALSE BY <1>1
  <2>1. (-u - (q + 1)) * d \in Nat BY SMT, <1>1
  <2>2. (-u - (q + 1)) * d = -(d * u) - (q * d) - d BY SMT, <1>1
  <2>3. -y - z - d >= 0 BY <1>3, <2>1, <2>2
  <2> QED BY <1>3, <1>4, <2>3
<1>6. q < u
  <2> SUFFICES ASSUME q >= u PROVE FALSE BY <1>1
  <2>1. (q - u) * d \in Nat BY SMT, <1>1
  <2>2. (q - u) * d = q * d - d * u BY SMT, <1>1
  <2>3. z - y >= 0 BY <1>3, <2>1, <2>2
  <2> QED BY <1>3, <1>4, <2>3
<1> QED BY <1>1, <1>5, <1>6

LEMMA PredictionsBounded ==
  ASSUME NEW st \in LmsState, NEW prev \in Ints
  PROVE  /\ PredictionB(prev) \in -Unit .. Unit - 1
         /\ Prediction(st) \in -(8 * Unit) .. 8 * Unit - 1
<1>1. PredictionB(prev) \in -Unit .. Unit - 1
  <2>1. prev * 31 \in Int BY IntsAreIntegers
  <2>2. PICK x \in Ints : x = Signed(prev * 31) BY <2>1, SignedOff
  <2>3. PredictionB(prev) = x \div 32 BY <2>2, PowersOfTwo DEF PredictionB, ShiftedRight
  <2>4. x \div 32 \in -Unit .. Unit - 1 BY Units, <2>2, SMT
  <2> QED BY <2>3, <2>4
<1>2. Prediction(st) \in -(8 * Unit) .. 8 * Unit - 1
  <2>1. Shift \in 0 .. W /\ Shift - 1 \in 0 .. W BY PredictorAssumption, WordWidth
  <2>2. 2^(Shift - 1) \in Nat BY <2>1, PowersOfTwo
  <2>3. Dot(st.dl, Weights(st)) \in Int BY WeightsTyped, DotTyped DEF LmsState
  <2>4. PICK x \in Ints : x = Signed(2^(Shift - 1) + Dot(st.dl, Weights(st)))
    BY <2>2, <2>3, SignedOff
  <2>5. PICK d \in Nat \ {0} : d = 2^Shift /\ 4 <= d BY Units
  <2>6. x \in Int /\ -(4 * (8 * Unit)) <= x /\ x < 4 * (8 * Unit) /\ 8 * Unit \in Nat
    BY Units, <2>4
  <2>7. x \div d \in -(8 * Unit) .. 8 * Unit - 1 BY <2>5, <2>6, Quotient
  <2> QED BY <2>4, <2>5, <2>7 DEF Prediction, ShiftedRight
<1> QED BY <1>1, <1>2

LEMMA HalfBounded ==
  ASSUME NEW x \in Int, NEW u \in Nat, -(4 * u) <= x, x <= 4 * u
  PROVE  -(2 * u) <= HalfTowardZero(x) /\ HalfTowardZero(x) <= 2 * u
  BY SMT DEF HalfTowardZero

InDepth == -(2^(Depth - 1)) .. 2^(Depth - 1) - 1

LEMMA ForwardBounded ==
  ASSUME NEW n \in Nat \ {0}, NEW pcm \in [0 .. n - 1 -> Ints],
         \A c \in 0 .. n - 1 : pcm[c] \in InDepth
  PROVE  \A c \in 0 .. n - 1 : Forward(pcm, n)[c] \in -(4 * Unit) .. 4 * Unit
<1> DEFINE d == [c \in 0 .. n - 2 |-> Signed(pcm[c + 1] - pcm[c])]
<1>1. PICK u \in Nat \ {0} : u = Unit BY Units
<1>2. \A c \in 0 .. n - 1 : pcm[c] \in Int /\ -(2 * u) <= pcm[c] /\ pcm[c] <= 2 * u
  BY Units, <1>1 DEF InDepth
<1>3. Ints = -(32 * u) .. 32 * u - 1 BY Units, <1>1
<1>4. ASSUME NEW c \in 0 .. n - 2 PROVE d[c] \in -(4 * u) .. 4 * u
  <2>1. c \in 0 .. n - 1 /\ c + 1 \in 0 .. n - 1 OBVIOUS
  <2>2. pcm[c + 1] - pcm[c] \in -(4 * u) .. 4 * u BY <1>2, <2>1
  <2>3. pcm[c + 1] - pcm[c] \in Ints BY <1>3, <2>2
  <2> QED BY <2>2, <2>3, SignedInt
<1> HIDE DEF d
<1>5. ASSUME NEW c \in 0 .. n - 1
      PROVE  (IF c < n - 1 THEN d[c]
              ELSE IF n < 2 THEN pcm[c]
              ELSE Signed(pcm[c] - HalfTowardZero(d[n - 2]))) \in -(4 * u) .. 4 * u
  <2>1. CASE c < n - 1
    <3>1. c \in 0 .. n - 2 BY <2>1
    <3> QED BY <1>4, <2>1, <3>1
  <2>2. CASE ~(c < n - 1) /\ n < 2 BY <1>2, <2>2
  <2>3. CASE ~(c < n - 1) /\ ~(n < 2)
    <3>1. n - 2 \in 0 .. n - 2 BY <2>3
    <3>2. PICK x \in Int : x = d[n - 2] /\ -(4 * u) <= x /\ x <= 4 * u BY <1>4, <3>1
    <3>3. PICK y \in Int : y = HalfTowardZero(x) /\ -(2 * u) <= y /\ y <= 2 * u
      BY <3>2, HalfTyped, HalfBounded
    <3>4. pcm[c] - y \in -(4 * u) .. 4 * u BY <1>2, <3>3
    <3>5. pcm[c] - y \in Ints BY <1>3, <3>4
    <3> QED BY <2>3, <3>2, <3>3, <3>4, <3>5, SignedInt
  <2> QED BY <2>1, <2>2, <2>3
<1> QED BY <1>1, <1>5 DEF Forward, d

\* One turn of the encoder on a sample that is a difference of samples in depth.
LEMMA ResidualBounded ==
  ASSUME NEW st \in ChannelState, NEW s \in -(4 * Unit) .. 4 * Unit
  PROVE  EncoderResidual(st, s) \in -(16 * Unit) .. 16 * Unit - 1
<1>1. PICK u \in Nat \ {0} : u = Unit BY Units
<1>2. Ints = -(32 * u) .. 32 * u - 1 BY Units, <1>1
<1>3. st.lms \in LmsState /\ st.prev \in Ints BY DEF ChannelState
<1>4. PICK b \in Int : b = PredictionB(st.prev) /\ -u <= b /\ b < u
  BY <1>1, <1>3, PredictionsBounded
<1>5. PICK a \in Int : a = Prediction(st.lms) /\ -(8 * u) <= a /\ a < 8 * u
  BY <1>1, <1>3, PredictionsBounded
<1>6. s - b \in Ints /\ s - b \in -(5 * u) .. 5 * u BY <1>1, <1>2, <1>4
<1>7. InputA(st, s) = s - b BY <1>4, <1>6, SignedInt DEF InputA
<1>8. (s - b) - a \in Ints /\ (s - b) - a \in -(16 * u) .. 16 * u - 1 BY <1>2, <1>5, <1>6
<1>9. EncoderResidual(st, s) = (s - b) - a
  BY <1>5, <1>7, <1>8, SignedInt DEF EncoderResidual, LmsResidual
<1> QED BY <1>1, <1>8, <1>9

LEMMA HeadroomStep == IInv /\ InRangeHeadroom /\ [Next]_vars => InRangeHeadroom'
<1> SUFFICES ASSUME IInv, InRangeHeadroom, [Next]_vars PROVE InRangeHeadroom' OBVIOUS
<1>1. TypeOK BY DEF IInv
<1>2. PICK B : B = -(2^(W - 2)) .. 2^(W - 2) - 1 OBVIOUS
<1>3. B = -(16 * Unit) .. 16 * Unit - 1 /\ LeastInt \notin B BY Units, <1>2
<1>4. stream' = stream BY DEF Next, EncodeOne, FinishBody, StartFrame, DecodeOne, InverseStep, vars
<1>5. InRange' <=> InRange /\ Channels' = Channels BY <1>4 DEF InRange, Channels, Rows
<1> SUFFICES ASSUME InRange PROVE ~clipped' /\ \A c \in Channels : enc'[c].lms.error \in B
  BY <1>2, <1>5 DEF InRangeHeadroom
<1>6. ~clipped /\ \A c \in Channels : enc[c].lms.error \in B BY <1>2 DEF InRangeHeadroom
<1>7. CASE EncodeOne
  <2>1. PICK s : s = Forward(stream.frames[frame][row], stream.nch)[ch] OBVIOUS
  <2>2. /\ stream \in Streams /\ frame \in DOMAIN stream.frames /\ ch \in 0 .. stream.nch - 1
        /\ row \in 1 .. Rows(frame) /\ Channels = 0 .. stream.nch - 1
    BY <1>1, <1>7, Here DEF EncodeOne
  <2>3. /\ stream.frames[frame][row] \in [0 .. stream.nch - 1 -> Ints]
        /\ stream.nch \in Nat \ {0}
    BY <2>2, StreamTyped DEF Rows
  <2>4. \A c \in 0 .. stream.nch - 1 : stream.frames[frame][row][c] \in InDepth
    BY <2>2 DEF InRange, InDepth
  <2>5. s \in -(4 * Unit) .. 4 * Unit BY <2>1, <2>2, <2>3, <2>4, ForwardBounded
  <2>6. enc[ch] \in ChannelState BY <1>1, <2>2 DEF TypeOK
  <2>7. PICK e \in B : e = EncoderResidual(enc[ch], s)
    BY <1>3, <2>5, <2>6, ResidualBounded
  <2>8. clipped' = (clipped \/ e = LeastInt) /\ enc' = [enc EXCEPT ![ch] = Encoded(enc[ch], s)]
    BY <1>7, <2>1, <2>7 DEF EncodeOne
  <2>9. Encoded(enc[ch], s).lms.error = e BY <2>7 DEF Encoded, Advanced
  <2>10. ~clipped' BY <1>3, <1>6, <2>7, <2>8
  <2>11. enc \in [Channels -> ChannelState] BY <1>1 DEF TypeOK
  <2>12. ASSUME NEW c \in Channels PROVE enc'[c].lms.error \in B
    <3>1. CASE c = ch BY <2>7, <2>8, <2>9, <2>11, <3>1
    <3>2. CASE c # ch BY <1>6, <2>8, <2>11, <3>2
    <3> QED BY <3>1, <3>2
  <2> QED BY <2>10, <2>12
<1>8. CASE FinishBody
  <2>1. clipped' = clipped /\ enc' \in {enc, FreshChannels} BY <1>8 DEF FinishBody
  <2>2. \A c \in Channels : FreshChannels[c].lms.error = 0 BY DEF FreshChannels, LmsInit
  <2>3. 0 \in B BY Units, <1>3
  <2> QED BY <1>6, <2>1, <2>2, <2>3
<1>9. CASE UNCHANGED <<enc, clipped>> BY <1>6, <1>9
<1> QED BY <1>7, <1>8, <1>9 DEF Next, StartFrame, DecodeOne, InverseStep, vars

(***************************************************************************)
(* InRangeHeadroomCorrect: samples within the declared depth never produce *)
(* the one residual that zigzag cannot carry, for every stream, priming    *)
(* and history: a prediction is a shifted word, so that a filter gone wild *)
(* costs bits and never headroom (rice.rs:177, encoder.rs:257).             *)
(***************************************************************************)
THEOREM InRangeHeadroomCorrect == Spec => []InRangeHeadroom
<1>1. Init => InRangeHeadroom
  <2> SUFFICES ASSUME Init PROVE InRangeHeadroom OBVIOUS
  <2>1. \A c \in Channels : enc[c].lms.error = 0 BY DEF Init, FreshChannels, LmsInit
  <2>2. 0 \in -(2^(W - 2)) .. 2^(W - 2) - 1 BY Units
  <2> QED BY <2>1, <2>2 DEF Init, InRangeHeadroom
<1> QED BY <1>1, HeadroomStep, Invariant, PTL DEF Spec

(***************************************************************************)
(* RoundTripInRange: the codec is lossless without a condition for the     *)
(* streams it is made for: whatever is decoded of samples within their     *)
(* declared depth is what was encoded (encoder.rs:50-53).                  *)
(***************************************************************************)
THEOREM RoundTripInRange == Spec => [](InRange => AnyPcmRoundTrips)
<1>1. Lossless /\ InRangeHeadroom => (InRange => AnyPcmRoundTrips)
  BY DEF Lossless, InRangeHeadroom, AnyPcmRoundTrips
<1> QED BY <1>1, LosslessCorrect, InRangeHeadroomCorrect, PTL

-----------------------------------------------------------------------------
(***************************************************************************)
(* The events of some kinds and one channel.                               *)
(***************************************************************************)
LEMMA NatWellFounded ==
  \E R : /\ IsWellFoundedOn(R, Nat)
         /\ \A x, y \in Nat : <<x, y>> \in R <=> x < y
<1> DEFINE R == OpToRel(<,Nat)
<1>1. IsWellFoundedOn(R, Nat) BY NatLessThanWellFounded
<1>2. R = {p \in Nat \X Nat : p[1] < p[2]} BY DEF OpToRel
<1>3. \A x, y \in Nat : <<x, y>> \in R <=> x < y
  <2> HIDE DEF R
  <2> QED BY <1>2
<1> HIDE DEF R
<1>4. QED BY <1>1, <1>3

LEMMA SetInduction ==
  ASSUME NEW S, 0 \in S, \A n \in Nat : n \in S => n + 1 \in S
  PROVE  \A n \in Nat : n \in S
<1> SUFFICES ASSUME ~(\A n \in Nat : n \in S) PROVE FALSE OBVIOUS
<1> DEFINE B == {n \in Nat : n \notin S}
<1>1. B \subseteq Nat /\ B # {} OBVIOUS
<1>2. PICK R : IsWellFoundedOn(R, Nat) /\ \A x, y \in Nat : <<x, y>> \in R <=> x < y
  BY NatWellFounded
<1> HIDE DEF B
<1>3. PICK m \in B : \A y \in B : ~(<<y, m>> \in R) BY <1>1, <1>2, WFMin
<1> USE DEF B
<1>4. m \in Nat /\ m \notin S /\ m # 0 BY <1>3
<1>5. m - 1 \in Nat /\ m - 1 < m /\ (m - 1) + 1 = m BY <1>4
<1>6. m - 1 \in S BY <1>2, <1>3, <1>4, <1>5
<1>7. QED BY <1>4, <1>5, <1>6

\* An event that is looked for, and what one event makes of those kept so far.
Wanted(t, kinds, c) == t.ev \in kinds /\ t.channel = c
Kept(q, t, kinds, c) == IF Wanted(t, kinds, c) THEN Append(q, t) ELSE q

\* g keeps the events of the tape s one by one.
Keeps(g, s, kinds, c) ==
  \A n \in 0 .. Len(s) : g[n] = IF n = 0 THEN <<>> ELSE Kept(g[n - 1], s[n], kinds, c)

\* Events, of any tape.
Of(s, kinds, c) ==
  LET kept[n \in 0 .. Len(s)] ==
        IF n = 0 THEN <<>>
        ELSE IF s[n].ev \in kinds /\ s[n].channel = c THEN Append(kept[n - 1], s[n])
        ELSE kept[n - 1]
  IN  kept[Len(s)]

LEMMA KeepsExist ==
  ASSUME NEW T, NEW s \in Seq(T), NEW kinds, NEW c
  PROVE  \E g \in [0 .. Len(s) -> Seq(T)] : Keeps(g, s, kinds, c)
<1> DEFINE Upto(n, g) == \A i \in 0 .. n :
             g[i] = IF i = 0 THEN <<>> ELSE Kept(g[i - 1], s[i], kinds, c)
           Has == {n \in Nat : n <= Len(s) => \E g \in [0 .. Len(s) -> Seq(T)] : Upto(n, g)}
<1>1. Len(s) \in Nat /\ \A i \in 1 .. Len(s) : s[i] \in T OBVIOUS
<1>2. 0 \in Has
  <2>1. [i \in 0 .. Len(s) |-> <<>>] \in [0 .. Len(s) -> Seq(T)] OBVIOUS
  <2>2. Upto(0, [i \in 0 .. Len(s) |-> <<>>]) BY <1>1
  <2>3. QED BY <2>1, <2>2
<1>3. ASSUME NEW n \in Nat, n \in Has PROVE n + 1 \in Has
  <2>1. SUFFICES ASSUME n + 1 <= Len(s)
                 PROVE  \E g \in [0 .. Len(s) -> Seq(T)] : Upto(n + 1, g)
    OBVIOUS
  <2>2. n <= Len(s) /\ n \in 0 .. Len(s) /\ n + 1 \in 0 .. Len(s) /\ n + 1 \in 1 .. Len(s)
    BY <1>1, <2>1
  <2>3. PICK g \in [0 .. Len(s) -> Seq(T)] : Upto(n, g) BY <1>3, <2>2
  <2>4. PICK v : v = Kept(g[n], s[n + 1], kinds, c) OBVIOUS
  <2>5. v \in Seq(T)
    <3>1. g[n] \in Seq(T) /\ s[n + 1] \in T BY <1>1, <2>2
    <3>2. QED BY <2>4, <3>1 DEF Kept
  <2>6. PICK k : k = [g EXCEPT ![n + 1] = v] OBVIOUS
  <2>7. /\ k \in [0 .. Len(s) -> Seq(T)] /\ k[n + 1] = v
        /\ \A i \in 0 .. n : k[i] = g[i]
    BY <1>1, <2>2, <2>5, <2>6
  <2>8. ASSUME NEW i \in 0 .. n + 1
        PROVE  k[i] = IF i = 0 THEN <<>> ELSE Kept(k[i - 1], s[i], kinds, c)
    <3>1. CASE i = n + 1
      <4>1. i # 0 /\ i - 1 = n /\ n \in 0 .. n BY <3>1
      <4>2. k[n] = g[n] BY <2>7, <4>1
      <4>3. QED BY <2>4, <2>7, <3>1, <4>1, <4>2
    <3>2. CASE i # n + 1
      <4>1. i \in 0 .. n /\ (i # 0 => i - 1 \in 0 .. n) BY <3>2
      <4>2. k[i] = g[i] /\ (i # 0 => k[i - 1] = g[i - 1]) BY <2>7, <4>1
      <4>3. QED BY <2>3, <4>1, <4>2
    <3>3. QED BY <3>1, <3>2
  <2>9. QED BY <2>7, <2>8
<1>4. \A n \in Nat : n \in Has
  <2> HIDE DEF Has
  <2>1. QED BY <1>2, <1>3, SetInduction
<1>5. Len(s) \in Has /\ Len(s) <= Len(s)
  <2> HIDE DEF Has
  <2>1. Len(s) \in Has BY <1>1, <1>4
  <2>2. QED BY <1>1, <2>1
<1>6. PICK g \in [0 .. Len(s) -> Seq(T)] : Upto(Len(s), g) BY <1>5
<1>7. QED BY <1>6 DEF Keeps

\* Events yields what any such g keeps at the end.
YieldsKept(s, T, kinds, c) ==
  \E g \in [0 .. Len(s) -> Seq(T)] : Keeps(g, s, kinds, c) /\ Of(s, kinds, c) = g[Len(s)]

LEMMA OfKeeps ==
  ASSUME NEW T, NEW s \in Seq(T), NEW kinds, NEW c
  PROVE  YieldsKept(s, T, kinds, c)
<1> DEFINE kept == CHOOSE kept : kept = [n \in 0 .. Len(s) |->
        IF n = 0 THEN <<>>
        ELSE IF s[n].ev \in kinds /\ s[n].channel = c THEN Append(kept[n - 1], s[n])
        ELSE kept[n - 1]]
<1>1. Of(s, kinds, c) = kept[Len(s)] BY Zenon DEF Of
<1>2. \E g : g = [n \in 0 .. Len(s) |->
        IF n = 0 THEN <<>>
        ELSE IF s[n].ev \in kinds /\ s[n].channel = c THEN Append(g[n - 1], s[n])
        ELSE g[n - 1]]
  <2>1. PICK g \in [0 .. Len(s) -> Seq(T)] : Keeps(g, s, kinds, c) BY KeepsExist
  <2>2. g = [n \in 0 .. Len(s) |-> g[n]] OBVIOUS
  <2>3. \A n \in 0 .. Len(s) : g[n] =
        IF n = 0 THEN <<>>
        ELSE IF s[n].ev \in kinds /\ s[n].channel = c THEN Append(g[n - 1], s[n])
        ELSE g[n - 1]
    BY <2>1 DEF Keeps, Kept, Wanted
  <2>4. QED BY <2>2, <2>3
<1>3. kept = [n \in 0 .. Len(s) |->
        IF n = 0 THEN <<>>
        ELSE IF s[n].ev \in kinds /\ s[n].channel = c THEN Append(kept[n - 1], s[n])
        ELSE kept[n - 1]]
  BY <1>2, Zenon
<1> HIDE DEF kept
<1>4. Keeps(kept, s, kinds, c)
  <2>1. \A n \in 0 .. Len(s) : kept[n] =
        IF n = 0 THEN <<>>
        ELSE IF s[n].ev \in kinds /\ s[n].channel = c THEN Append(kept[n - 1], s[n])
        ELSE kept[n - 1]
    BY <1>3
  <2>2. QED BY <2>1 DEF Keeps, Kept, Wanted
<1>5. kept \in [0 .. Len(s) -> Seq(T)]
  <2> DEFINE Typed == {n \in Nat : n <= Len(s) => kept[n] \in Seq(T)}
  <2>1. Len(s) \in Nat /\ \A i \in 1 .. Len(s) : s[i] \in T OBVIOUS
  <2>2. 0 \in Typed
    <3>1. 0 \in 0 .. Len(s) BY <2>1
    <3>2. kept[0] = <<>> BY <1>4, <3>1 DEF Keeps
    <3>3. kept[0] \in Seq(T) BY <3>2
    <3>4. QED BY <3>3
  <2>3. ASSUME NEW n \in Nat, n \in Typed PROVE n + 1 \in Typed
    <3>1. SUFFICES ASSUME n + 1 <= Len(s) PROVE kept[n + 1] \in Seq(T) OBVIOUS
    <3>2. n <= Len(s) /\ n + 1 \in 0 .. Len(s) /\ n + 1 \in 1 .. Len(s) /\ n + 1 # 0
          /\ (n + 1) - 1 = n
      BY <2>1, <3>1
    <3>3. kept[n + 1] = Kept(kept[n], s[n + 1], kinds, c) BY <1>4, <3>2 DEF Keeps
    <3>4. kept[n] \in Seq(T) /\ s[n + 1] \in T BY <2>1, <2>3, <3>2
    <3>5. QED BY <3>3, <3>4 DEF Kept
  <2>4. \A n \in Nat : n \in Typed
    <3> HIDE DEF Typed
    <3>1. QED BY <2>2, <2>3, SetInduction
  <2>5. \A n \in 0 .. Len(s) : kept[n] \in Seq(T) BY <2>1, <2>4
  <2>6. kept = [n \in 0 .. Len(s) |-> kept[n]] BY <1>3
  <2>7. QED BY <2>5, <2>6
<1>6. QED BY <1>1, <1>4, <1>5 DEF YieldsKept

\* There is only one.
LEMMA KeepsSame ==
  ASSUME NEW s, NEW t, NEW f, NEW g, NEW kinds, NEW c, NEW m \in Nat,
         Len(s) \in Nat, Len(t) \in Nat, m <= Len(s), m <= Len(t),
         \A i \in 1 .. m : s[i] = t[i],
         Keeps(f, s, kinds, c), Keeps(g, t, kinds, c)
  PROVE  f[m] = g[m]
<1> DEFINE Same == {n \in Nat : n <= m => f[n] = g[n]}
<1>1. 0 \in Same
  <2>1. 0 \in 0 .. Len(s) /\ 0 \in 0 .. Len(t) OBVIOUS
  <2>2. f[0] = <<>> /\ g[0] = <<>> BY <2>1 DEF Keeps
  <2>3. QED BY <2>2
<1>2. ASSUME NEW n \in Nat, n \in Same PROVE n + 1 \in Same
  <2>1. SUFFICES ASSUME n + 1 <= m PROVE f[n + 1] = g[n + 1] OBVIOUS
  <2>2. /\ n <= m /\ n + 1 \in 0 .. Len(s) /\ n + 1 \in 0 .. Len(t) /\ n + 1 # 0
        /\ n + 1 \in 1 .. m /\ (n + 1) - 1 = n
    BY <2>1
  <2>3. f[n + 1] = Kept(f[n], s[n + 1], kinds, c) BY <2>2 DEF Keeps
  <2>4. g[n + 1] = Kept(g[n], t[n + 1], kinds, c) BY <2>2 DEF Keeps
  <2>5. f[n] = g[n] /\ s[n + 1] = t[n + 1] BY <1>2, <2>2
  <2>6. QED BY <2>3, <2>4, <2>5
<1>3. \A n \in Nat : n \in Same
  <2> HIDE DEF Same
  <2>1. QED BY <1>1, <1>2, SetInduction
<1>4. QED BY <1>3

\* One event more.
Listed(s) == \E T : s \in Seq(T)

LEMMA OfAppend ==
  ASSUME NEW s, Listed(s), NEW t
  PROVE  /\ Listed(Append(s, t))
         /\ \A kinds, c : /\ Of(Append(s, t), kinds, c) = Kept(Of(s, kinds, c), t, kinds, c)
                          /\ Listed(Of(s, kinds, c))
<1>1. PICK T : s \in Seq(T) BY DEF Listed
<1>2. PICK U : U = T \cup {t} OBVIOUS
<1>3. PICK u : u = Append(s, t) OBVIOUS
<1>4. s \in Seq(U)
  <2>1. Len(s) \in Nat /\ s \in [1 .. Len(s) -> T] BY <1>1
  <2>2. s \in [1 .. Len(s) -> U] BY <1>2, <2>1
  <2>3. QED BY <1>1, <1>2, <2>1, <2>2
<1>5. /\ u \in Seq(U) /\ Len(s) \in Nat /\ Len(u) = Len(s) + 1 /\ u[Len(s) + 1] = t
      /\ \A i \in 1 .. Len(s) : u[i] = s[i]
  <2>1. t \in U BY <1>2
  <2>2. QED BY <1>3, <1>4, <2>1
<1>6. ASSUME NEW kinds, NEW c
      PROVE  Of(u, kinds, c) = Kept(Of(s, kinds, c), t, kinds, c) /\ Listed(Of(s, kinds, c))
  <2>1. PICK f \in [0 .. Len(s) -> Seq(U)] :
          Keeps(f, s, kinds, c) /\ Of(s, kinds, c) = f[Len(s)]
    <3>1. YieldsKept(s, U, kinds, c) BY <1>4, OfKeeps
    <3>2. QED BY <3>1 DEF YieldsKept
  <2>2. PICK g \in [0 .. Len(u) -> Seq(U)] :
          Keeps(g, u, kinds, c) /\ Of(u, kinds, c) = g[Len(u)]
    <3>1. YieldsKept(u, U, kinds, c) BY <1>5, OfKeeps
    <3>2. QED BY <3>1 DEF YieldsKept
  <2>3. g[Len(u)] = Kept(g[Len(s)], t, kinds, c)
    <3>1. Len(u) \in 0 .. Len(u) /\ Len(u) # 0 /\ Len(u) - 1 = Len(s) BY <1>5
    <3>2. g[Len(u)] = Kept(g[Len(u) - 1], u[Len(u)], kinds, c) BY <2>2, <3>1 DEF Keeps
    <3>3. u[Len(u)] = t BY <1>5
    <3>4. QED BY <3>1, <3>2, <3>3
  <2>4. f[Len(s)] = g[Len(s)]
    <3>1. Len(s) <= Len(s) /\ Len(s) <= Len(u) /\ Len(u) \in Nat
          /\ \A i \in 1 .. Len(s) : s[i] = u[i]
      BY <1>5
    <3>2. QED BY <1>5, <2>1, <2>2, <3>1, KeepsSame
  <2>5. Of(s, kinds, c) \in Seq(U)
    <3>1. Len(s) \in 0 .. Len(s) BY <1>5
    <3>2. QED BY <2>1, <3>1
  <2>6. QED BY <2>1, <2>2, <2>3, <2>4, <2>5 DEF Listed
<1>7. Listed(u) BY <1>5 DEF Listed
<1>8. QED BY <1>3, <1>6, <1>7

LEMMA OfNothing == Listed(<<>>) /\ \A kinds, c : Of(<<>>, kinds, c) = <<>>
<1>1. PICK s : s = <<>> OBVIOUS
<1>2. s \in Seq({}) /\ Len(s) = 0 BY <1>1
<1>3. ASSUME NEW kinds, NEW c PROVE Of(s, kinds, c) = <<>>
  <2> DEFINE None == {}
  <2> HIDE DEF None
  <2>0. s \in Seq(None) BY <1>2 DEF None
  <2>1. PICK g \in [0 .. Len(s) -> Seq(None)] :
          Keeps(g, s, kinds, c) /\ Of(s, kinds, c) = g[Len(s)]
    BY <2>0, OfKeeps DEF YieldsKept
  <2>2. 0 \in 0 .. Len(s) BY <1>2
  <2>3. g[0] = <<>> BY <2>1, <2>2 DEF Keeps
  <2>4. QED BY <1>2, <2>1, <2>3
<1>4. QED BY <1>1, <1>2, <1>3 DEF Listed

LEMMA OfSome ==
  ASSUME NEW T, NEW s \in Seq(T), NEW kinds, NEW c, NEW p \in Nat, NEW only,
         p # 0 => p <= Len(s) /\ only = <<s[p]>>,
         p = 0 => only = <<>>,
         \A i \in 1 .. Len(s) : Wanted(s[i], kinds, c) <=> i = p
  PROVE  Of(s, kinds, c) = only
<1>1. Len(s) \in Nat OBVIOUS
<1>2. PICK g : Keeps(g, s, kinds, c) /\ Of(s, kinds, c) = g[Len(s)]
  <2>1. YieldsKept(s, T, kinds, c) BY OfKeeps
  <2>2. QED BY <2>1 DEF YieldsKept
<1> DEFINE Right == {n \in Nat : n <= Len(s) =>
                       g[n] = IF p # 0 /\ p <= n THEN <<s[p]>> ELSE <<>>}
<1>3. 0 \in Right
  <2>1. 0 \in 0 .. Len(s) BY <1>1
  <2>2. g[0] = <<>> BY <1>2, <2>1 DEF Keeps
  <2>3. QED BY <2>2
<1>4. ASSUME NEW n \in Nat, n \in Right PROVE n + 1 \in Right
  <2>1. SUFFICES ASSUME n + 1 <= Len(s)
                 PROVE  g[n + 1] = IF p # 0 /\ p <= n + 1 THEN <<s[p]>> ELSE <<>>
    OBVIOUS
  <2>2. n <= Len(s) /\ n + 1 \in 0 .. Len(s) /\ n + 1 \in 1 .. Len(s) /\ n + 1 # 0
        /\ (n + 1) - 1 = n
    BY <1>1, <2>1
  <2>3. g[n + 1] = Kept(g[n], s[n + 1], kinds, c) BY <1>2, <2>2 DEF Keeps
  <2>4. g[n] = IF p # 0 /\ p <= n THEN <<s[p]>> ELSE <<>> BY <1>4, <2>2
  <2>5. CASE p = n + 1
    <3>1. g[n] = <<>> /\ Wanted(s[n + 1], kinds, c) BY <2>2, <2>4, <2>5
    <3>2. g[n + 1] = Append(<<>>, s[n + 1]) BY <2>3, <3>1 DEF Kept
    <3>3. QED BY <2>5, <3>2
  <2>6. CASE p # n + 1
    <3>1. ~Wanted(s[n + 1], kinds, c) BY <2>2, <2>6
    <3>2. g[n + 1] = g[n] BY <2>3, <3>1 DEF Kept
    <3>3. p <= n <=> p <= n + 1 BY <2>6
    <3>4. QED BY <2>4, <3>2, <3>3
  <2>7. QED BY <2>5, <2>6
<1>5. \A n \in Nat : n \in Right
  <2> HIDE DEF Right
  <2>1. QED BY <1>3, <1>4, SetInduction
<1>6. Len(s) \in Right
  <2> HIDE DEF Right
  <2>1. QED BY <1>1, <1>5
<1>7. g[Len(s)] = IF p # 0 /\ p <= Len(s) THEN <<s[p]>> ELSE <<>> BY <1>1, <1>6
<1>8. QED BY <1>2, <1>7

-----------------------------------------------------------------------------
(***************************************************************************)
(* What the events of one channel tell after m rows, when its state is st. *)
(***************************************************************************)

\* TapeReplays, of the i-th row.
Replays(K, R, P, A, Q, B, n, c, i, pr) ==
  /\ R[i].step = (i - 1) * n + c
  /\ R[i].values.k = TailWidth(K[i].values, R[i].values.ones)
  /\ K[i + 1].values = EncoderNext(K[i].values, R[i].values.residual)
  /\ P[i].values = IF i = 1 THEN Filter(LmsInit(pr)) ELSE Q[i - 1].values.filter
  /\ Q[i].values.error = IF i = 1 THEN 0 ELSE R[i - 1].values.residual
  /\ A[i].values.predicted =
       Prediction([dl |-> P[i].values[1], dx |-> P[i].values[2], qm |-> P[i].values[3],
                   error |-> Q[i].values.error])
  /\ A[i].values.error = R[i].values.residual
  /\ B[i].values.residual = A[i].values.after
  /\ B[i].values.prev = IF i = 1 THEN 0 ELSE B[i - 1].values.after

Told(K, R, P, A, Q, B, n, c, m, st, pr) ==
  /\ Len(K) = m + 1 /\ Len(R) = m /\ Len(P) = m /\ Len(A) = m /\ Len(Q) = m /\ Len(B) = m
  /\ \A i \in 1 .. m : Replays(K, R, P, A, Q, B, n, c, i, pr)
  /\ K[m + 1].values = st.rice
  /\ Filter(st.lms) = IF m = 0 THEN Filter(LmsInit(pr)) ELSE Q[m].values.filter
  /\ st.lms.error = IF m = 0 THEN 0 ELSE R[m].values.residual
  /\ st.prev = IF m = 0 THEN 0 ELSE B[m].values.after

\* StepEvents, event by event.
StepTold(r, k, p, a, q, b, st, cw, place) ==
  /\ r.step = place
  /\ r.values.k = TailWidth(st.rice, cw.ones) /\ r.values.ones = cw.ones
  /\ r.values.residual = Residual(st.rice, cw)
  /\ k.values = DecoderNext(st.rice, cw)
  /\ p.values = Filter(st.lms)
  /\ a.values.predicted = Signed(LmsSample(st.lms, Residual(st.rice, cw)) - Residual(st.rice, cw))
  /\ a.values.error = Residual(st.rice, cw)
  /\ a.values.after = DecodedA(st, cw)
  /\ q.values.error = st.lms.error
  /\ q.values.filter = Filter(Advanced(st.lms, Residual(st.rice, cw), DecodedA(st, cw)))
  /\ b.values.prev = st.prev /\ b.values.residual = DecodedA(st, cw)
  /\ b.values.after = DecodedB(st, cw)

\* q2 is q with t behind it.
Grown(q, q2, t, m) ==
  /\ Len(q) = m /\ Len(q2) = m + 1 /\ q2[m + 1] = t
  /\ \A i \in 1 .. m : q2[i] = q[i]

LEMMA Grows ==
  ASSUME NEW q, Listed(q), NEW t, NEW m, Len(q) = m
  PROVE  m \in Nat /\ Grown(q, Append(q, t), t, m)
<1>1. PICK T : q \in Seq(T) BY DEF Listed
<1>2. PICK U : U = T \cup {t} OBVIOUS
<1>3. q \in Seq(U) /\ t \in U
  <2>1. Len(q) \in Nat /\ q \in [1 .. Len(q) -> T] BY <1>1
  <2>2. q \in [1 .. Len(q) -> U] BY <1>2, <2>1
  <2>3. QED BY <1>1, <1>2, <2>1, <2>2
<1>4. QED BY <1>3 DEF Grown

LEMMA PredictionRecovered ==
  ASSUME NEW lms \in LmsState, NEW e \in Ints
  PROVE  Signed(LmsSample(lms, e) - e) = Prediction(lms)
<1>1. PICK p : p = Prediction(lms) OBVIOUS
<1>2. p \in Ints
  <2>1. Shift \in 0 .. W /\ Shift - 1 \in 0 .. W BY PredictorAssumption, WordWidth
  <2>2. 2^Shift \in Nat \ {0} /\ 2^(Shift - 1) \in Nat BY <2>1, PowersOfTwo
  <2>3. Dot(lms.dl, Weights(lms)) \in Int BY WeightsTyped, DotTyped DEF LmsState
  <2>4. 2^(Shift - 1) + Dot(lms.dl, Weights(lms)) \in Int BY <2>2, <2>3
  <2>5. PICK x : x = Signed(2^(Shift - 1) + Dot(lms.dl, Weights(lms))) OBVIOUS
  <2>6. x \in Ints /\ x \in Int BY <2>4, <2>5, SignedOff, IntsAreIntegers
  <2>7. PICK d : d = 2^Shift OBVIOUS
  <2>8. p = x \div d /\ d \in Nat \ {0} BY <1>1, <2>2, <2>5, <2>7 DEF Prediction, ShiftedRight
  <2>9. PICK h : h = 2^(W - 1) OBVIOUS
  <2>10. h \in Nat \ {0} /\ Ints = -h .. h - 1 BY <2>9, Modulus DEF Ints, LeastInt
  <2>11. x \div d \in -h .. h - 1
    <3>1. PICK y : y = x \div d OBVIOUS
    <3>2. PICK r : r = x % d OBVIOUS
    <3>3. r \in 0 .. d - 1 /\ x = y * d + r /\ y \in Int BY <2>6, <2>8, <3>1, <3>2, DivMod
    <3>4. x \in -h .. h - 1 BY <2>6, <2>10
    <3>5. y < h
      <4>1. SUFFICES ASSUME y >= h PROVE FALSE BY <2>10, <3>3
      <4>2. PICK z \in Nat : y = z BY <2>10, <3>3, <4>1
      <4>3. z * d >= z BY <2>8, SMT
      <4>4. z * d \in Int BY <2>8, SMT
      <4>5. QED BY <2>10, <3>3, <3>4, <4>1, <4>2, <4>3, <4>4
    <3>6. y >= -h
      <4>1. SUFFICES ASSUME y < -h PROVE FALSE BY <2>10, <3>3
      <4>2. PICK z \in Nat : z = -y - 1 BY <2>10, <3>3, <4>1
      <4>3. z >= h /\ y = -(z + 1) BY <2>10, <3>3, <4>1, <4>2
      <4>4. z * d >= z /\ z * d \in Int BY <2>8, SMT
      <4>5. y * d = -(z * d) - d BY <2>8, <4>2, <4>3, SMT
      <4>6. QED BY <2>8, <2>10, <3>3, <3>4, <4>3, <4>4, <4>5
    <3>7. QED BY <3>1, <3>3, <3>5, <3>6, <2>10
  <2>12. QED BY <2>8, <2>10, <2>11
<1>3. p \in Int /\ e \in Int BY <1>2, IntsAreIntegers
<1>4. e + p = p - (-e) /\ -e \in Int BY <1>3
<1>5. LmsSample(lms, e) = Signed(p - (-e)) BY <1>1, <1>4 DEF LmsSample
<1>6. PICK s : s = Signed(p - (-e)) OBVIOUS
<1>7. s \in Int
  <2>1. p - (-e) \in Int BY <1>3
  <2>2. QED BY <1>6, <2>1, SignedOff, IntsAreIntegers
<1>8. s - e = s + (-e) BY <1>3, <1>7
<1>9. Signed(s + (-e)) = p BY <1>2, <1>4, <1>6, SignedAddBack
<1>10. QED BY <1>1, <1>5, <1>6, <1>8, <1>9

LEMMA ToldMore ==
  ASSUME NEW K, NEW R, NEW P, NEW A, NEW Q, NEW B, NEW n \in Nat, NEW c \in Nat, NEW m \in Nat,
         NEW st \in ChannelState, NEW pr,
         Told(K, R, P, A, Q, B, n, c, m, st, pr),
         NEW cw \in Codewords,
         DecoderNext(st.rice, cw) = EncoderNext(st.rice, Residual(st.rice, cw)),
         NEW r, NEW k, NEW p, NEW a, NEW q, NEW b,
         StepTold(r, k, p, a, q, b, st, cw, m * n + c),
         NEW K2, NEW R2, NEW P2, NEW A2, NEW Q2, NEW B2,
         Grown(K, K2, k, m + 1), Grown(R, R2, r, m), Grown(P, P2, p, m),
         Grown(A, A2, a, m), Grown(Q, Q2, q, m), Grown(B, B2, b, m)
  PROVE  Told(K2, R2, P2, A2, Q2, B2, n, c, m + 1, Decoded(st, cw), pr)
<1>1. /\ Len(K2) = (m + 1) + 1 /\ Len(R2) = m + 1 /\ Len(P2) = m + 1
      /\ Len(A2) = m + 1 /\ Len(Q2) = m + 1 /\ Len(B2) = m + 1
  BY DEF Grown
<1>2. /\ K2[(m + 1) + 1] = k /\ R2[m + 1] = r /\ P2[m + 1] = p /\ A2[m + 1] = a
      /\ Q2[m + 1] = q /\ B2[m + 1] = b
  BY DEF Grown
<1>3. /\ \A i \in 1 .. m + 1 : K2[i] = K[i]
      /\ \A i \in 1 .. m : /\ R2[i] = R[i] /\ P2[i] = P[i] /\ A2[i] = A[i]
                           /\ Q2[i] = Q[i] /\ B2[i] = B[i]
  BY DEF Grown
<1>4. ASSUME NEW i \in 1 .. m PROVE Replays(K2, R2, P2, A2, Q2, B2, n, c, i, pr)
  <2>1. Replays(K, R, P, A, Q, B, n, c, i, pr) BY DEF Told
  <2>2. i \in 1 .. m + 1 /\ i + 1 \in 1 .. m + 1 /\ (i # 1 => i - 1 \in 1 .. m) OBVIOUS
  <2>3. /\ K2[i] = K[i] /\ K2[i + 1] = K[i + 1] /\ R2[i] = R[i] /\ P2[i] = P[i]
        /\ A2[i] = A[i] /\ Q2[i] = Q[i] /\ B2[i] = B[i]
    BY <1>3, <2>2
  <2>4. i # 1 => Q2[i - 1] = Q[i - 1] /\ R2[i - 1] = R[i - 1] /\ B2[i - 1] = B[i - 1]
    BY <1>3, <2>2
  <2>5. QED BY <2>1, <2>3, <2>4 DEF Replays
<1>5. st.rice \in RiceState /\ st.lms \in LmsState /\ st.prev \in Ints BY DEF ChannelState
<1>6. Residual(st.rice, cw) \in Ints BY <1>5, DecoderTyped
<1>7. /\ K[m + 1].values = st.rice
      /\ Filter(st.lms) = IF m = 0 THEN Filter(LmsInit(pr)) ELSE Q[m].values.filter
      /\ st.lms.error = IF m = 0 THEN 0 ELSE R[m].values.residual
      /\ st.prev = IF m = 0 THEN 0 ELSE B[m].values.after
  BY DEF Told
<1>8. K2[m + 1].values = st.rice
  <2>1. m + 1 \in 1 .. m + 1 OBVIOUS
  <2>2. QED BY <1>3, <1>7, <2>1
<1>9. /\ Filter(st.lms) = IF m + 1 = 1 THEN Filter(LmsInit(pr)) ELSE Q2[(m + 1) - 1].values.filter
      /\ st.lms.error = IF m + 1 = 1 THEN 0 ELSE R2[(m + 1) - 1].values.residual
      /\ st.prev = IF m + 1 = 1 THEN 0 ELSE B2[(m + 1) - 1].values.after
  <2>1. CASE m = 0 BY <1>7, <2>1
  <2>2. CASE m # 0
    <3>1. m \in 1 .. m /\ (m + 1) - 1 = m /\ m + 1 # 1 BY <2>2
    <3>2. Q2[m] = Q[m] /\ R2[m] = R[m] /\ B2[m] = B[m] BY <1>3, <3>1
    <3>3. QED BY <1>7, <2>2, <3>1, <3>2
  <2>3. QED BY <2>1, <2>2
<1>10. Replays(K2, R2, P2, A2, Q2, B2, n, c, m + 1, pr)
  <2>1. R2[m + 1].step = ((m + 1) - 1) * n + c
    <3>1. (m + 1) - 1 = m OBVIOUS
    <3>2. QED BY <1>2, <3>1 DEF StepTold
  <2>2. R2[m + 1].values.k = TailWidth(K2[m + 1].values, R2[m + 1].values.ones)
    BY <1>2, <1>8 DEF StepTold
  <2>3. K2[(m + 1) + 1].values = EncoderNext(K2[m + 1].values, R2[m + 1].values.residual)
    BY <1>2, <1>8 DEF StepTold
  <2>4. P2[m + 1].values = Filter(st.lms) /\ Q2[m + 1].values.error = st.lms.error
        /\ B2[m + 1].values.prev = st.prev
    BY <1>2 DEF StepTold
  <2>5. A2[m + 1].values.predicted = Prediction(st.lms)
    BY <1>2, <1>5, <1>6, PredictionRecovered DEF StepTold
  <2>6. st.lms = [dl |-> P2[m + 1].values[1], dx |-> P2[m + 1].values[2],
                  qm |-> P2[m + 1].values[3], error |-> Q2[m + 1].values.error]
    BY <1>5, <2>4 DEF Filter, LmsState
  <2>7. A2[m + 1].values.error = R2[m + 1].values.residual
        /\ B2[m + 1].values.residual = A2[m + 1].values.after
    BY <1>2 DEF StepTold
  <2>8. QED BY <1>9, <2>1, <2>2, <2>3, <2>4, <2>5, <2>6, <2>7 DEF Replays
<1>11. \A i \in 1 .. m + 1 : Replays(K2, R2, P2, A2, Q2, B2, n, c, i, pr)
  <2>1. ASSUME NEW i \in 1 .. m + 1 PROVE Replays(K2, R2, P2, A2, Q2, B2, n, c, i, pr)
    <3>1. CASE i = m + 1 BY <1>10, <3>1
    <3>2. CASE i # m + 1
      <4>1. i \in 1 .. m BY <3>2
      <4>2. QED BY <1>4, <4>1
    <3>3. QED BY <3>1, <3>2
  <2>2. QED BY <2>1
<1>12. /\ Decoded(st, cw).rice = DecoderNext(st.rice, cw)
       /\ Decoded(st, cw).lms = Advanced(st.lms, Residual(st.rice, cw), DecodedA(st, cw))
       /\ Decoded(st, cw).lms.error = Residual(st.rice, cw)
       /\ Decoded(st, cw).prev = DecodedB(st, cw)
  BY DEF Decoded, Advanced
<1>13. /\ K2[(m + 1) + 1].values = Decoded(st, cw).rice
       /\ Filter(Decoded(st, cw).lms) = Q2[m + 1].values.filter
       /\ Decoded(st, cw).lms.error = R2[m + 1].values.residual
       /\ Decoded(st, cw).prev = B2[m + 1].values.after
  BY <1>2, <1>12 DEF StepTold
<1>14. m + 1 # 0 OBVIOUS
<1>15. QED BY <1>1, <1>11, <1>13, <1>14 DEF Told

-----------------------------------------------------------------------------
(***************************************************************************)
(* What is added to the tape.                                              *)
(***************************************************************************)

\* The events of a channel, and those of the rows.
Story(s, c) ==
  [K |-> Of(s, {"RICE_K_INIT", "RICE_K_UPDATE"}, c), R |-> Of(s, {"RICE_DECODE"}, c),
   P |-> Of(s, {"LMS_PRE"}, c), A |-> Of(s, {"STAGE_A_PREDICT"}, c),
   Q |-> Of(s, {"LMS_POST"}, c), B |-> Of(s, {"STAGE_B_PREDICT"}, c)]
Mixed(s) == Of(s, {"DECORR_PRE"}, -1)
Played(s) == Of(s, {"PCM_OUT"}, -1)

LastOf(s) == s[Len(s)]

\* The channels t is not of hear nothing of it.
Unheard(s, s2, t) == \A c : c # t.channel => Story(s2, c) = Story(s, c)

LEMMA Silent ==
  ASSUME NEW s, Listed(s), NEW t, NEW s2, s2 = Append(s, t)
  PROVE  /\ Listed(s2) /\ s2 # <<>> /\ LastOf(s2) = t
         /\ Unheard(s, s2, t)
         /\ Mixed(s2) = Kept(Mixed(s), t, {"DECORR_PRE"}, -1)
         /\ Played(s2) = Kept(Played(s), t, {"PCM_OUT"}, -1)
         /\ Listed(Mixed(s)) /\ Listed(Played(s))
<1>1. /\ Listed(s2)
      /\ \A kinds, c : /\ Of(s2, kinds, c) = Kept(Of(s, kinds, c), t, kinds, c)
                       /\ Listed(Of(s, kinds, c))
  BY OfAppend
<1>2. s2 # <<>> /\ LastOf(s2) = t
  <2>1. PICK m : m = Len(s) OBVIOUS
  <2>2. m \in Nat /\ Grown(s, s2, t, m) BY <2>1, Grows
  <2>3. Len(s2) = m + 1 /\ s2[m + 1] = t BY <2>2 DEF Grown
  <2>4. Len(s2) # 0 BY <2>2, <2>3
  <2>5. QED BY <2>3, <2>4 DEF LastOf
<1>3. ASSUME NEW c, c # t.channel PROVE Story(s2, c) = Story(s, c)
  <2>1. \A kinds : Of(s2, kinds, c) = Of(s, kinds, c)
    <3>1. \A kinds : ~Wanted(t, kinds, c) BY <1>3 DEF Wanted
    <3>2. QED BY <1>1, <3>1 DEF Kept
  <2>2. QED BY <2>1 DEF Story
<1>4. QED BY <1>1, <1>2, <1>3 DEF Mixed, Played, Unheard

LEMMA Six ==
  ASSUME NEW s, Listed(s), NEW e1, NEW e2, NEW e3, NEW e4, NEW e5, NEW e6
  PROVE  s \o <<e1, e2, e3, e4, e5, e6>>
           = Append(Append(Append(Append(Append(Append(s, e1), e2), e3), e4), e5), e6)
<1>1. PICK T : s \in Seq(T) BY DEF Listed
<1>2. PICK U : U = T \cup {e1, e2, e3, e4, e5, e6} OBVIOUS
<1>3. s \in Seq(U)
  <2>1. Len(s) \in Nat /\ s \in [1 .. Len(s) -> T] BY <1>1
  <2>2. s \in [1 .. Len(s) -> U] BY <1>2, <2>1
  <2>3. QED BY <1>1, <1>2, <2>1, <2>2
<1>4. e1 \in U /\ e2 \in U /\ e3 \in U /\ e4 \in U /\ e5 \in U /\ e6 \in U BY <1>2
<1>5. ASSUME NEW q \in Seq(U), NEW e \in U PROVE s \o Append(q, e) = Append(s \o q, e)
  BY <1>3, <1>5
<1>6. /\ <<e1, e2, e3, e4, e5, e6>> = Append(<<e1, e2, e3, e4, e5>>, e6)
      /\ <<e1, e2, e3, e4, e5>> = Append(<<e1, e2, e3, e4>>, e5)
      /\ <<e1, e2, e3, e4>> = Append(<<e1, e2, e3>>, e4)
      /\ <<e1, e2, e3>> = Append(<<e1, e2>>, e3)
      /\ <<e1, e2>> = Append(<<e1>>, e2)
      /\ <<e1>> = Append(<<>>, e1)
  OBVIOUS
<1>7. PICK q0, q1, q2, q3, q4, q5 :
        /\ q0 = <<>> /\ q1 = <<e1>> /\ q2 = <<e1, e2>> /\ q3 = <<e1, e2, e3>>
        /\ q4 = <<e1, e2, e3, e4>> /\ q5 = <<e1, e2, e3, e4, e5>>
  OBVIOUS
<1>8. /\ q0 \in Seq(U) /\ q1 \in Seq(U) /\ q2 \in Seq(U) /\ q3 \in Seq(U)
      /\ q4 \in Seq(U) /\ q5 \in Seq(U)
  BY <1>4, <1>7
<1>9. s \o q0 = s BY <1>3, <1>7
<1>10. s \o q1 = Append(s, e1) BY <1>4, <1>5, <1>6, <1>7, <1>8, <1>9
<1>11. s \o q2 = Append(s \o q1, e2) BY <1>4, <1>5, <1>6, <1>7, <1>8
<1>12. s \o q3 = Append(s \o q2, e3) BY <1>4, <1>5, <1>6, <1>7, <1>8
<1>13. s \o q4 = Append(s \o q3, e4) BY <1>4, <1>5, <1>6, <1>7, <1>8
<1>14. s \o q5 = Append(s \o q4, e5) BY <1>4, <1>5, <1>6, <1>7, <1>8
<1>15. s \o Append(q5, e6) = Append(s \o q5, e6) BY <1>4, <1>5, <1>8
<1>16. QED BY <1>6, <1>7, <1>10, <1>11, <1>12, <1>13, <1>14, <1>15

\* A step's events are one of each kind, in its channel.
StepKinds(c, r, k, p, a, q, b) ==
  /\ r.ev = "RICE_DECODE" /\ k.ev = "RICE_K_UPDATE" /\ p.ev = "LMS_PRE"
  /\ a.ev = "STAGE_A_PREDICT" /\ q.ev = "LMS_POST" /\ b.ev = "STAGE_B_PREDICT"
  /\ r.channel = c /\ k.channel = c /\ p.channel = c
  /\ a.channel = c /\ q.channel = c /\ b.channel = c

\* Only channel c has heard anything.
Elsewhere(s, s2, c) == \A d : d # c => Story(s2, d) = Story(s, d)

\* s2 is s with a step of channel c behind it.
Heard(s, s2, c, r, k, p, a, q, b) ==
  /\ Listed(s2) /\ s2 # <<>> /\ LastOf(s2) = b
  /\ Elsewhere(s, s2, c)
  /\ Mixed(s2) = Mixed(s) /\ Played(s2) = Played(s)
  /\ Listed(Story(s, c).K) /\ Story(s2, c).K = Append(Story(s, c).K, k)
  /\ Listed(Story(s, c).R) /\ Story(s2, c).R = Append(Story(s, c).R, r)
  /\ Listed(Story(s, c).P) /\ Story(s2, c).P = Append(Story(s, c).P, p)
  /\ Listed(Story(s, c).A) /\ Story(s2, c).A = Append(Story(s, c).A, a)
  /\ Listed(Story(s, c).Q) /\ Story(s2, c).Q = Append(Story(s, c).Q, q)
  /\ Listed(Story(s, c).B) /\ Story(s2, c).B = Append(Story(s, c).B, b)

LEMMA Spoken ==
  ASSUME NEW s, Listed(s), NEW c \in Nat, NEW r, NEW k, NEW p, NEW a, NEW q, NEW b,
         StepKinds(c, r, k, p, a, q, b),
         NEW s2, s2 = s \o <<r, k, p, a, q, b>>
  PROVE  Heard(s, s2, c, r, k, p, a, q, b)
<1>1. PICK t1, t2, t3, t4, t5 :
        /\ t1 = Append(s, r) /\ t2 = Append(t1, k) /\ t3 = Append(t2, p)
        /\ t4 = Append(t3, a) /\ t5 = Append(t4, q)
  OBVIOUS
<1>2. PICK t6 : t6 = Append(t5, b) /\ s2 = t6
  <2>1. s2 = Append(t5, b) BY <1>1, Six
  <2>2. QED BY <2>1
<1>3. /\ Listed(t1) /\ \A kinds, d : Of(t1, kinds, d) = Kept(Of(s, kinds, d), r, kinds, d)
      /\ \A kinds, d : Listed(Of(s, kinds, d))
  BY <1>1, OfAppend
<1>4. Listed(t2) /\ \A kinds, d : Of(t2, kinds, d) = Kept(Of(t1, kinds, d), k, kinds, d)
  BY <1>1, <1>3, OfAppend
<1>5. Listed(t3) /\ \A kinds, d : Of(t3, kinds, d) = Kept(Of(t2, kinds, d), p, kinds, d)
  BY <1>1, <1>4, OfAppend
<1>6. Listed(t4) /\ \A kinds, d : Of(t4, kinds, d) = Kept(Of(t3, kinds, d), a, kinds, d)
  BY <1>1, <1>5, OfAppend
<1>7. Listed(t5) /\ \A kinds, d : Of(t5, kinds, d) = Kept(Of(t4, kinds, d), q, kinds, d)
  BY <1>1, <1>6, OfAppend
<1>8. Listed(s2) /\ \A kinds, d : Of(s2, kinds, d) = Kept(Of(t5, kinds, d), b, kinds, d)
  <2>1. Listed(t6) /\ \A kinds, d : Of(t6, kinds, d) = Kept(Of(t5, kinds, d), b, kinds, d)
    BY <1>2, <1>7, OfAppend
  <2>2. QED BY <1>2, <2>1
<1>9. s2 # <<>> /\ LastOf(s2) = b
  <2>1. t6 # <<>> /\ LastOf(t6) = b BY <1>2, <1>7, Silent
  <2>2. QED BY <1>2, <2>1
<1>10. ASSUME NEW d, d # c PROVE \A kinds : Of(s2, kinds, d) = Of(s, kinds, d)
  <2>1. ASSUME NEW kinds PROVE Of(s2, kinds, d) = Of(s, kinds, d)
    <3>1. /\ ~Wanted(r, kinds, d) /\ ~Wanted(k, kinds, d) /\ ~Wanted(p, kinds, d)
          /\ ~Wanted(a, kinds, d) /\ ~Wanted(q, kinds, d) /\ ~Wanted(b, kinds, d)
      BY <1>10 DEF Wanted, StepKinds
    <3>2. Of(t1, kinds, d) = Of(s, kinds, d) BY <1>3, <3>1 DEF Kept
    <3>3. Of(t2, kinds, d) = Of(s, kinds, d) BY <1>4, <3>1, <3>2 DEF Kept
    <3>4. Of(t3, kinds, d) = Of(s, kinds, d) BY <1>5, <3>1, <3>3 DEF Kept
    <3>5. Of(t4, kinds, d) = Of(s, kinds, d) BY <1>6, <3>1, <3>4 DEF Kept
    <3>6. Of(t5, kinds, d) = Of(s, kinds, d) BY <1>7, <3>1, <3>5 DEF Kept
    <3>7. QED BY <1>8, <3>1, <3>6 DEF Kept
  <2>2. QED BY <2>1
<1>11. Elsewhere(s, s2, c)
  <2>1. \A d : d # c => Story(s2, d) = Story(s, d) BY <1>10 DEF Story
  <2>2. QED BY <2>1 DEF Elsewhere
<1>12. Mixed(s2) = Mixed(s) /\ Played(s2) = Played(s)
  <2>1. -1 # c OBVIOUS
  <2>2. QED BY <1>10, <2>1 DEF Mixed, Played
<1> DEFINE Chain(kinds) ==
             /\ Of(t1, kinds, c) = IF "RICE_DECODE" \in kinds THEN Append(Of(s, kinds, c), r)
                                    ELSE Of(s, kinds, c)
             /\ Of(t2, kinds, c) = IF "RICE_K_UPDATE" \in kinds THEN Append(Of(t1, kinds, c), k)
                                    ELSE Of(t1, kinds, c)
             /\ Of(t3, kinds, c) = IF "LMS_PRE" \in kinds THEN Append(Of(t2, kinds, c), p)
                                    ELSE Of(t2, kinds, c)
             /\ Of(t4, kinds, c) = IF "STAGE_A_PREDICT" \in kinds THEN Append(Of(t3, kinds, c), a)
                                    ELSE Of(t3, kinds, c)
             /\ Of(t5, kinds, c) = IF "LMS_POST" \in kinds THEN Append(Of(t4, kinds, c), q)
                                    ELSE Of(t4, kinds, c)
             /\ Of(s2, kinds, c) = IF "STAGE_B_PREDICT" \in kinds THEN Append(Of(t5, kinds, c), b)
                                    ELSE Of(t5, kinds, c)
<1>13. ASSUME NEW kinds PROVE Chain(kinds)
  <2>1. Of(t1, kinds, c) = IF "RICE_DECODE" \in kinds THEN Append(Of(s, kinds, c), r)
                                    ELSE Of(s, kinds, c)
    <3>1. Of(t1, kinds, c) = Kept(Of(s, kinds, c), r, kinds, c) BY <1>3
    <3>2. r.ev = "RICE_DECODE" /\ r.channel = c BY DEF StepKinds
    <3>3. QED BY <3>1, <3>2 DEF Kept, Wanted
  <2>2. Of(t2, kinds, c) = IF "RICE_K_UPDATE" \in kinds THEN Append(Of(t1, kinds, c), k)
                                    ELSE Of(t1, kinds, c)
    <3>1. Of(t2, kinds, c) = Kept(Of(t1, kinds, c), k, kinds, c) BY <1>4
    <3>2. k.ev = "RICE_K_UPDATE" /\ k.channel = c BY DEF StepKinds
    <3>3. QED BY <3>1, <3>2 DEF Kept, Wanted
  <2>3. Of(t3, kinds, c) = IF "LMS_PRE" \in kinds THEN Append(Of(t2, kinds, c), p)
                                    ELSE Of(t2, kinds, c)
    <3>1. Of(t3, kinds, c) = Kept(Of(t2, kinds, c), p, kinds, c) BY <1>5
    <3>2. p.ev = "LMS_PRE" /\ p.channel = c BY DEF StepKinds
    <3>3. QED BY <3>1, <3>2 DEF Kept, Wanted
  <2>4. Of(t4, kinds, c) = IF "STAGE_A_PREDICT" \in kinds THEN Append(Of(t3, kinds, c), a)
                                    ELSE Of(t3, kinds, c)
    <3>1. Of(t4, kinds, c) = Kept(Of(t3, kinds, c), a, kinds, c) BY <1>6
    <3>2. a.ev = "STAGE_A_PREDICT" /\ a.channel = c BY DEF StepKinds
    <3>3. QED BY <3>1, <3>2 DEF Kept, Wanted
  <2>5. Of(t5, kinds, c) = IF "LMS_POST" \in kinds THEN Append(Of(t4, kinds, c), q)
                                    ELSE Of(t4, kinds, c)
    <3>1. Of(t5, kinds, c) = Kept(Of(t4, kinds, c), q, kinds, c) BY <1>7
    <3>2. q.ev = "LMS_POST" /\ q.channel = c BY DEF StepKinds
    <3>3. QED BY <3>1, <3>2 DEF Kept, Wanted
  <2>6. Of(s2, kinds, c) = IF "STAGE_B_PREDICT" \in kinds THEN Append(Of(t5, kinds, c), b)
                                    ELSE Of(t5, kinds, c)
    <3>1. Of(s2, kinds, c) = Kept(Of(t5, kinds, c), b, kinds, c) BY <1>8
    <3>2. b.ev = "STAGE_B_PREDICT" /\ b.channel = c BY DEF StepKinds
    <3>3. QED BY <3>1, <3>2 DEF Kept, Wanted
  <2>7. QED BY <2>1, <2>2, <2>3, <2>4, <2>5, <2>6
<1> HIDE DEF Chain
<1>15. Of(s2, {"RICE_K_INIT", "RICE_K_UPDATE"}, c) = Append(Of(s, {"RICE_K_INIT", "RICE_K_UPDATE"}, c), k)
  <2>1. PICK kinds : kinds = {"RICE_K_INIT", "RICE_K_UPDATE"} OBVIOUS
  <2>2. Chain(kinds) BY <1>13
  <2>3. Of(s2, kinds, c) = Append(Of(s, kinds, c), k) BY <2>1, <2>2 DEF Chain
  <2>4. QED BY <2>1, <2>3
<1>16. Of(s2, {"RICE_DECODE"}, c) = Append(Of(s, {"RICE_DECODE"}, c), r)
  <2>1. PICK kinds : kinds = {"RICE_DECODE"} OBVIOUS
  <2>2. Chain(kinds) BY <1>13
  <2>3. Of(s2, kinds, c) = Append(Of(s, kinds, c), r) BY <2>1, <2>2 DEF Chain
  <2>4. QED BY <2>1, <2>3
<1>17. Of(s2, {"LMS_PRE"}, c) = Append(Of(s, {"LMS_PRE"}, c), p)
  <2>1. PICK kinds : kinds = {"LMS_PRE"} OBVIOUS
  <2>2. Chain(kinds) BY <1>13
  <2>3. Of(s2, kinds, c) = Append(Of(s, kinds, c), p) BY <2>1, <2>2 DEF Chain
  <2>4. QED BY <2>1, <2>3
<1>18. Of(s2, {"STAGE_A_PREDICT"}, c) = Append(Of(s, {"STAGE_A_PREDICT"}, c), a)
  <2>1. PICK kinds : kinds = {"STAGE_A_PREDICT"} OBVIOUS
  <2>2. Chain(kinds) BY <1>13
  <2>3. Of(s2, kinds, c) = Append(Of(s, kinds, c), a) BY <2>1, <2>2 DEF Chain
  <2>4. QED BY <2>1, <2>3
<1>19. Of(s2, {"LMS_POST"}, c) = Append(Of(s, {"LMS_POST"}, c), q)
  <2>1. PICK kinds : kinds = {"LMS_POST"} OBVIOUS
  <2>2. Chain(kinds) BY <1>13
  <2>3. Of(s2, kinds, c) = Append(Of(s, kinds, c), q) BY <2>1, <2>2 DEF Chain
  <2>4. QED BY <2>1, <2>3
<1>20. Of(s2, {"STAGE_B_PREDICT"}, c) = Append(Of(s, {"STAGE_B_PREDICT"}, c), b)
  <2>1. PICK kinds : kinds = {"STAGE_B_PREDICT"} OBVIOUS
  <2>2. Chain(kinds) BY <1>13
  <2>3. Of(s2, kinds, c) = Append(Of(s, kinds, c), b) BY <2>1, <2>2 DEF Chain
  <2>4. QED BY <2>1, <2>3
<1>21. /\ Listed(Story(s, c).K) /\ Story(s2, c).K = Append(Story(s, c).K, k)
       /\ Listed(Story(s, c).R) /\ Story(s2, c).R = Append(Story(s, c).R, r)
       /\ Listed(Story(s, c).P) /\ Story(s2, c).P = Append(Story(s, c).P, p)
  BY <1>3, <1>15, <1>16, <1>17 DEF Story
<1>22. /\ Listed(Story(s, c).A) /\ Story(s2, c).A = Append(Story(s, c).A, a)
       /\ Listed(Story(s, c).Q) /\ Story(s2, c).Q = Append(Story(s, c).Q, q)
       /\ Listed(Story(s, c).B) /\ Story(s2, c).B = Append(Story(s, c).B, b)
  BY <1>3, <1>18, <1>19, <1>20 DEF Story
<1>23. QED BY <1>8, <1>9, <1>11, <1>12, <1>21, <1>22 DEF Heard

\* A tape with one tracker event per channel and none of the rest.
Silence(s, channels) ==
  /\ Listed(s) /\ s # <<>> /\ LastOf(s).ev # "FRAME_END"
  /\ Mixed(s) = <<>> /\ Played(s) = <<>>
  /\ \A c \in channels :
       /\ Len(Story(s, c).K) = 1 /\ Story(s, c).K[1].values = RiceInit
       /\ Story(s, c).R = <<>> /\ Story(s, c).P = <<>> /\ Story(s, c).A = <<>>
       /\ Story(s, c).Q = <<>> /\ Story(s, c).B = <<>>

\* The construction of the decoder.
LEMMA Begins ==
  ASSUME stream.nch \in Nat \ {0}, NEW f, NEW s, s = Append(InitEvents, FrameBegin(f))
  PROVE  Silence(s, Channels)
<1>1. PICK n \in Nat \ {0} : n = stream.nch OBVIOUS
<1>2. PICK i : i = InitEvents OBVIOUS
<1>3. PICK T : T = {i[j] : j \in 1 .. 2 * n} OBVIOUS
<1>4. i \in Seq(T) /\ Len(i) = 2 * n
  <2>1. i = [j \in 1 .. 2 * n |-> i[j]] BY <1>1, <1>2, Zenon DEF InitEvents
  <2>2. \A j \in 1 .. 2 * n : i[j] \in T BY <1>3
  <2>3. i \in [1 .. 2 * n -> T] BY <2>1, <2>2
  <2>4. 2 * n \in Nat BY <1>1
  <2>5. QED BY <2>3, <2>4
<1>5. Listed(i) BY <1>4 DEF Listed
<1> DEFINE lms(c) == [ev |-> "LMS_INIT", channel |-> c, values |-> Shift]
           rice(c) == [ev |-> "RICE_K_INIT", channel |-> c, values |-> RiceInit]
<1>6. /\ \A j \in 1 .. 2 * n : i[j] = IF j % 2 = 1 THEN lms(j \div 2) ELSE rice(j \div 2 - 1)
      /\ \A c : lms(c).ev = "LMS_INIT"
      /\ \A c : rice(c).ev = "RICE_K_INIT" /\ rice(c).channel = c /\ rice(c).values = RiceInit
  <2>1. \A j \in 1 .. 2 * n : i[j] = IF j % 2 = 1 THEN lms(j \div 2) ELSE rice(j \div 2 - 1)
    BY <1>1, <1>2 DEF InitEvents
  <2>2. \A c : lms(c).ev = "LMS_INIT" OBVIOUS
  <2>3. \A c : rice(c).ev = "RICE_K_INIT" /\ rice(c).channel = c /\ rice(c).values = RiceInit
    OBVIOUS
  <2>4. QED BY <2>1, <2>2, <2>3
<1> HIDE DEF lms, rice
<1>7. \A j \in 1 .. 2 * n : i[j].ev \in {"LMS_INIT", "RICE_K_INIT"} BY <1>6
<1>8. ASSUME NEW kinds, NEW c, "LMS_INIT" \notin kinds, "RICE_K_INIT" \notin kinds
      PROVE  Of(i, kinds, c) = <<>>
  <2>1. \A j \in 1 .. Len(i) : Wanted(i[j], kinds, c) <=> j = 0 BY <1>4, <1>7, <1>8 DEF Wanted
  <2>2. PICK p \in Nat : p = 0 OBVIOUS
  <2>3. QED BY <1>4, <2>1, <2>2, OfSome
<1>9. ASSUME NEW c \in 0 .. n - 1
      PROVE  /\ Len(Of(i, {"RICE_K_INIT", "RICE_K_UPDATE"}, c)) = 1
             /\ Of(i, {"RICE_K_INIT", "RICE_K_UPDATE"}, c)[1].values = RiceInit
  <2>1. PICK p \in Nat : p = 2 * c + 2 OBVIOUS
  <2>2. p \in 1 .. 2 * n /\ p # 0 BY <2>1
  <2>3. ASSUME NEW j \in 1 .. 2 * n
        PROVE  Wanted(i[j], {"RICE_K_INIT", "RICE_K_UPDATE"}, c) <=> j = p
    <3>1. CASE j % 2 = 1
      <4>1. i[j].ev = "LMS_INIT" BY <1>6, <3>1
      <4>2. j # p BY <2>1, <3>1
      <4>3. QED BY <4>1, <4>2 DEF Wanted
    <3>2. CASE j % 2 # 1
      <4>1. i[j].ev = "RICE_K_INIT" /\ i[j].channel = j \div 2 - 1 BY <1>6, <3>2
      <4>2. j \div 2 - 1 = c <=> j = p BY <2>1, <3>2
      <4>3. QED BY <4>1, <4>2 DEF Wanted
    <3>3. QED BY <3>1, <3>2
  <2>4. Of(i, {"RICE_K_INIT", "RICE_K_UPDATE"}, c) = <<i[p]>>
    <3>1. PICK kinds : kinds = {"RICE_K_INIT", "RICE_K_UPDATE"} OBVIOUS
    <3>2. PICK only : only = <<i[p]>> OBVIOUS
    <3>3. \A j \in 1 .. Len(i) : Wanted(i[j], kinds, c) <=> j = p BY <1>4, <2>3, <3>1
    <3>4. p \in Nat /\ p <= Len(i) BY <1>4, <2>2
    <3>5. Of(i, kinds, c) = only BY <1>4, <2>2, <3>2, <3>3, <3>4, OfSome
    <3>6. QED BY <3>1, <3>2, <3>5
  <2>5. i[p].values = RiceInit
    <3>1. p % 2 # 1 BY <2>1
    <3>2. QED BY <1>6, <2>2, <3>1
  <2>6. QED BY <2>4, <2>5
<1>10. PICK t : t = FrameBegin(f) OBVIOUS
<1>11. t.ev = "FRAME_BEGIN" /\ t.channel = -1 BY <1>10 DEF FrameBegin
<1>12. s = Append(i, t) BY <1>2, <1>10
<1>13. /\ Listed(s) /\ s # <<>> /\ LastOf(s) = t
       /\ \A c : c # t.channel => Story(s, c) = Story(i, c)
       /\ Mixed(s) = Kept(Mixed(i), t, {"DECORR_PRE"}, -1)
       /\ Played(s) = Kept(Played(i), t, {"PCM_OUT"}, -1)
  <2>1. PICK u : u = Append(i, t) OBVIOUS
  <2>2. Listed(u) /\ u # <<>> /\ LastOf(u) = t BY <1>5, <2>1, Silent
  <2>3. \A c : c # t.channel => Story(u, c) = Story(i, c)
    <3>1. Unheard(i, u, t) BY <1>5, <2>1, Silent
    <3>2. QED BY <3>1 DEF Unheard
  <2>4. Mixed(u) = Kept(Mixed(i), t, {"DECORR_PRE"}, -1) BY <1>5, <2>1, Silent
  <2>5. Played(u) = Kept(Played(i), t, {"PCM_OUT"}, -1) BY <1>5, <2>1, Silent
  <2>6. QED BY <1>12, <2>1, <2>2, <2>3, <2>4, <2>5
<1>14. Mixed(s) = <<>> /\ Played(s) = <<>>
  <2>1. Mixed(i) = <<>> /\ Played(i) = <<>> BY <1>8 DEF Mixed, Played
  <2>2. QED BY <1>11, <1>13, <2>1 DEF Kept, Wanted
<1>15. ASSUME NEW c \in Channels
       PROVE  /\ Len(Story(s, c).K) = 1 /\ Story(s, c).K[1].values = RiceInit
              /\ Story(s, c).R = <<>> /\ Story(s, c).P = <<>> /\ Story(s, c).A = <<>>
              /\ Story(s, c).Q = <<>> /\ Story(s, c).B = <<>>
  <2>1. c \in 0 .. n - 1 /\ c # -1 BY <1>1 DEF Channels
  <2>2. Story(s, c) = Story(i, c) BY <1>11, <1>13, <2>1
  <2>3. /\ Len(Story(i, c).K) = 1 /\ Story(i, c).K[1].values = RiceInit
    BY <1>9, <2>1 DEF Story
  <2>4. /\ Story(i, c).R = <<>> /\ Story(i, c).P = <<>> /\ Story(i, c).A = <<>>
        /\ Story(i, c).Q = <<>> /\ Story(i, c).B = <<>>
    BY <1>8 DEF Story
  <2>5. QED BY <2>2, <2>3, <2>4
<1>16. LastOf(s).ev # "FRAME_END" BY <1>11, <1>13
<1>17. QED BY <1>13, <1>14, <1>15, <1>16 DEF Silence

-----------------------------------------------------------------------------
(***************************************************************************)
(* The cascade: what it makes of a row decorrelates to that row again.     *)
(***************************************************************************)

\* r is g with the channels above c undone.
Undone(r, g, n, c) ==
  /\ r \in [0 .. n - 1 -> Ints]
  /\ \A d \in 0 .. n - 1 :
       r[d] = IF d <= c THEN g[d]
              ELSE IF d = n - 1 THEN Signed(g[n - 1] + HalfTowardZero(g[n - 2]))
              ELSE Signed(r[d + 1] - g[d])

LEMMA UndoneStep ==
  ASSUME NEW n \in Nat, n >= 2, NEW c \in 0 .. n - 1, NEW g \in [0 .. n - 1 -> Ints], NEW r,
         Undone(r, g, n, c),
         NEW r2, r2 = IF c = n - 1 THEN Anchored(r, n) ELSE Cascaded(r, c),
         r2 \in [0 .. n - 1 -> Ints]
  PROVE  Undone(r2, g, n, c - 1)
<1>1. r \in [0 .. n - 1 -> Ints] /\ c \in Nat BY DEF Undone
<1>2. ASSUME NEW d \in 0 .. n - 1, d # c PROVE r2[d] = r[d]
  <2>1. CASE c = n - 1 BY <1>1, <1>2, <2>1 DEF Anchored
  <2>2. CASE c # n - 1 BY <1>1, <1>2, <2>2 DEF Cascaded
  <2>3. QED BY <2>1, <2>2
<1>3. ASSUME NEW d \in 0 .. n - 1
      PROVE  r2[d] = IF d <= c - 1 THEN g[d]
                     ELSE IF d = n - 1 THEN Signed(g[n - 1] + HalfTowardZero(g[n - 2]))
                     ELSE Signed(r2[d + 1] - g[d])
  <2>1. CASE d < c
    <3>1. d <= c /\ d <= c - 1 /\ d # c BY <1>1, <2>1
    <3>2. r[d] = g[d] BY <3>1 DEF Undone
    <3>3. QED BY <1>2, <3>1, <3>2
  <2>2. CASE d = c /\ d = n - 1
    <3>1. n - 2 \in 0 .. n - 1 /\ n - 2 <= c /\ n - 1 <= c /\ ~(d <= c - 1) BY <1>1, <2>2
    <3>2. r[n - 1] = g[n - 1] /\ r[n - 2] = g[n - 2] BY <2>2, <3>1 DEF Undone
    <3>3. r2[d] = Signed(r[n - 1] + HalfTowardZero(r[n - 2])) BY <1>1, <2>2 DEF Anchored
    <3>4. QED BY <2>2, <3>1, <3>2, <3>3
  <2>3. CASE d = c /\ d # n - 1
    <3>1. d + 1 \in 0 .. n - 1 /\ d + 1 # c /\ ~(d <= c - 1) /\ d <= c BY <1>1, <2>3
    <3>2. r[d] = g[d] BY <3>1 DEF Undone
    <3>3. r2[d] = Signed(r[d + 1] - r[d]) BY <1>1, <2>3 DEF Cascaded
    <3>4. r2[d + 1] = r[d + 1] BY <1>2, <3>1
    <3>5. QED BY <2>3, <3>1, <3>2, <3>3, <3>4
  <2>4. CASE d > c
    <3>1. ~(d <= c) /\ ~(d <= c - 1) /\ d # c BY <1>1, <2>4
    <3>2. r2[d] = r[d] BY <1>2, <3>1
    <3>3. d # n - 1 => r2[d + 1] = r[d + 1]
      <4>1. d # n - 1 => d + 1 \in 0 .. n - 1 /\ d + 1 # c BY <1>1, <2>4
      <4>2. QED BY <1>2, <4>1
    <3>4. r[d] = IF d = n - 1 THEN Signed(g[n - 1] + HalfTowardZero(g[n - 2]))
                 ELSE Signed(r[d + 1] - g[d])
      BY <3>1 DEF Undone
    <3>5. QED BY <3>1, <3>2, <3>3, <3>4
  <2>5. QED BY <1>1, <2>1, <2>2, <2>3, <2>4
<1>4. QED BY <1>3 DEF Undone

LEMMA ForwardOfUndone ==
  ASSUME NEW n \in Nat, n >= 2, NEW g \in [0 .. n - 1 -> Ints], NEW r, Undone(r, g, n, -1)
  PROVE  Forward(r, n) = g
<1>1. r \in [0 .. n - 1 -> Ints] BY DEF Undone
<1>2. \A d \in 0 .. n - 1 : r[d] \in Int /\ g[d] \in Int /\ g[d] \in Ints
  BY <1>1, IntsAreIntegers
<1>3. ASSUME NEW d \in 0 .. n - 2 PROVE Signed(r[d + 1] - r[d]) = g[d]
  <2>1. d \in 0 .. n - 1 /\ d + 1 \in 0 .. n - 1 /\ ~(d <= -1) /\ d # n - 1 OBVIOUS
  <2>2. r[d] = Signed(r[d + 1] - g[d]) BY <2>1 DEF Undone
  <2>3. QED BY <1>2, <2>1, <2>2, SignedTakeAway
<1>4. Signed(r[n - 1] - HalfTowardZero(g[n - 2])) = g[n - 1]
  <2>1. n - 1 \in 0 .. n - 1 /\ n - 2 \in 0 .. n - 1 /\ ~(n - 1 <= -1) OBVIOUS
  <2>2. r[n - 1] = Signed(g[n - 1] + HalfTowardZero(g[n - 2])) BY <2>1 DEF Undone
  <2>3. PICK b : b = HalfTowardZero(g[n - 2]) OBVIOUS
  <2>4. b \in Int /\ -b \in Int
    <3>1. PICK x : x = g[n - 2] OBVIOUS
    <3>2. x \in Int BY <1>2, <2>1, <3>1
    <3>3. b = HalfTowardZero(x) BY <2>3, <3>1
    <3>4. b \in Int BY <3>2, <3>3, HalfTyped
    <3>5. QED BY <3>4
  <2>5. PICK x : x = g[n - 1] OBVIOUS
  <2>6. x \in Ints /\ x \in Int BY <1>2, <2>1, <2>5
  <2>7. PICK y : y = Signed(x - (-b)) OBVIOUS
  <2>8. x + b = x - (-b) BY <2>4, <2>6
  <2>9. r[n - 1] = y BY <2>2, <2>3, <2>5, <2>7, <2>8
  <2>10. y \in Int BY <1>2, <2>1, <2>9
  <2>11. Signed(y + (-b)) = x BY <2>4, <2>6, <2>7, SignedAddBack
  <2>12. y + (-b) = y - b BY <2>4, <2>10
  <2>13. QED BY <2>3, <2>5, <2>9, <2>11, <2>12
<1>5. PICK f : f = Forward(r, n) OBVIOUS
<1>6. f \in [0 .. n - 1 -> Ints]
  <2>1. n \in Nat \ {0} OBVIOUS
  <2>2. QED BY <1>1, <1>5, <2>1, ForwardTyped
<1>7. ASSUME NEW d \in 0 .. n - 1 PROVE f[d] = g[d]
  <2>1. CASE d < n - 1
    <3>1. d \in 0 .. n - 2 BY <2>1
    <3>2. f[d] = Signed(r[d + 1] - r[d]) BY <1>5, <2>1, <3>1 DEF Forward
    <3>3. QED BY <1>3, <3>1, <3>2
  <2>2. CASE ~(d < n - 1)
    <3>1. d = n - 1 /\ n - 2 \in 0 .. n - 2 /\ ~(n < 2) BY <2>2
    <3>2. f[d] = Signed(r[d] - HalfTowardZero(Signed(r[(n - 2) + 1] - r[n - 2])))
      BY <1>5, <2>2, <3>1 DEF Forward
    <3>3. Signed(r[(n - 2) + 1] - r[n - 2]) = g[n - 2] BY <1>3, <3>1
    <3>4. QED BY <1>4, <3>1, <3>2, <3>3
  <2>3. QED BY <2>1, <2>2
<1>8. f = [d \in 0 .. n - 1 |-> f[d]] /\ g = [d \in 0 .. n - 1 |-> g[d]] BY <1>6
<1>9. f = g BY <1>7, <1>8
<1>10. QED BY <1>5, <1>9

-----------------------------------------------------------------------------
(***************************************************************************)
(* One turn of the decoder, on the tape.                                   *)
(***************************************************************************)

ChannelTold(s, n, c, m, st, pr) ==
  Told(Story(s, c).K, Story(s, c).R, Story(s, c).P, Story(s, c).A, Story(s, c).Q,
       Story(s, c).B, n, c, m, st, pr)

LEMMA EventsOfStep ==
  ASSUME NEW st, NEW cw
  PROVE  \E r, k, p, a, q, b :
           /\ StepEvents(st, cw) = <<r, k, p, a, q, b>>
           /\ StepKinds(ch, r, k, p, a, q, b)
           /\ StepTold(r, k, p, a, q, b, st, cw, (row - 1) * stream.nch + ch)
<1>1. PICK e : e = Residual(st.rice, cw) OBVIOUS
<1>2. PICK l : l = LmsTraced(st.lms, e) OBVIOUS
<1>3. PICK place : place = (row - 1) * stream.nch + ch OBVIOUS
<1>4. PICK r : r = OfStep("RICE_DECODE", [ones |-> cw.ones, k |-> TailWidth(st.rice, cw.ones),
                                          residual |-> e])
  OBVIOUS
<1>5. PICK k : k = OfStep("RICE_K_UPDATE", DecoderNext(st.rice, cw)) OBVIOUS
<1>6. PICK p : p = OfStep("LMS_PRE", l.pre) OBVIOUS
<1>7. PICK a : a = OfStep("STAGE_A_PREDICT", [predicted |-> l.predicted, error |-> e,
                                              after |-> l.after])
  OBVIOUS
<1>8. PICK q : q = OfStep("LMS_POST", [filter |-> l.post, error |-> l.error]) OBVIOUS
<1>9. PICK b : b = OfStep("STAGE_B_PREDICT",
                          [prev |-> st.prev, predicted |-> PredictionB(st.prev),
                           residual |-> l.after, after |-> DecodedB(st, cw)])
  OBVIOUS
<1>10. StepEvents(st, cw) = <<r, k, p, a, q, b>>
  BY <1>1, <1>2, <1>4, <1>5, <1>6, <1>7, <1>8, <1>9, Zenon DEF StepEvents
<1>11. ASSUME NEW kind, NEW v
       PROVE  /\ OfStep(kind, v).ev = kind /\ OfStep(kind, v).channel = ch
              /\ OfStep(kind, v).step = place /\ OfStep(kind, v).values = v
  BY <1>3 DEF OfStep
<1>12. StepKinds(ch, r, k, p, a, q, b)
  BY <1>4, <1>5, <1>6, <1>7, <1>8, <1>9, <1>11 DEF StepKinds
<1>13. /\ l.pre = Filter(st.lms) /\ l.error = st.lms.error
       /\ l.predicted = Signed(LmsSample(st.lms, e) - e) /\ l.after = LmsSample(st.lms, e)
       /\ l.post = Filter(Advanced(st.lms, e, LmsSample(st.lms, e)))
  BY <1>2 DEF LmsTraced
<1>14. LmsSample(st.lms, e) = DecodedA(st, cw) BY <1>1 DEF DecodedA
<1>15. /\ r.step = place /\ r.values.k = TailWidth(st.rice, cw.ones)
       /\ r.values.ones = cw.ones /\ r.values.residual = e
  BY <1>4, <1>11
<1>16. k.values = DecoderNext(st.rice, cw) /\ p.values = Filter(st.lms)
  BY <1>5, <1>6, <1>11, <1>13
<1>17. /\ a.values.predicted = Signed(LmsSample(st.lms, e) - e) /\ a.values.error = e
       /\ a.values.after = DecodedA(st, cw)
  BY <1>7, <1>11, <1>13, <1>14
<1>18. /\ q.values.error = st.lms.error
       /\ q.values.filter = Filter(Advanced(st.lms, e, DecodedA(st, cw)))
  BY <1>8, <1>11, <1>13, <1>14
<1>19. /\ b.values.prev = st.prev /\ b.values.residual = DecodedA(st, cw)
       /\ b.values.after = DecodedB(st, cw)
  BY <1>9, <1>11, <1>13, <1>14
<1>20. StepTold(r, k, p, a, q, b, st, cw, place)
  BY <1>1, <1>15, <1>16, <1>17, <1>18, <1>19, Zenon DEF StepTold
<1>21. QED BY <1>3, <1>10, <1>12, <1>20

\* s2 is s with the events of one turn of channel c behind it, its m+1st.
TurnHeard(s, s2, n, c, m, st2, pr) ==
  /\ Listed(s2) /\ s2 # <<>> /\ LastOf(s2).ev = "STAGE_B_PREDICT"
  /\ Mixed(s2) = Mixed(s) /\ Played(s2) = Played(s)
  /\ ChannelTold(s2, n, c, m + 1, st2, pr)
  /\ Elsewhere(s, s2, c)
  /\ \A i \in 1 .. m : Story(s2, c).B[i] = Story(s, c).B[i]

LEMMA TurnTold ==
  ASSUME NEW s, Listed(s), NEW n \in Nat, NEW c \in Nat, NEW m \in Nat,
         NEW st \in ChannelState, NEW pr, ChannelTold(s, n, c, m, st, pr),
         NEW cw \in Codewords,
         DecoderNext(st.rice, cw) = EncoderNext(st.rice, Residual(st.rice, cw)),
         n = stream.nch, c = ch, row - 1 = m,
         NEW s2, s2 = s \o StepEvents(st, cw)
  PROVE  TurnHeard(s, s2, n, c, m, Decoded(st, cw), pr)
<1>1. PICK r, k, p, a, q, b :
        /\ StepEvents(st, cw) = <<r, k, p, a, q, b>>
        /\ StepKinds(c, r, k, p, a, q, b)
        /\ StepTold(r, k, p, a, q, b, st, cw, m * n + c)
  BY EventsOfStep
<1>2. s2 = s \o <<r, k, p, a, q, b>> BY <1>1
<1>3. /\ Listed(s2) /\ s2 # <<>> /\ LastOf(s2) = b
      /\ Elsewhere(s, s2, c)
      /\ Mixed(s2) = Mixed(s) /\ Played(s2) = Played(s)
      /\ Listed(Story(s, c).K) /\ Story(s2, c).K = Append(Story(s, c).K, k)
      /\ Listed(Story(s, c).R) /\ Story(s2, c).R = Append(Story(s, c).R, r)
      /\ Listed(Story(s, c).P) /\ Story(s2, c).P = Append(Story(s, c).P, p)
      /\ Listed(Story(s, c).A) /\ Story(s2, c).A = Append(Story(s, c).A, a)
      /\ Listed(Story(s, c).Q) /\ Story(s2, c).Q = Append(Story(s, c).Q, q)
      /\ Listed(Story(s, c).B) /\ Story(s2, c).B = Append(Story(s, c).B, b)
  <2>1. StepKinds(c, r, k, p, a, q, b) BY <1>1
  <2>2. Heard(s, s2, c, r, k, p, a, q, b) BY <1>2, <2>1, Spoken
  <2>3. QED BY <2>2 DEF Heard
<1>4. PICK K, R, P, A, Q, B :
        /\ K = Story(s, c).K /\ R = Story(s, c).R /\ P = Story(s, c).P
        /\ A = Story(s, c).A /\ Q = Story(s, c).Q /\ B = Story(s, c).B
  OBVIOUS
<1>5. Told(K, R, P, A, Q, B, n, c, m, st, pr) BY <1>4 DEF ChannelTold
<1>6. /\ Len(K) = m + 1 /\ Len(R) = m /\ Len(P) = m /\ Len(A) = m /\ Len(Q) = m /\ Len(B) = m
  BY <1>5 DEF Told
<1>7. PICK K2, R2, P2, A2, Q2, B2 :
        /\ K2 = Append(K, k) /\ R2 = Append(R, r) /\ P2 = Append(P, p)
        /\ A2 = Append(A, a) /\ Q2 = Append(Q, q) /\ B2 = Append(B, b)
  OBVIOUS
<1>8. /\ Grown(K, K2, k, m + 1) /\ Grown(R, R2, r, m) /\ Grown(P, P2, p, m)
      /\ Grown(A, A2, a, m) /\ Grown(Q, Q2, q, m) /\ Grown(B, B2, b, m)
  BY <1>3, <1>4, <1>6, <1>7, Grows
<1>9. Told(K2, R2, P2, A2, Q2, B2, n, c, m + 1, Decoded(st, cw), pr)
  BY <1>1, <1>5, <1>8, ToldMore
<1>10. /\ Story(s2, c).K = K2 /\ Story(s2, c).R = R2 /\ Story(s2, c).P = P2
       /\ Story(s2, c).A = A2 /\ Story(s2, c).Q = Q2 /\ Story(s2, c).B = B2
  BY <1>3, <1>4, <1>7
<1>11. ChannelTold(s2, n, c, m + 1, Decoded(st, cw), pr) BY <1>9, <1>10 DEF ChannelTold
<1>12. \A i \in 1 .. m : Story(s2, c).B[i] = Story(s, c).B[i]
  BY <1>4, <1>8, <1>10 DEF Grown
<1>13. LastOf(s2).ev = "STAGE_B_PREDICT" BY <1>1, <1>3 DEF StepKinds
<1>14. QED BY <1>3, <1>11, <1>12, <1>13 DEF TurnHeard

\* An event of the row goes to none of the channels.
RowHeard(s, s2, kind, r) ==
  /\ Listed(s2) /\ s2 # <<>> /\ LastOf(s2).ev = kind
  /\ \A c : c # -1 => Story(s2, c) = Story(s, c)
  /\ Mixed(s2) = IF kind = "DECORR_PRE" THEN Append(Mixed(s), OfSample(kind, r)) ELSE Mixed(s)
  /\ Played(s2) = Played(s)

LEMMA RowEvent ==
  ASSUME NEW s, Listed(s), NEW kind, kind \in {"DECORR_PRE", "DECORR_POST"}, NEW r,
         NEW s2, s2 = Append(s, OfSample(kind, r))
  PROVE  RowHeard(s, s2, kind, r)
<1>1. PICK t : t = OfSample(kind, r) OBVIOUS
<1>2. t.ev = kind /\ t.channel = -1 BY <1>1 DEF OfSample
<1>3. s2 = Append(s, t) BY <1>1
<1>4. /\ Listed(s2) /\ s2 # <<>> /\ LastOf(s2) = t /\ Unheard(s, s2, t)
      /\ Mixed(s2) = Kept(Mixed(s), t, {"DECORR_PRE"}, -1)
      /\ Played(s2) = Kept(Played(s), t, {"PCM_OUT"}, -1)
  BY <1>3, Silent
<1>5. \A c : c # -1 => Story(s2, c) = Story(s, c) BY <1>2, <1>4 DEF Unheard
<1>6. Mixed(s2) = IF kind = "DECORR_PRE" THEN Append(Mixed(s), t) ELSE Mixed(s)
  BY <1>2, <1>4 DEF Kept, Wanted
<1>7. Played(s2) = Played(s) BY <1>2, <1>4 DEF Kept, Wanted
<1>8. QED BY <1>1, <1>2, <1>4, <1>5, <1>6, <1>7 DEF RowHeard

RowOutHeard(s, s2, r) ==
  /\ Listed(s2) /\ s2 # <<>>
  /\ LastOf(s2).ev = IF row = Rows(frame) THEN "FRAME_END" ELSE "PCM_OUT"
  /\ \A c : c # -1 => Story(s2, c) = Story(s, c)
  /\ Mixed(s2) = Mixed(s)
  /\ Played(s2) = Append(Played(s), OfSample("PCM_OUT", r)) /\ Listed(Played(s))

LEMMA RowPlayed ==
  ASSUME NEW s, Listed(s), NEW r, NEW s2, s2 = s \o RowOut(r)
  PROVE  RowOutHeard(s, s2, r)
<1>1. PICK t : t = OfSample("PCM_OUT", r) OBVIOUS
<1>2. t.ev = "PCM_OUT" /\ t.channel = -1 BY <1>1 DEF OfSample
<1>3. PICK u : u = Append(s, t) OBVIOUS
<1>4. /\ Listed(u) /\ u # <<>> /\ LastOf(u) = t /\ Unheard(s, u, t)
      /\ Mixed(u) = Kept(Mixed(s), t, {"DECORR_PRE"}, -1)
      /\ Played(u) = Kept(Played(s), t, {"PCM_OUT"}, -1)
      /\ Listed(Played(s))
  BY <1>3, Silent
<1>5. \A c : c # -1 => Story(u, c) = Story(s, c) BY <1>2, <1>4 DEF Unheard
<1>6. Mixed(u) = Mixed(s) /\ Played(u) = Append(Played(s), t)
  BY <1>2, <1>4 DEF Kept, Wanted
<1>7. CASE row = Rows(frame)
  <2>1. PICK e : e = FrameEnd OBVIOUS
  <2>2. e.ev = "FRAME_END" /\ e.channel = -1 BY <2>1 DEF FrameEnd
  <2>3. s2 = Append(u, e)
    <3>1. s2 = s \o (<<t>> \o <<e>>) BY <1>1, <1>7, <2>1 DEF RowOut
    <3>2. PICK T : s \in Seq(T) BY DEF Listed
    <3>3. PICK U : U = T \cup {t, e} OBVIOUS
    <3>4. s \in Seq(U)
      <4>1. Len(s) \in Nat /\ s \in [1 .. Len(s) -> T] BY <3>2
      <4>2. s \in [1 .. Len(s) -> U] BY <3>3, <4>1
      <4>3. QED BY <3>2, <3>3, <4>1, <4>2
    <3>5. t \in U /\ e \in U BY <3>3
    <3>6. s \o (<<t>> \o <<e>>) = Append(Append(s, t), e) BY <3>4, <3>5
    <3>7. QED BY <1>3, <3>1, <3>6
  <2>4. PICK v : v = Append(u, e) OBVIOUS
  <2>5. /\ Listed(v) /\ v # <<>> /\ LastOf(v) = e /\ Unheard(u, v, e)
        /\ Mixed(v) = Kept(Mixed(u), e, {"DECORR_PRE"}, -1)
        /\ Played(v) = Kept(Played(u), e, {"PCM_OUT"}, -1)
    BY <1>4, <2>4, Silent
  <2>6. \A c : c # -1 => Story(v, c) = Story(s, c) BY <1>5, <2>2, <2>5 DEF Unheard
  <2>7. Mixed(v) = Mixed(u) /\ Played(v) = Played(u) BY <2>2, <2>5 DEF Kept, Wanted
  <2>8. v = s2 BY <2>3, <2>4
  <2>9. QED BY <1>1, <1>4, <1>6, <1>7, <2>2, <2>5, <2>6, <2>7, <2>8 DEF RowOutHeard
<1>8. CASE row # Rows(frame)
  <2>1. s2 = u
    <3>1. s2 = s \o (<<t>> \o <<>>) BY <1>1, <1>8 DEF RowOut
    <3>2. PICK T : s \in Seq(T) BY DEF Listed
    <3>3. PICK U : U = T \cup {t} OBVIOUS
    <3>4. s \in Seq(U)
      <4>1. Len(s) \in Nat /\ s \in [1 .. Len(s) -> T] BY <3>2
      <4>2. s \in [1 .. Len(s) -> U] BY <3>3, <4>1
      <4>3. QED BY <3>2, <3>3, <4>1, <4>2
    <3>5. t \in U BY <3>3
    <3>6. s \o (<<t>> \o <<>>) = Append(s, t) BY <3>4, <3>5
    <3>7. QED BY <1>3, <3>1, <3>6
  <2>2. LastOf(u).ev = "PCM_OUT" BY <1>2, <1>4
  <2>3. QED BY <1>1, <1>4, <1>5, <1>6, <1>8, <2>1, <2>2 DEF RowOutHeard
<1>9. QED BY <1>7, <1>8

-----------------------------------------------------------------------------
(***************************************************************************)
(* TapeInv: where the decoder is, its tape tells.  A channel's events tell *)
(* of the rows it has done and end in its state; the events of the rows    *)
(* out tell of them; the row in the making is what Stage B gave, below the *)
(* cascade, and what the cascade makes of it above.                        *)
(***************************************************************************)
Prevs == [c \in Channels |-> dec[c].prev]
Done(c) == IF pc = "inverse" \/ c < ch THEN row ELSE row - 1
Given(s, n, i) == [c \in 0 .. n - 1 |-> Story(s, c).B[i].values.after]
RowTold(s, n, i) ==
  /\ Played(s)[i].sample = i - 1
  /\ Forward(Played(s)[i].values, n) = Given(s, n, i)
  /\ n > 1 => Mixed(s)[i].values = Given(s, n, i)

ChannelsTold ==
  \A c \in Channels : ChannelTold(tape, stream.nch, c, Done(c), dec[c], prime)
RowsTold ==
  /\ Len(Played(tape)) = row - 1
  /\ stream.nch = 1 => Mixed(tape) = <<>>
  /\ stream.nch > 1 => Len(Mixed(tape)) = IF pc = "inverse" THEN row ELSE row - 1
  /\ \A i \in 1 .. row - 1 : RowTold(tape, stream.nch, i)
  /\ pc = "inverse" => Mixed(tape)[row].values = Prevs
SlotTold ==
  /\ pc = "decode" => \A c \in Channels : c < ch => slot[c] = dec[c].prev
  /\ pc = "inverse" => Undone(slot, Prevs, stream.nch, ch)
Placed ==
  /\ Listed(tape)
  /\ pc = "encode" => tape = <<>>
  /\ Retracing => tape # <<>> /\ LastOf(tape).ev # "FRAME_END"
  /\ tape # <<>> /\ pc = "ready" => row = Rows(frame) + 1 /\ ch = 0

TapeInv == Placed /\ SlotTold /\ (tape # <<>> => ChannelsTold /\ RowsTold)

LEMMA TapeStarts == TraceInit => TapeInv
<1> SUFFICES ASSUME TraceInit PROVE TapeInv OBVIOUS
<1>1. tape = <<>> /\ pc = "encode" BY DEF TraceInit, Init
<1>2. Listed(tape) BY <1>1, OfNothing
<1>3. Placed BY <1>1, <1>2 DEF Placed, Retracing
<1>4. SlotTold BY <1>1 DEF SlotTold
<1>5. QED BY <1>1, <1>3, <1>4 DEF TapeInv

LEMMA TracedEncodeStep ==
  ASSUME TapeInv, TracedEncode
  PROVE  TapeInv'
<1>1. pc = "encode" /\ pc' \in {"encode", "ready"} /\ tape' = tape
  BY DEF TracedEncode, EncodeOne, FinishBody
<1>2. tape' = <<>> BY <1>1 DEF TapeInv, Placed
<1>3. Listed(tape') BY <1>2, OfNothing
<1>4. Placed' BY <1>1, <1>2, <1>3 DEF Placed, Retracing
<1>5. SlotTold' BY <1>1 DEF SlotTold
<1>6. QED BY <1>2, <1>4, <1>5 DEF TapeInv

LEMMA TracedStartStep ==
  ASSUME IInv, IInv', NEW f \in DOMAIN stream.frames, TracedStart(f)
  PROVE  TapeInv'
<1>1. TypeOK /\ pc' # "refused" BY DEF IInv, Shaped
<1>2. stream.nch \in Nat \ {0} /\ Channels = 0 .. stream.nch - 1 BY <1>1, Here
<1>3. /\ pc' = "decode" /\ row' = 1 /\ ch' = 0 /\ dec' = FreshChannels
      /\ stream' = stream /\ prime' = prime
  BY <1>1 DEF TracedStart, StartFrame
<1>4. PICK s : s = Append(InitEvents, FrameBegin(f)) OBVIOUS
<1>5. tape' = s BY <1>3, <1>4 DEF TracedStart
<1>6. /\ Listed(s) /\ s # <<>> /\ LastOf(s).ev # "FRAME_END"
      /\ Mixed(s) = <<>> /\ Played(s) = <<>>
      /\ \A c \in Channels :
           /\ Len(Story(s, c).K) = 1 /\ Story(s, c).K[1].values = RiceInit
           /\ Story(s, c).R = <<>> /\ Story(s, c).P = <<>> /\ Story(s, c).A = <<>>
           /\ Story(s, c).Q = <<>> /\ Story(s, c).B = <<>>
  <2>1. Silence(s, Channels) BY <1>2, <1>4, Begins
  <2>2. QED BY <2>1 DEF Silence
<1>7. Channels' = Channels BY <1>3 DEF Channels
<1>8. Placed' BY <1>3, <1>5, <1>6 DEF Placed, Retracing
<1>9. SlotTold' BY <1>2, <1>3, <1>7 DEF SlotTold
<1>10. ASSUME NEW c \in Channels PROVE ChannelTold(s, stream.nch, c, 0, dec'[c], prime)
  <2>1. dec'[c] = FreshState(prime) BY <1>1, <1>3, Here
  <2>2. /\ dec'[c].rice = RiceInit /\ dec'[c].lms = LmsInit(prime) /\ dec'[c].prev = 0
        /\ dec'[c].lms.error = 0
    BY <2>1 DEF FreshState, LmsInit
  <2>3. /\ Len(Story(s, c).K) = 0 + 1 /\ Len(Story(s, c).R) = 0 /\ Len(Story(s, c).P) = 0
        /\ Len(Story(s, c).A) = 0 /\ Len(Story(s, c).Q) = 0 /\ Len(Story(s, c).B) = 0
    BY <1>6
  <2>4. Story(s, c).K[0 + 1].values = dec'[c].rice BY <1>6, <2>2
  <2>5. \A i : i \notin 1 .. 0 OBVIOUS
  <2>6. QED BY <2>2, <2>3, <2>4, <2>5 DEF ChannelTold, Told
<1>11. ChannelsTold'
  <2>1. \A c \in Channels : Done(c)' = 0 BY <1>2, <1>3 DEF Done
  <2>2. QED BY <1>3, <1>5, <1>7, <1>10, <2>1 DEF ChannelsTold
<1>12. RowsTold'
  <2>1. row' - 1 = 0 /\ \A i : i \notin 1 .. row' - 1 BY <1>3
  <2>2. QED BY <1>3, <1>5, <1>6, <2>1 DEF RowsTold
<1>13. QED BY <1>8, <1>9, <1>11, <1>12 DEF TapeInv

\* What is told of a row stays.
SameRow(s, s2, n, i) ==
  /\ \A c \in 0 .. n - 1 : Story(s2, c).B[i] = Story(s, c).B[i]
  /\ Played(s2)[i] = Played(s)[i]
  /\ n > 1 => Mixed(s2)[i] = Mixed(s)[i]

LEMMA RowKept ==
  ASSUME NEW s, NEW s2, NEW n \in Nat, NEW i, RowTold(s, n, i), SameRow(s, s2, n, i)
  PROVE  RowTold(s2, n, i)
<1>1. Given(s2, n, i) = Given(s, n, i) BY DEF Given, SameRow
<1>2. QED BY <1>1 DEF RowTold, SameRow

\* m rows are out, and told.
PlayedTold(s, n, m) == Len(Played(s)) = m /\ \A i \in 1 .. m : RowTold(s, n, i)

LEMMA RowPlayedTold ==
  ASSUME NEW s, Listed(s), NEW r, NEW n \in Nat, NEW m \in Nat, row = m + 1,
         NEW s2, s2 = s \o RowOut(r),
         Len(Played(s)) = m, \A i \in 1 .. m : RowTold(s, n, i),
         Forward(r, n) = Given(s, n, m + 1),
         n > 1 => Mixed(s)[m + 1].values = Given(s, n, m + 1)
  PROVE  PlayedTold(s2, n, m + 1)
<1>1. /\ \A c : c # -1 => Story(s2, c) = Story(s, c)
      /\ Mixed(s2) = Mixed(s)
      /\ Played(s2) = Append(Played(s), OfSample("PCM_OUT", r)) /\ Listed(Played(s))
  <2>1. RowOutHeard(s, s2, r) BY RowPlayed
  <2>2. QED BY <2>1 DEF RowOutHeard
<1>2. PICK t : t = OfSample("PCM_OUT", r) OBVIOUS
<1>3. t.sample = m /\ t.values = r BY <1>2 DEF OfSample
<1>4. Grown(Played(s), Played(s2), t, m) BY <1>1, <1>2, Grows
<1>5. Len(Played(s2)) = m + 1 /\ Played(s2)[m + 1] = t
      /\ \A i \in 1 .. m : Played(s2)[i] = Played(s)[i]
  BY <1>4 DEF Grown
<1>6. \A c \in 0 .. n - 1 : Story(s2, c) = Story(s, c)
  <2>1. \A c \in 0 .. n - 1 : c # -1 OBVIOUS
  <2>2. QED BY <1>1, <2>1
<1>7. ASSUME NEW i \in 1 .. m + 1 PROVE RowTold(s2, n, i)
  <2>1. CASE i = m + 1
    <3>1. Given(s2, n, m + 1) = Given(s, n, m + 1) BY <1>6 DEF Given
    <3>2. (m + 1) - 1 = m OBVIOUS
    <3>3. QED BY <1>1, <1>3, <1>5, <2>1, <3>1, <3>2 DEF RowTold
  <2>2. CASE i # m + 1
    <3>1. i \in 1 .. m BY <2>2
    <3>2. \A c \in 0 .. n - 1 : Story(s2, c).B[i] = Story(s, c).B[i] BY <1>6
    <3>3. SameRow(s, s2, n, i) BY <1>1, <1>5, <3>1, <3>2 DEF SameRow
    <3>4. QED BY <3>1, <3>3, RowKept
  <2>3. QED BY <2>1, <2>2
<1>8. QED BY <1>5, <1>7 DEF PlayedTold

\* s2 is s with a turn behind it: the channels up to c are a row further.
Turned(s, s2, n, c, m, st2, pr) ==
  /\ Listed(s2) /\ s2 # <<>> /\ LastOf(s2).ev = "STAGE_B_PREDICT"
  /\ Mixed(s2) = Mixed(s) /\ Played(s2) = Played(s)
  /\ \A d \in 0 .. n - 1 :
       ChannelTold(s2, n, d, IF d <= c THEN m + 1 ELSE m, st2[d], pr)
  /\ \A i \in 1 .. m : RowTold(s2, n, i)

LEMMA AfterTurn ==
  ASSUME NEW s, Listed(s), NEW n \in Nat, NEW c \in 0 .. n - 1, NEW m \in Nat,
         NEW st \in [0 .. n - 1 -> ChannelState], NEW pr,
         \A d \in 0 .. n - 1 :
           ChannelTold(s, n, d, IF d < c THEN m + 1 ELSE m, st[d], pr),
         \A i \in 1 .. m : RowTold(s, n, i),
         NEW cw \in Codewords,
         DecoderNext(st[c].rice, cw) = EncoderNext(st[c].rice, Residual(st[c].rice, cw)),
         n = stream.nch, c = ch, row - 1 = m,
         NEW s2, s2 = s \o StepEvents(st[c], cw),
         NEW st2, st2 = [st EXCEPT ![c] = Decoded(@, cw)]
  PROVE  Turned(s, s2, n, c, m, st2, pr)
<1>1. c \in Nat /\ ~(c < c) /\ st[c] \in ChannelState OBVIOUS
<1>2. PICK x : x = st[c] OBVIOUS
<1>3. x \in ChannelState BY <1>1, <1>2
<1>4. ChannelTold(s, n, c, m, x, pr) BY <1>1, <1>2
<1>5. /\ Listed(s2) /\ s2 # <<>> /\ LastOf(s2).ev = "STAGE_B_PREDICT"
      /\ Mixed(s2) = Mixed(s) /\ Played(s2) = Played(s)
      /\ ChannelTold(s2, n, c, m + 1, Decoded(x, cw), pr)
      /\ Elsewhere(s, s2, c)
      /\ \A i \in 1 .. m : Story(s2, c).B[i] = Story(s, c).B[i]
  <2>2. s2 = s \o StepEvents(x, cw) BY <1>2
  <2>3. DecoderNext(x.rice, cw) = EncoderNext(x.rice, Residual(x.rice, cw)) BY <1>2
  <2>4. TurnHeard(s, s2, n, c, m, Decoded(x, cw), pr)
    BY <1>1, <1>3, <1>4, <2>2, <2>3, TurnTold
  <2>5. QED BY <2>4 DEF TurnHeard
<1>6. /\ st2[c] = Decoded(x, cw)
      /\ \A d \in 0 .. n - 1 : d # c => st2[d] = st[d]
  BY <1>2
<1>7. ASSUME NEW d \in 0 .. n - 1
      PROVE  ChannelTold(s2, n, d, IF d <= c THEN m + 1 ELSE m, st2[d], pr)
  <2>1. CASE d = c
    <3>1. d <= c BY <1>1, <2>1
    <3>2. QED BY <1>5, <1>6, <2>1, <3>1
  <2>2. CASE d # c
    <3>1. d < c <=> d <= c BY <1>1, <2>2
    <3>2. ChannelTold(s, n, d, IF d <= c THEN m + 1 ELSE m, st[d], pr) BY <3>1
    <3>3. Story(s2, d) = Story(s, d) BY <1>5, <2>2 DEF Elsewhere
    <3>4. QED BY <1>6, <2>2, <3>2, <3>3 DEF ChannelTold
  <2>3. QED BY <2>1, <2>2
<1>8. ASSUME NEW i \in 1 .. m PROVE RowTold(s2, n, i)
  <2>1. \A d \in 0 .. n - 1 : Story(s2, d).B[i] = Story(s, d).B[i]
    <3>1. \A d \in 0 .. n - 1 : d # c => Story(s2, d) = Story(s, d) BY <1>5 DEF Elsewhere
    <3>2. QED BY <1>5, <3>1
  <2>2. RowTold(s, n, i) OBVIOUS
  <2>3. SameRow(s, s2, n, i) BY <1>5, <2>1 DEF SameRow
  <2>4. QED BY <2>2, <2>3, RowKept
<1>9. QED BY <1>5, <1>7, <1>8 DEF Turned

\* A channel whose rows are told ends in its register.
LEMMA TellsPrev ==
  ASSUME NEW s, NEW n, NEW c, NEW m \in Nat, NEW st, NEW pr,
         ChannelTold(s, n, c, m + 1, st, pr)
  PROVE  Story(s, c).B[m + 1].values.after = st.prev
<1>1. m + 1 # 0 OBVIOUS
<1>2. QED BY <1>1 DEF ChannelTold, Told

LEMMA TracedDecodeStep ==
  ASSUME IInv, IInv', TapeInv, TracedDecode
  PROVE  TapeInv'
<1> DEFINE n == stream.nch
           cw == NextCodeword
           filled == [slot EXCEPT ![ch] = DecodedB(dec[ch], cw)]
<1>1. /\ TypeOK /\ Shaped /\ pc = "decode" /\ DecodeOne
      /\ Placed /\ SlotTold /\ (tape # <<>> => ChannelsTold /\ RowsTold)
  BY DEF IInv, TapeInv, TracedDecode, DecodeOne
<1>2. /\ n \in Nat \ {0} /\ Channels = 0 .. n - 1 /\ LastChannel = n - 1 /\ ch \in 0 .. n - 1
      /\ Rows(frame) \in Nat \ {0} /\ row \in Nat \ {0} /\ frame \in DOMAIN stream.frames
  BY <1>1, Here
<1>3. PICK h : Found(h) BY <1>1, TurnFinds
<1>4. /\ cw \in Codewords
      /\ ~(cw.width # TailWidth(dec[ch].rice, cw.ones))
      /\ DecoderNext(dec[ch].rice, cw) = EncoderNext(dec[ch].rice, Residual(dec[ch].rice, cw))
  BY <1>3 DEF Found
<1>5. /\ dec' = [dec EXCEPT ![ch] = Decoded(@, cw)]
      /\ slot' = filled
      /\ IF ch < n - 1
         THEN pc' = pc /\ ch' = ch + 1 /\ row' = row /\ out' = out
         ELSE IF n < 2
         THEN Deliver(filled)
         ELSE pc' = "inverse" /\ row' = row /\ ch' = ch /\ out' = out
      /\ stream' = stream /\ prime' = prime /\ frame' = frame
  BY <1>1, <1>2, <1>4 DEF DecodeOne
<1>6. dec \in [0 .. n - 1 -> ChannelState] BY <1>1, <1>2 DEF TypeOK
<1>7. slot \in [0 .. n - 1 -> Ints] /\ row <= Rows(frame)
  BY <1>1, <1>2 DEF Shaped, Retracing
<1>8. Listed(tape) /\ tape # <<>> /\ ChannelsTold /\ RowsTold
  BY <1>1 DEF Placed, Retracing
<1>9. PICK m \in Nat : row = m + 1 /\ row - 1 = m
  <2>1. row - 1 \in Nat /\ row = (row - 1) + 1 BY <1>2
  <2>2. QED BY <2>1
<1>10. \A d \in 0 .. n - 1 :
         ChannelTold(tape, n, d, IF d < ch THEN m + 1 ELSE m, dec[d], prime)
  BY <1>1, <1>2, <1>8, <1>9 DEF ChannelsTold, Done
<1>11. /\ Len(Played(tape)) = m /\ (n = 1 => Mixed(tape) = <<>>)
       /\ (n > 1 => Len(Mixed(tape)) = m) /\ \A i \in 1 .. m : RowTold(tape, n, i)
  BY <1>1, <1>8, <1>9 DEF RowsTold
<1>12. PICK u : u = tape \o StepEvents(dec[ch], cw) OBVIOUS
<1>13. PICK dec2 : dec2 = [dec EXCEPT ![ch] = Decoded(@, cw)] OBVIOUS
<1>14. dec' = dec2 BY <1>5, <1>13
<1>15. /\ Listed(u) /\ u # <<>> /\ LastOf(u).ev = "STAGE_B_PREDICT"
       /\ Mixed(u) = Mixed(tape) /\ Played(u) = Played(tape)
       /\ \A d \in 0 .. n - 1 :
            ChannelTold(u, n, d, IF d <= ch THEN m + 1 ELSE m, dec2[d], prime)
       /\ \A i \in 1 .. m : RowTold(u, n, i)
  <2>1. \A i \in 1 .. m : RowTold(tape, n, i) BY <1>11
  <2>2. DecoderNext(dec[ch].rice, cw) = EncoderNext(dec[ch].rice, Residual(dec[ch].rice, cw))
        /\ cw \in Codewords
    BY <1>4
  <2>3. Turned(tape, u, n, ch, m, dec2, prime)
    <3> HIDE DEF cw
    <3>1. QED BY <1>2, <1>6, <1>8, <1>9, <1>10, <1>12, <1>13, <2>1, <2>2, AfterTurn
  <2>4. QED BY <2>3 DEF Turned
<1>16. \A d \in 0 .. n - 1 : d <= ch => filled[d] = dec2[d].prev
  <2> SUFFICES ASSUME NEW d \in 0 .. n - 1, d <= ch PROVE filled[d] = dec2[d].prev OBVIOUS
  <2>1. CASE d = ch
    <3>1. dec2[d] = Decoded(dec[ch], cw) BY <1>6, <1>13, <2>1
    <3>2. Decoded(dec[ch], cw).prev = DecodedB(dec[ch], cw) BY DEF Decoded
    <3>3. filled[d] = DecodedB(dec[ch], cw) BY <1>7, <2>1
    <3>4. QED BY <3>1, <3>2, <3>3
  <2>2. CASE d # ch
    <3>1. d < ch /\ d \in Channels BY <1>2, <2>2
    <3>2. slot[d] = dec[d].prev BY <1>1, <3>1 DEF SlotTold
    <3>3. dec2[d] = dec[d] BY <1>6, <1>13, <2>2
    <3>4. filled[d] = slot[d] BY <1>7, <2>2
    <3>5. QED BY <3>2, <3>3, <3>4
  <2>3. QED BY <2>1, <2>2
<1>17. DecodedB(dec[ch], cw) \in Ints BY <1>2, <1>4, <1>6, DecodedTyped
<1>18. filled \in [0 .. n - 1 -> Ints] BY <1>2, <1>7, <1>17
<1>19. Channels' = Channels /\ Rows(frame)' = Rows(frame) BY <1>5 DEF Channels, Rows
<1>20. tape' = IF pc' = "astray" THEN tape
               ELSE (tape \o StepEvents(dec[ch], cw))
                      \o CASE ch < LastChannel -> <<>>
                           [] stream.nch < 2   -> RowOut(slot')
                           [] OTHER            -> <<OfSample("DECORR_PRE", slot')>>
  BY Zenon DEF TracedDecode
<1>21. u \o <<>> = u /\ \A t : u \o <<t>> = Append(u, t)
  <2>1. PICK T : u \in Seq(T) BY <1>15 DEF Listed
  <2>2. ASSUME NEW t PROVE u \o <<t>> = Append(u, t)
    <3>1. PICK U : U = T \cup {t} OBVIOUS
    <3>2. u \in Seq(U)
      <4>1. Len(u) \in Nat /\ u \in [1 .. Len(u) -> T] BY <2>1
      <4>2. u \in [1 .. Len(u) -> U] BY <3>1, <4>1
      <4>3. QED BY <2>1, <3>1, <4>1, <4>2
    <3>3. t \in U BY <3>1
    <3>4. QED BY <3>2, <3>3
  <2>3. QED BY <2>1, <2>2
<1>22. Prevs' = [d \in 0 .. n - 1 |-> dec2[d].prev] BY <1>2, <1>14, <1>19 DEF Prevs
<1>23. \A s2 : Given(s2, n, m + 1) = [d \in 0 .. n - 1 |-> Story(s2, d).B[m + 1].values.after]
  BY DEF Given
<1>24. stream.nch = n OBVIOUS
<1> HIDE DEF n, cw, filled
<1>25. CASE ch < n - 1
  <2>1. pc' = "decode" /\ ch' = ch + 1 /\ row' = row BY <1>1, <1>5, <1>25
  <2>2. tape' = u
    <3>1. pc' # "astray" /\ ch < LastChannel /\ ~(stream.nch < 2)
      BY <1>2, <1>24, <1>25, <2>1
    <3>2. tape' = u \o <<>> BY <1>12, <1>20, <3>1
    <3>3. QED BY <1>21, <3>2
  <2>3. Placed' BY <1>15, <2>1, <2>2 DEF Placed, Retracing
  <2>4. \A d \in 0 .. n - 1 : d <= ch <=> d < ch' BY <1>2, <2>1
  <2>5. SlotTold' BY <1>2, <1>5, <1>14, <1>16, <1>19, <2>1, <2>4 DEF SlotTold
  <2>6. ChannelsTold'
    <3>1. \A d \in 0 .. n - 1 : Done(d)' = IF d <= ch THEN m + 1 ELSE m
      BY <1>9, <2>1, <2>4 DEF Done
    <3>2. QED BY <1>2, <1>5, <1>14, <1>15, <1>19, <1>24, <2>2, <3>1 DEF ChannelsTold
  <2>7. RowsTold'
    BY <1>5, <1>9, <1>11, <1>15, <1>24, <2>1, <2>2 DEF RowsTold
  <2>8. QED BY <2>3, <2>5, <2>6, <2>7 DEF TapeInv
<1>26. CASE ~(ch < n - 1) /\ n < 2
  <2>1. n = 1 /\ ch = 0 BY <1>2, <1>26
  <2>2. Deliver(filled) BY <1>5, <1>26
  <2>3. /\ ch' = 0 /\ row' = row + 1
        /\ pc' = IF row < Rows(frame) THEN "decode" ELSE "ready"
    BY <2>2 DEF Deliver
  <2>4. tape' = u \o RowOut(filled)
    BY <1>2, <1>5, <1>12, <1>20, <1>24, <1>26, <2>3
  <2>5. PICK v : v = u \o RowOut(filled) OBVIOUS
  <2>6. /\ Listed(v) /\ v # <<>>
        /\ LastOf(v).ev = IF row = Rows(frame) THEN "FRAME_END" ELSE "PCM_OUT"
        /\ \A c : c # -1 => Story(v, c) = Story(u, c)
        /\ Mixed(v) = Mixed(u)
    <3>1. RowOutHeard(u, v, filled) BY <1>15, <2>5, RowPlayed
    <3>2. QED BY <3>1 DEF RowOutHeard
  <2>7. Placed'
    BY <1>2, <1>7, <1>19, <2>3, <2>4, <2>5, <2>6 DEF Placed, Retracing
  <2>8. SlotTold'
    <3>1. \A d \in 0 .. n - 1 : ~(d < ch') BY <2>3
    <3>2. pc' # "inverse" BY <2>3
    <3>3. QED BY <1>2, <1>19, <3>1, <3>2 DEF SlotTold
  <2>9. Forward(filled, n) = Given(u, n, m + 1)
    <3>1. Forward(filled, n) = [d \in 0 .. n - 1 |-> filled[d]] BY <2>1 DEF Forward
    <3>2. ASSUME NEW d \in 0 .. n - 1 PROVE filled[d] = Story(u, d).B[m + 1].values.after
      <4>1. d <= ch BY <2>1
      <4>2. ChannelTold(u, n, d, m + 1, dec2[d], prime) BY <1>15, <4>1
      <4>3. QED BY <1>16, <4>1, <4>2, TellsPrev
    <3>3. QED BY <1>23, <3>1, <3>2
  <2>10. Len(Played(v)) = m + 1 /\ \A i \in 1 .. m + 1 : RowTold(v, n, i)
    <3>1. ~(n > 1) /\ n \in Nat /\ Len(Played(u)) = m BY <1>11, <1>15, <2>1
    <3>2. \A i \in 1 .. m : RowTold(u, n, i) BY <1>15
    <3>3. PlayedTold(v, n, m + 1) BY <1>9, <1>15, <2>5, <2>9, <3>1, <3>2, RowPlayedTold
    <3>4. QED BY <3>3 DEF PlayedTold
  <2>11. ChannelsTold'
    <3>1. \A d \in 0 .. n - 1 : Done(d)' = m + 1 /\ d <= ch /\ d # -1
      BY <1>9, <2>1, <2>3 DEF Done
    <3>2. ASSUME NEW d \in 0 .. n - 1 PROVE ChannelTold(v, n, d, m + 1, dec2[d], prime)
      <4>1. ChannelTold(u, n, d, m + 1, dec2[d], prime) BY <1>15, <3>1
      <4>2. Story(v, d) = Story(u, d) BY <2>6, <3>1
      <4>3. QED BY <4>1, <4>2 DEF ChannelTold
    <3>3. QED BY <1>2, <1>5, <1>14, <1>19, <1>24, <2>4, <2>5, <3>1, <3>2 DEF ChannelsTold
  <2>12. RowsTold'
    <3>1. row' - 1 = m + 1 /\ ~(n > 1) /\ Mixed(v) = <<>> /\ pc' # "inverse"
      BY <1>9, <1>11, <1>15, <2>1, <2>3, <2>6
    <3>2. QED BY <1>5, <1>24, <2>4, <2>5, <2>10, <3>1 DEF RowsTold
  <2>13. QED BY <2>7, <2>8, <2>11, <2>12 DEF TapeInv
<1>27. CASE ~(ch < n - 1) /\ ~(n < 2)
  <2>1. pc' = "inverse" /\ row' = row /\ ch' = ch /\ ch = n - 1 /\ n > 1 /\ n # 1
    BY <1>2, <1>5, <1>27
  <2>2. PICK t : t = OfSample("DECORR_PRE", filled) OBVIOUS
  <2>3. PICK v : v = Append(u, t) OBVIOUS
  <2>4. tape' = v
    <3>1. tape' = u \o <<t>> BY <1>2, <1>5, <1>12, <1>20, <1>24, <1>27, <2>1, <2>2
    <3>2. QED BY <1>21, <2>3, <3>1
  <2>5. /\ Listed(v) /\ v # <<>> /\ LastOf(v).ev = "DECORR_PRE"
        /\ \A c : c # -1 => Story(v, c) = Story(u, c)
        /\ Mixed(v) = Append(Mixed(u), t)
        /\ Played(v) = Played(u)
    <3>1. PICK kind : kind = "DECORR_PRE" OBVIOUS
    <3>2. v = Append(u, OfSample(kind, filled)) BY <2>2, <2>3, <3>1
    <3>3. RowHeard(u, v, kind, filled) BY <1>15, <3>1, <3>2, RowEvent
    <3>4. QED BY <2>2, <3>1, <3>3 DEF RowHeard
  <2>6. Listed(Mixed(u))
    BY <1>15, OfAppend DEF Mixed
  <2>7. Len(Mixed(v)) = m + 1 /\ Mixed(v)[m + 1] = t
        /\ \A i \in 1 .. m : Mixed(v)[i] = Mixed(u)[i]
    <3>1. Len(Mixed(u)) = m BY <1>11, <1>15, <2>1
    <3>2. Grown(Mixed(u), Mixed(v), t, m) BY <2>5, <2>6, <3>1, Grows
    <3>3. QED BY <3>2 DEF Grown
  <2>8. t.values = filled BY <2>2 DEF OfSample
  <2>9. filled = Prevs'
    <3>1. filled = [d \in 0 .. n - 1 |-> filled[d]] BY <1>18
    <3>2. \A d \in 0 .. n - 1 : d <= ch BY <1>2, <2>1
    <3>3. QED BY <1>16, <1>22, <3>1, <3>2
  <2>10. Placed' BY <2>1, <2>4, <2>5 DEF Placed, Retracing
  <2>11. SlotTold'
    <3>1. Undone(filled, filled, n, ch)
      <4>1. \A d \in 0 .. n - 1 : d <= ch BY <1>2, <2>1
      <4>2. QED BY <1>18, <4>1 DEF Undone
    <3>2. QED BY <1>5, <1>24, <2>1, <2>9, <3>1 DEF SlotTold
  <2>12. ChannelsTold'
    <3>1. \A d \in 0 .. n - 1 : Done(d)' = m + 1 /\ d <= ch /\ d # -1
      BY <1>2, <1>9, <2>1 DEF Done
    <3>2. ASSUME NEW d \in 0 .. n - 1 PROVE ChannelTold(v, n, d, m + 1, dec2[d], prime)
      <4>1. ChannelTold(u, n, d, m + 1, dec2[d], prime) BY <1>15, <3>1
      <4>2. Story(v, d) = Story(u, d) BY <2>5, <3>1
      <4>3. QED BY <4>1, <4>2 DEF ChannelTold
    <3>3. QED BY <1>2, <1>5, <1>14, <1>19, <1>24, <2>4, <3>1, <3>2 DEF ChannelsTold
  <2>13. RowsTold'
    <3>1. ASSUME NEW i \in 1 .. m PROVE RowTold(v, n, i)
      <4>1. \A d \in 0 .. n - 1 : Story(v, d).B[i] = Story(u, d).B[i]
        <5>1. \A d \in 0 .. n - 1 : d # -1 OBVIOUS
        <5>2. QED BY <2>5, <5>1
      <4>2. SameRow(u, v, n, i) BY <2>5, <2>7, <4>1 DEF SameRow
      <4>3. QED BY <1>2, <1>15, <4>2, RowKept
    <3>2. /\ Len(Played(v)) = row' - 1 /\ Len(Mixed(v)) = row' /\ Mixed(v)[row'].values = Prevs'
          /\ row' - 1 = m
      BY <1>9, <1>11, <1>15, <2>1, <2>5, <2>7, <2>8, <2>9
    <3>3. QED BY <1>5, <1>24, <2>1, <2>4, <3>1, <3>2 DEF RowsTold
  <2>14. QED BY <2>10, <2>11, <2>12, <2>13 DEF TapeInv
<1>28. QED BY <1>25, <1>26, <1>27

LEMMA TracedInverseStep ==
  ASSUME IInv, IInv', TapeInv, TracedInverse
  PROVE  TapeInv'
<1> DEFINE n == stream.nch
           r == IF ch = LastChannel THEN Anchored(slot, n) ELSE Cascaded(slot, ch)
<1>1. /\ TypeOK /\ Shaped /\ pc = "inverse" /\ InverseStep
      /\ Placed /\ SlotTold /\ (tape # <<>> => ChannelsTold /\ RowsTold)
  BY DEF IInv, TapeInv, TracedInverse, InverseStep
<1>2. /\ n \in Nat \ {0} /\ Channels = 0 .. n - 1 /\ LastChannel = n - 1 /\ ch \in 0 .. n - 1
      /\ Rows(frame) \in Nat \ {0} /\ row \in Nat \ {0} /\ frame \in DOMAIN stream.frames
  BY <1>1, Here
<1>3. n >= 2 /\ row <= Rows(frame) /\ n > 1 /\ n # 1 /\ n \in Nat
  BY <1>1, <1>2 DEF Shaped, Retracing
<1>4. /\ slot' = r
      /\ IF ch > 0
         THEN ch' = ch - 1 /\ pc' = pc /\ row' = row /\ out' = out
         ELSE Deliver(r)
      /\ stream' = stream /\ prime' = prime /\ frame' = frame /\ dec' = dec
  BY <1>1 DEF InverseStep
<1>5. Channels' = Channels /\ Rows(frame)' = Rows(frame) BY <1>4 DEF Channels, Rows
<1>6. Listed(tape) /\ tape # <<>> /\ ChannelsTold /\ RowsTold
      /\ LastOf(tape).ev # "FRAME_END"
  BY <1>1 DEF Placed, Retracing
<1>7. PICK m \in Nat : row = m + 1 /\ row - 1 = m
  <2>1. row - 1 \in Nat /\ row = (row - 1) + 1 BY <1>2
  <2>2. QED BY <2>1
<1>8. \A d \in 0 .. n - 1 : ChannelTold(tape, n, d, m + 1, dec[d], prime)
  BY <1>1, <1>2, <1>6, <1>7 DEF ChannelsTold, Done
<1>9. /\ Len(Played(tape)) = m /\ Len(Mixed(tape)) = m + 1
      /\ Mixed(tape)[m + 1].values = Prevs
      /\ \A i \in 1 .. m : RowTold(tape, n, i)
  BY <1>1, <1>3, <1>6, <1>7 DEF RowsTold
<1>10. Prevs \in [0 .. n - 1 -> Ints]
  <2>1. dec \in [0 .. n - 1 -> ChannelState] BY <1>1, <1>2 DEF TypeOK
  <2>2. \A d \in 0 .. n - 1 : dec[d].prev \in Ints BY <2>1 DEF ChannelState
  <2>3. QED BY <1>2, <2>2 DEF Prevs
<1>11. Prevs' = Prevs BY <1>4, <1>5 DEF Prevs
<1>12. Undone(slot, Prevs, n, ch) BY <1>1 DEF SlotTold
<1>13. r = IF ch = n - 1 THEN Anchored(slot, n) ELSE Cascaded(slot, ch) BY <1>2
<1>14. r \in [0 .. n - 1 -> Ints]
  <2>1. slot \in [0 .. n - 1 -> Ints] BY <1>12 DEF Undone
  <2>2. \A c \in 0 .. n - 1 : slot[c] \in Int BY <2>1, IntsAreIntegers
  <2>3. CASE ch = n - 1
    <3>1. n - 1 \in 0 .. n - 1 /\ n - 2 \in 0 .. n - 1 BY <1>2, <1>3
    <3>2. HalfTowardZero(slot[n - 2]) \in Int BY <2>2, <3>1, HalfTyped
    <3>3. slot[n - 1] + HalfTowardZero(slot[n - 2]) \in Int BY <2>2, <3>1, <3>2
    <3>4. Signed(slot[n - 1] + HalfTowardZero(slot[n - 2])) \in Ints BY <3>3, SignedOff
    <3>5. r = [slot EXCEPT ![n - 1] = Signed(slot[n - 1] + HalfTowardZero(slot[n - 2]))]
      BY <1>13, <2>3 DEF Anchored
    <3>6. QED BY <2>1, <3>1, <3>4, <3>5
  <2>4. CASE ch # n - 1
    <3>1. ch + 1 \in 0 .. n - 1 BY <1>2, <2>4
    <3>2. slot[ch + 1] - slot[ch] \in Int BY <1>2, <2>2, <3>1
    <3>3. Signed(slot[ch + 1] - slot[ch]) \in Ints BY <3>2, SignedOff
    <3>4. r = [slot EXCEPT ![ch] = Signed(slot[ch + 1] - slot[ch])]
      BY <1>13, <2>4 DEF Cascaded
    <3>5. QED BY <1>2, <2>1, <3>3, <3>4
  <2>5. QED BY <2>3, <2>4
<1>15. stream.nch = n OBVIOUS
<1>16. tape' = IF ch > 0 THEN tape
               ELSE (tape \o <<OfSample("DECORR_POST", slot')>>) \o RowOut(slot')
  BY DEF TracedInverse
<1> HIDE DEF n, r
<1>17. Undone(r, Prevs, n, ch - 1) BY <1>2, <1>3, <1>10, <1>12, <1>13, <1>14, UndoneStep
<1>18. CASE ch > 0
  <2>1. ch' = ch - 1 /\ pc' = "inverse" /\ row' = row /\ tape' = tape
    BY <1>1, <1>4, <1>16, <1>18
  <2>2. Placed' BY <1>1, <1>6, <2>1 DEF Placed, Retracing
  <2>3. SlotTold' BY <1>4, <1>11, <1>15, <1>17, <2>1 DEF SlotTold
  <2>4. ChannelsTold'
    <3>1. \A d \in 0 .. n - 1 : Done(d)' = m + 1 BY <1>7, <2>1 DEF Done
    <3>2. QED BY <1>2, <1>4, <1>5, <1>8, <1>15, <2>1, <3>1 DEF ChannelsTold
  <2>5. RowsTold'
    BY <1>3, <1>4, <1>7, <1>9, <1>11, <1>15, <2>1 DEF RowsTold
  <2>6. QED BY <2>2, <2>3, <2>4, <2>5 DEF TapeInv
<1>19. CASE ~(ch > 0)
  <2>1. ch = 0 /\ Deliver(r) BY <1>2, <1>4, <1>19
  <2>2. /\ ch' = 0 /\ row' = row + 1
        /\ pc' = IF row < Rows(frame) THEN "decode" ELSE "ready"
    BY <2>1 DEF Deliver
  <2>3. PICK t : t = OfSample("DECORR_POST", r) OBVIOUS
  <2>4. PICK u : u = Append(tape, t) OBVIOUS
  <2>5. tape' = u \o RowOut(r)
    <3>1. tape' = (tape \o <<t>>) \o RowOut(r) BY <1>4, <1>16, <1>19, <2>3
    <3>2. tape \o <<t>> = Append(tape, t)
      <4>1. PICK T : tape \in Seq(T) BY <1>6 DEF Listed
      <4>2. PICK U : U = T \cup {t} OBVIOUS
      <4>3. tape \in Seq(U)
        <5>1. Len(tape) \in Nat /\ tape \in [1 .. Len(tape) -> T] BY <4>1
        <5>2. tape \in [1 .. Len(tape) -> U] BY <4>2, <5>1
        <5>3. QED BY <4>1, <4>2, <5>1, <5>2
      <4>4. t \in U BY <4>2
      <4>5. QED BY <4>3, <4>4
    <3>3. QED BY <2>4, <3>1, <3>2
  <2>6. /\ Listed(u) /\ Mixed(u) = Mixed(tape) /\ Played(u) = Played(tape)
        /\ \A c : c # -1 => Story(u, c) = Story(tape, c)
    <3>1. PICK kind : kind = "DECORR_POST" OBVIOUS
    <3>2. u = Append(tape, OfSample(kind, r)) BY <2>3, <2>4, <3>1
    <3>3. RowHeard(tape, u, kind, r) BY <1>6, <3>1, <3>2, RowEvent
    <3>4. QED BY <3>1, <3>3 DEF RowHeard
  <2>7. PICK v : v = u \o RowOut(r) OBVIOUS
  <2>8. /\ Listed(v) /\ v # <<>>
        /\ LastOf(v).ev = IF row = Rows(frame) THEN "FRAME_END" ELSE "PCM_OUT"
        /\ \A c : c # -1 => Story(v, c) = Story(u, c)
        /\ Mixed(v) = Mixed(u)
    <3>1. RowOutHeard(u, v, r) BY <2>6, <2>7, RowPlayed
    <3>2. QED BY <3>1 DEF RowOutHeard
  <2>9. tape' = v BY <2>5, <2>7
  <2>10. \A d \in 0 .. n - 1 : d # -1 /\ Story(u, d) = Story(tape, d) /\ Story(v, d) = Story(u, d)
    <3>1. \A d \in 0 .. n - 1 : d # -1 OBVIOUS
    <3>2. QED BY <2>6, <2>8, <3>1
  <2>11. Placed'
    BY <1>2, <1>3, <1>5, <2>2, <2>8, <2>9 DEF Placed, Retracing
  <2>12. SlotTold'
    <3>1. \A d \in 0 .. n - 1 : ~(d < ch') BY <2>2
    <3>2. pc' # "inverse" BY <2>2
    <3>3. QED BY <1>2, <1>5, <3>1, <3>2 DEF SlotTold
  <2>13. Given(u, n, m + 1) = Prevs
    <3>1. \A d \in 0 .. n - 1 : Story(u, d).B[m + 1].values.after = dec[d].prev
      <4>1. ASSUME NEW d \in 0 .. n - 1
            PROVE  Story(u, d).B[m + 1].values.after = dec[d].prev
        <5>1. ChannelTold(u, n, d, m + 1, dec[d], prime) BY <1>8, <2>10 DEF ChannelTold
        <5>2. QED BY <5>1, TellsPrev
      <4>2. QED BY <4>1
    <3>2. QED BY <1>2, <3>1 DEF Given, Prevs
  <2>14. Forward(r, n) = Prevs
    <3>1. ch - 1 = -1 BY <2>1
    <3>2. Undone(r, Prevs, n, -1) BY <1>17, <3>1
    <3>3. QED BY <1>3, <1>10, <3>2, ForwardOfUndone
  <2>15. PlayedTold(v, n, m + 1)
    <3>1. ASSUME NEW i \in 1 .. m PROVE RowTold(u, n, i)
      <4>1. SameRow(tape, u, n, i) BY <2>6, <2>10 DEF SameRow
      <4>2. QED BY <1>3, <1>9, <4>1, RowKept
    <3>2. Forward(r, n) = Given(u, n, m + 1)
          /\ Mixed(u)[m + 1].values = Given(u, n, m + 1) /\ Len(Played(u)) = m
      BY <1>9, <2>6, <2>13, <2>14
    <3>3. QED BY <1>3, <1>7, <2>6, <2>7, <3>1, <3>2, RowPlayedTold
  <2>16. ChannelsTold'
    <3>1. \A d \in 0 .. n - 1 : Done(d)' = m + 1
      <4>1. \A d \in 0 .. n - 1 : ~(d < ch') BY <2>2
      <4>2. row' - 1 = m + 1 /\ pc' # "inverse" BY <1>7, <2>2
      <4>3. QED BY <4>1, <4>2 DEF Done
    <3>2. ASSUME NEW d \in 0 .. n - 1 PROVE ChannelTold(v, n, d, m + 1, dec[d], prime)
      BY <1>8, <2>10 DEF ChannelTold
    <3>3. QED BY <1>2, <1>4, <1>5, <1>15, <2>9, <3>1, <3>2 DEF ChannelsTold
  <2>17. RowsTold'
    <3>1. row' - 1 = m + 1 /\ pc' # "inverse" /\ Len(Mixed(v)) = m + 1
      BY <1>7, <1>9, <2>2, <2>6, <2>8
    <3>2. Len(Played(v)) = m + 1 /\ \A i \in 1 .. m + 1 : RowTold(v, n, i)
      BY <2>15 DEF PlayedTold
    <3>3. QED BY <1>3, <1>4, <1>15, <2>9, <3>1, <3>2 DEF RowsTold
  <2>18. QED BY <2>11, <2>12, <2>16, <2>17 DEF TapeInv
<1>20. QED BY <1>18, <1>19

LEMMA TapeStutterStep ==
  ASSUME TapeInv, UNCHANGED traceVars
  PROVE  TapeInv'
<1>1. UNCHANGED vars /\ tape' = tape BY DEF traceVars
<1> USE DEF vars
<1>2. Channels' = Channels /\ Rows(frame)' = Rows(frame) BY <1>1 DEF Channels, Rows
<1>3. Prevs' = Prevs /\ \A c : Done(c)' = Done(c) BY <1>1, <1>2 DEF Prevs, Done
<1>4. Placed' <=> Placed BY <1>1, <1>2 DEF Placed, Retracing
<1>5. SlotTold' <=> SlotTold BY <1>1, <1>2, <1>3 DEF SlotTold
<1>6. ChannelsTold' <=> ChannelsTold BY <1>1, <1>2, <1>3 DEF ChannelsTold
<1>7. RowsTold' <=> RowsTold BY <1>1, <1>3 DEF RowsTold
<1>8. QED BY <1>1, <1>4, <1>5, <1>6, <1>7 DEF TapeInv

LEMMA TracesCodec == [TraceNext]_traceVars => [Next]_vars
  BY DEF TraceNext, TracedEncode, TracedStart, TracedDecode, TracedInverse, Next, traceVars

LEMMA TapeInductive == IInv /\ TapeInv /\ [TraceNext]_traceVars => IInv' /\ TapeInv'
<1> SUFFICES ASSUME IInv, TapeInv, [TraceNext]_traceVars PROVE IInv' /\ TapeInv' OBVIOUS
<1>1. IInv' BY TracesCodec, Inductive
<1>2. CASE TracedEncode BY <1>1, <1>2, TracedEncodeStep
<1>3. CASE \E f \in DOMAIN stream.frames : TracedStart(f) BY <1>1, <1>3, TracedStartStep
<1>4. CASE TracedDecode BY <1>1, <1>4, TracedDecodeStep
<1>5. CASE TracedInverse BY <1>1, <1>5, TracedInverseStep
<1>6. CASE UNCHANGED traceVars BY <1>1, <1>6, TapeStutterStep
<1>7. QED BY <1>1, <1>2, <1>3, <1>4, <1>5, <1>6 DEF TraceNext

\* The events are those of the tape.
LEMMA EventsOf == \A kinds, c : Events(kinds, c) = Of(tape, kinds, c)
  BY DEF Events, Of

LEMMA ToldReplays ==
  ASSUME Listed(tape), NEW c, NEW m, NEW st,
         ChannelTold(tape, stream.nch, c, m, st, prime)
  PROVE  ChannelReplays(c)
<1>1. PICK K, R, P, A, Q, B :
        /\ K = Story(tape, c).K /\ R = Story(tape, c).R /\ P = Story(tape, c).P
        /\ A = Story(tape, c).A /\ Q = Story(tape, c).Q /\ B = Story(tape, c).B
  OBVIOUS
<1>2. Told(K, R, P, A, Q, B, stream.nch, c, m, st, prime) BY <1>1 DEF ChannelTold
<1>3. DOMAIN R = 1 .. m
  <2>1. Listed(R) BY <1>1, OfAppend DEF Story
  <2>2. PICK T : R \in Seq(T) BY <2>1 DEF Listed
  <2>3. Len(R) = m BY <1>2 DEF Told
  <2>4. QED BY <2>2, <2>3
<1>4. \A i \in DOMAIN R : Replays(K, R, P, A, Q, B, stream.nch, c, i, prime)
  BY <1>2, <1>3 DEF Told
<1>5. /\ K = Events({"RICE_K_INIT", "RICE_K_UPDATE"}, c) /\ R = Events({"RICE_DECODE"}, c)
      /\ P = Events({"LMS_PRE"}, c) /\ A = Events({"STAGE_A_PREDICT"}, c)
      /\ Q = Events({"LMS_POST"}, c) /\ B = Events({"STAGE_B_PREDICT"}, c)
  BY <1>1, EventsOf DEF Story
<1>6. QED BY <1>4, <1>5 DEF ChannelReplays, Replays

LEMMA ToldTapeReplays == IInv /\ TapeInv => TapeReplays
<1> SUFFICES ASSUME IInv, TapeInv PROVE TapeReplays OBVIOUS
<1>1. TypeOK /\ Shaped /\ Placed /\ Listed(tape) /\ (tape # <<>> => ChannelsTold /\ RowsTold)
  BY DEF IInv, TapeInv, Placed
<1>2. /\ stream.nch \in Nat \ {0} /\ Channels = 0 .. stream.nch - 1
      /\ Rows(frame) \in Nat \ {0} /\ row \in Nat \ {0}
  BY <1>1, Here
<1>3. PICK D, O : D = Mixed(tape) /\ O = Played(tape) OBVIOUS
<1>4. D = Events({"DECORR_PRE"}, -1) /\ O = Events({"PCM_OUT"}, -1)
  BY <1>3, EventsOf DEF Mixed, Played
<1>5. ASSUME NEW c \in Channels PROVE ChannelReplays(c)
  <2>1. CASE tape = <<>>
    <3>1. Events({"RICE_DECODE"}, c) = <<>> BY <2>1, EventsOf, OfNothing
    <3>2. \A i : i \notin DOMAIN <<>> OBVIOUS
    <3>3. QED BY <3>1, <3>2 DEF ChannelReplays
  <2>2. CASE tape # <<>>
    <3>1. ChannelTold(tape, stream.nch, c, Done(c), dec[c], prime)
      BY <1>1, <2>2 DEF ChannelsTold
    <3>2. QED BY <1>1, <3>1, ToldReplays
  <2>3. QED BY <2>1, <2>2
<1>6. RowsReplay
  <2>1. CASE tape = <<>>
    <3>1. D = <<>> /\ O = <<>> BY <1>4, <2>1, EventsOf, OfNothing
    <3>2. \A i : i \notin DOMAIN <<>> OBVIOUS
    <3>3. QED BY <1>4, <2>1, <3>1, <3>2 DEF RowsReplay
  <2>2. CASE tape # <<>>
    <3>1. RowsTold BY <1>1, <2>2
    <3>2. DOMAIN O = 1 .. row - 1 /\ Len(O) = row - 1
      <4>1. Listed(O) BY <1>1, <1>3, OfAppend DEF Played
      <4>2. PICK T : O \in Seq(T) BY <4>1 DEF Listed
      <4>3. Len(O) = row - 1 BY <1>3, <3>1 DEF RowsTold
      <4>4. QED BY <4>2, <4>3
    <3>3. ASSUME NEW i \in DOMAIN O,
                 NEW given, given = [c \in Channels |-> Events({"STAGE_B_PREDICT"}, c)[i].values.after]
          PROVE  /\ O[i].sample = i - 1
                 /\ Forward(O[i].values, stream.nch) = given
                 /\ stream.nch > 1 => D[i].values = given
      <4>1. RowTold(tape, stream.nch, i) BY <3>1, <3>2 DEF RowsTold
      <4>2. given = Given(tape, stream.nch, i)
        BY <1>2, <3>3, EventsOf, Zenon DEF Given, Story
      <4>3. QED BY <1>3, <4>1, <4>2 DEF RowTold
    <3>4. stream.nch = 1 => D = <<>> BY <1>3, <3>1 DEF RowsTold
    <3>5. tape[Len(tape)].ev = "FRAME_END" => Len(O) = Rows(frame)
      <4>1. SUFFICES ASSUME LastOf(tape).ev = "FRAME_END" PROVE Len(O) = Rows(frame)
        BY DEF LastOf
      <4>2. ~Retracing /\ pc # "encode" BY <1>1, <2>2, <4>1 DEF Placed
      <4>3. pc = "ready" BY <1>1, <4>2 DEF Shaped, Retracing
      <4>4. row = Rows(frame) + 1 BY <1>1, <2>2, <4>3 DEF Placed
      <4>5. QED BY <1>2, <3>2, <4>4
    <3>6. QED BY <1>4, <3>3, <3>4, <3>5 DEF RowsReplay
  <2>3. QED BY <2>1, <2>2
<1>7. QED BY <1>5, <1>6 DEF TapeReplays

(***************************************************************************)
(* TracedImplements: the trace build decodes what the plain build does;    *)
(* an event is written behind every step and alters none (trace.rs,        *)
(* decoder.rs:170-297).                                                    *)
(***************************************************************************)
THEOREM TracedImplements == TraceSpec => Spec
<1>1. TraceInit => Init BY DEF TraceInit
<1>2. QED BY <1>1, TracesCodec, PTL DEF TraceSpec, Spec

(***************************************************************************)
(* TapeReplaysCorrect: for every stream, priming and width of the word,    *)
(* the tape of a decoder can be followed from event to event, even where   *)
(* a residual was the least integer and the samples are wrong.             *)
(***************************************************************************)
THEOREM TapeReplaysCorrect == TraceSpec => []TapeReplays
<1>1. TraceInit => IInv /\ TapeInv BY InitIInv, TapeStarts DEF TraceInit
<1>2. QED BY <1>1, TapeInductive, ToldTapeReplays, PTL DEF TraceSpec
=============================================================================
