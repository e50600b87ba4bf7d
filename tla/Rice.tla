-------------------------------- MODULE Rice --------------------------------
(***************************************************************************)
(* The adaptive Rice code: src/rice.rs for the decoder, rice_encode_one of *)
(* src/encoder.rs for the encoder.  Nothing is sent but the codewords;     *)
(* each side adapts its own (k0, k1, sum0, sum1) and must stay in step.    *)
(***************************************************************************)
EXTENDS Word

CONSTANTS
  Decay,        \* 4: a tracker forgets a 16th of its sum per value
  InitK,        \* 10
  MaxK          \* 31

ASSUME RiceAssumption ==
  /\ Decay \in Nat /\ InitK \in Nat /\ MaxK \in 0 .. W - 1 /\ InitK <= MaxK
  /\ InitK + Decay < W

RiceState == [k0 : 0 .. MaxK, k1 : 0 .. MaxK, sum0 : Words, sum1 : Words]

RiceInit ==
  [k0 |-> InitK, k1 |-> InitK, sum0 |-> 2^(InitK + Decay), sum1 |-> 2^(InitK + Decay)]

ShlSaturating(n) == IF n >= W - 1 THEN 2^(W - 1) ELSE 2^n

\* The feedback law of one tracker, written out five times in the code.
NextSum(sum, v) == Wrap(sum + v - sum \div 2^Decay)

\* Faulty variant: no cap on the way up.
NextKUncapped(k, sum) ==
  IF k > 0 /\ sum < ShlSaturating(k + Decay) THEN k - 1
  ELSE IF sum > ShlSaturating(k + Decay + 1) THEN k + 1
  ELSE k

NextK(k, sum) ==
  IF k > 0 /\ sum < ShlSaturating(k + Decay) THEN k - 1
  ELSE IF k < MaxK /\ sum > ShlSaturating(k + Decay + 1) THEN k + 1
  ELSE k

Adapted0(st, v) ==
  LET sum == NextSum(st.sum0, v)
  IN  [st EXCEPT !.sum0 = sum, !.k0 = NextK(st.k0, sum)]
Adapted1(st, v) ==
  LET sum == NextSum(st.sum1, v)
  IN  [st EXCEPT !.sum1 = sum, !.k1 = NextK(st.k1, sum)]

Zigzag(e) == IF e > 0 THEN Wrap(2 * e - 1) ELSE Wrap(2 * Wrap(-e))
Dezigzag(v) == IF v % 2 = 1 THEN Wrap(v + 1) \div 2 ELSE -(v \div 2)

-----------------------------------------------------------------------------
(***************************************************************************)
(* Encoder.  A codeword is `ones' one-bits, a zero, and `tail' in `width'  *)
(* bits.                                                                   *)
(***************************************************************************)
LowMode(st, e) == Zigzag(e) < 2^st.k0
PreBias(st, e) == Zigzag(e) - 2^st.k0

Codeword(st, e) ==
  IF LowMode(st, e)
  THEN [ones |-> 0, width |-> st.k0, tail |-> Zigzag(e)]
  ELSE [ones  |-> PreBias(st, e) \div 2^st.k1 + 1,
        width |-> st.k1,
        tail  |-> PreBias(st, e) % 2^st.k1]

\* Faulty variant: the second tracker also sees the value before the bias.
EncoderNextUnbiased(st, e) ==
  IF LowMode(st, e) THEN Adapted0(st, Zigzag(e))
  ELSE Adapted0(Adapted1(st, PreBias(st, e)), PreBias(st, e))

EncoderNext(st, e) ==
  IF LowMode(st, e) THEN Adapted0(st, Zigzag(e))
  ELSE Adapted0(Adapted1(st, PreBias(st, e)), Wrap(PreBias(st, e) + 2^st.k0))

BitLength(cw) == cw.ones + 1 + cw.width

-----------------------------------------------------------------------------
(***************************************************************************)
(* Decoder.  After the unary prefix it asks for k0 or k1 bits; the k       *)
(* updates use the pre-bias, then the post-bias value.                     *)
(***************************************************************************)
TailWidth(st, ones) == IF ones = 0 THEN st.k0 ELSE st.k1

RawValue(cw) ==
  IF cw.ones = 0 THEN cw.tail ELSE Wrap((cw.ones - 1) * 2^cw.width + cw.tail)

FinalValue(st, cw) ==
  IF cw.ones = 0 THEN cw.tail ELSE Wrap(RawValue(cw) + ShlSaturating(st.k0))

DecoderNext(st, cw) ==
  Adapted0(IF cw.ones = 0 THEN st ELSE Adapted1(st, RawValue(cw)), FinalValue(st, cw))

Residual(st, cw) == Dezigzag(FinalValue(st, cw))
=============================================================================
