----------------------------- MODULE Predictor -----------------------------
(***************************************************************************)
(* The two predictors of a channel: the 8-tap sign-LMS of Stage A          *)
(* (src/lms.rs, lms_step_encode of src/encoder.rs) and the fixed Stage B   *)
(* (src/stage_b.rs), and the channel decorrelation (src/decorr.rs).        *)
(***************************************************************************)
EXTENDS Word

CONSTANTS
  Shift,        \* 9 or 10, by the sample's width in bytes
  DxMags        \* <<1, 2, 2, 4>>: magnitudes of taps 4 to 7

ASSUME PredictorAssumption ==
  /\ Shift \in 1 .. W - 1
  /\ DxMags \in [1 .. 4 -> 0 .. 2^(W - 1) - 1]

Taps == 0 .. 7
LmsState == [dl : [Taps -> Ints], dx : [Taps -> Ints], qm : [Taps -> Ints], error : Ints]
LmsInit(prime) ==
  [dl |-> [i \in Taps |-> 0], dx |-> [i \in Taps |-> 0], qm |-> prime, error |-> 0]

Sign(x) == IF x > 0 THEN 1 ELSE IF x < 0 THEN -1 ELSE 0

\* STEP 1: the weights, corrected by the sign of the previous residual.
Weights(st) == [i \in Taps |-> Signed(st.qm[i] + Sign(st.error) * st.dx[i])]

\* STEP 2: the rounded and shifted dot product.  It wraps, so it may wrap once.
Dot(a, b) ==
  a[0] * b[0] + a[1] * b[1] + a[2] * b[2] + a[3] * b[3]
    + a[4] * b[4] + a[5] * b[5] + a[6] * b[6] + a[7] * b[7]
\* Faulty variant: the sum is used as it is.
PredictionUnshifted(st) == Signed(2^(Shift - 1) + Dot(st.dl, Weights(st)))

Prediction(st) == ShiftedRight(Signed(2^(Shift - 1) + Dot(st.dl, Weights(st))), Shift)

\* STEPs 3 to 5, for the residual e and the sample s that belong together.
Advanced(st, e, s) ==
  [dl |-> [i \in Taps |->
             CASE i < 4 -> st.dl[i + 1]
               [] i = 4 -> Signed(s - st.dl[5] - st.dl[6] - st.dl[7])
               [] i = 5 -> Signed(s - st.dl[6] - st.dl[7])
               [] i = 6 -> Signed(s - st.dl[7])
               [] i = 7 -> s],
   dx |-> [i \in Taps |->
             IF i < 4 THEN st.dx[i + 1]
             ELSE IF st.dl[i] < 0 THEN -DxMags[i - 3] ELSE DxMags[i - 3]],
   qm |-> Weights(st),
   error |-> e]

LmsSample(st, e) == Signed(e + Prediction(st))        \* decoder
LmsResidual(st, s) == Signed(s - Prediction(st))      \* encoder

-----------------------------------------------------------------------------
PredictionB(prev) == ShiftedRight(Signed(prev * 31), 5)

-----------------------------------------------------------------------------
\* The encoder's decorrelation: differences, the last channel less half of one.
Forward(pcm, nch) ==
  LET delta == [c \in 0 .. nch - 2 |-> Signed(pcm[c + 1] - pcm[c])]
  IN  [c \in 0 .. nch - 1 |->
         IF c < nch - 1 THEN delta[c]
         ELSE IF nch < 2 THEN pcm[c]
         ELSE Signed(pcm[c] - HalfTowardZero(delta[nch - 2]))]

\* The decoder's cascade in place, from the highest channel down.
Anchored(row, nch) ==
  [row EXCEPT ![nch - 1] = Signed(row[nch - 1] + HalfTowardZero(row[nch - 2]))]
Cascaded(row, c) == [row EXCEPT ![c] = Signed(row[c + 1] - row[c])]
=============================================================================
