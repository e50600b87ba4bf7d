----------------------------- MODULE FrameCodec -----------------------------
(***************************************************************************)
(* Frames through the codec and back: encode_one_frame of src/encoder.rs,  *)
(* decode_frame_inner of src/decoder.rs.  Encoder and decoder share the    *)
(* body and nothing else; each carries, per channel, a Rice tracker, an    *)
(* LMS filter and a Stage-B register, new at every frame.  The frames of a *)
(* stream are encoded in order, then decoded in any order, any number of   *)
(* times.  A body is the sequence of its codewords: packing them into bits *)
(* is BitReader's matter, and a decoder that asks for another width than   *)
(* was written is "astray" for good.                                       *)
(***************************************************************************)
EXTENDS Rice, Predictor, Sequences

CONSTANTS
  Streams,      \* [nch, frames]: a frame is a sequence of rows of nch samples
  Primings,     \* initial LMS weights: zeros, or a password's digest
  Depth,        \* bits per sample, 16 .. 24
  ByteBits      \* 8

ASSUME StreamsAssumption ==
  \A s \in Streams :
    /\ s.nch \in Nat \ {0}
    /\ s.frames \in Seq(Seq([0 .. s.nch - 1 -> Ints]) \ {<<>>}) \ {<<>>}
ASSUME PrimingsAssumption == Primings \subseteq [Taps -> Ints]
\* 24 of 32 bits, and a prediction of at most 22 of them.
ASSUME DepthAssumption == W > 5 /\ Depth \in 1 .. W - 4 /\ Shift > 1
ASSUME ByteAssumption == ByteBits \in Nat \ {0}

VARIABLES
  stream,       \* the samples, cut into frames
  prime,        \* the priming of both sides
  pc,           \* "encode", "ready", "decode", "inverse"; "refused", "astray"
  frame,        \* the frame being encoded or decoded
  row, ch,      \* where the loops over it are
  enc,          \* the encoder's channel states
  bodies,       \* per frame begun, its codewords and their length in bits
  dec,          \* the decoder's channel states
  slot,         \* the output row being filled
  out,          \* the rows decoded
  clipped       \* history: some residual was LeastInt, which zigzag maps to 0

decoderVars == <<dec, slot, out>>
vars == <<stream, prime, pc, frame, row, ch, enc, bodies, dec, slot, out, clipped>>

Channels == 0 .. stream.nch - 1
LastChannel == stream.nch - 1
Rows(f) == Len(stream.frames[f])

FreshChannels ==
  [c \in Channels |-> [rice |-> RiceInit, lms |-> LmsInit(prime), prev |-> 0]]

EmptyBody == [words |-> <<>>, bits |-> 0]
Extended(body, cw) ==
  [words |-> Append(body.words, cw), bits |-> body.bits + BitLength(cw)]

-----------------------------------------------------------------------------
Init ==
  /\ stream \in Streams
  /\ prime \in Primings
  /\ pc = "encode" /\ frame = 1 /\ row = 1 /\ ch = 0
  /\ enc = FreshChannels
  /\ bodies = <<EmptyBody>>
  /\ dec = FreshChannels /\ slot = <<>> /\ out = <<>>
  /\ clipped = FALSE

\* Stage B, then Stage A: the residual of the decorrelated sample s.
InputA(st, s) == Signed(s - PredictionB(st.prev))
EncoderResidual(st, s) == LmsResidual(st.lms, InputA(st, s))

\* Faulty variant: Stage B keeps what it hands on, not what it got.
EncodedPrevLost(st, s) ==
  LET e == EncoderResidual(st, s)
  IN  [rice |-> EncoderNext(st.rice, e), lms |-> Advanced(st.lms, e, InputA(st, s)),
       prev |-> InputA(st, s)]

Encoded(st, s) ==
  LET e == EncoderResidual(st, s)
  IN  [rice |-> EncoderNext(st.rice, e), lms |-> Advanced(st.lms, e, InputA(st, s)),
       prev |-> s]

\* One turn of the encoder's inner loop.
EncodeOne ==
  LET s == Forward(stream.frames[frame][row], stream.nch)[ch]
      e == EncoderResidual(enc[ch], s)
  IN
  /\ pc = "encode" /\ row <= Rows(frame)
  /\ bodies' = [bodies EXCEPT ![frame] = Extended(@, Codeword(enc[ch].rice, e))]
  /\ enc' = [enc EXCEPT ![ch] = Encoded(@, s)]
  /\ clipped' = (clipped \/ e = LeastInt)
  /\ ch' = IF ch < LastChannel THEN ch + 1 ELSE 0
  /\ row' = IF ch < LastChannel THEN row ELSE row + 1
  /\ UNCHANGED <<stream, prime, pc, frame, decoderVars>>

\* encode_one_frame returns; encode_inner's loop calls it for the next frame.
FinishBody ==
  /\ pc = "encode" /\ row > Rows(frame)
  /\ IF frame < Len(stream.frames)
     THEN /\ pc' = pc /\ frame' = frame + 1
          /\ bodies' = Append(bodies, EmptyBody)
          /\ enc' = FreshChannels
     ELSE pc' = "ready" /\ UNCHANGED <<frame, bodies, enc>>
  /\ row' = 1
  /\ UNCHANGED <<stream, prime, ch, decoderVars, clipped>>

-----------------------------------------------------------------------------
\* The bits of a body, padded to a byte.
BodyBits(body) == ((body.bits + ByteBits - 1) \div ByteBits) * ByteBits

\* The gate before the allocation, and new channel states.
StartFrame(f) ==
  /\ pc = "ready"
  /\ pc' = IF Rows(f) * stream.nch > BodyBits(bodies[f]) THEN "refused" ELSE "decode"
  /\ frame' = f /\ row' = 1 /\ ch' = 0
  /\ dec' = FreshChannels
  /\ slot' = [c \in Channels |-> 0]
  /\ out' = <<>>
  /\ UNCHANGED <<stream, prime, enc, bodies, clipped>>

\* The codeword under the reader's head: one per channel and row so far.
NextCodeword == bodies[frame].words[(row - 1) * stream.nch + ch + 1]

DecodedA(st, cw) == LmsSample(st.lms, Residual(st.rice, cw))
DecodedB(st, cw) == Signed(DecodedA(st, cw) + PredictionB(st.prev))
Decoded(st, cw) ==
  [rice |-> DecoderNext(st.rice, cw),
   lms  |-> Advanced(st.lms, Residual(st.rice, cw), DecodedA(st, cw)),
   prev |-> DecodedB(st, cw)]

\* The row is complete: the loop goes to the next, or the frame is done.
Deliver(r) ==
  /\ out' = Append(out, r)
  /\ ch' = 0
  /\ row' = row + 1
  /\ pc' = IF row < Rows(frame) THEN "decode" ELSE "ready"

\* One turn of the decoder's inner loop.
DecodeOne ==
  LET cw == NextCodeword
      filled == [slot EXCEPT ![ch] = DecodedB(dec[ch], cw)]
  IN
  /\ pc = "decode"
  /\ IF cw.width # TailWidth(dec[ch].rice, cw.ones)
     THEN pc' = "astray" /\ UNCHANGED <<row, ch, decoderVars>>
     ELSE /\ dec' = [dec EXCEPT ![ch] = Decoded(@, cw)]
          /\ slot' = filled
          /\ IF ch < LastChannel
             THEN pc' = pc /\ ch' = ch + 1 /\ UNCHANGED <<row, out>>
             ELSE IF stream.nch < 2
             THEN Deliver(filled)
             ELSE pc' = "inverse" /\ UNCHANGED <<row, ch, out>>
  /\ UNCHANGED <<stream, prime, frame, enc, bodies, clipped>>

\* decorr::inverse: the anchor, then the cascade, in place.
InverseStep ==
  LET r == IF ch = LastChannel THEN Anchored(slot, stream.nch) ELSE Cascaded(slot, ch)
  IN
  /\ pc = "inverse"
  /\ slot' = r
  /\ IF ch > 0
     THEN ch' = ch - 1 /\ UNCHANGED <<pc, row, out>>
     ELSE Deliver(r)
  /\ UNCHANGED <<stream, prime, frame, enc, bodies, dec, clipped>>

-----------------------------------------------------------------------------
Next ==
  \/ EncodeOne
  \/ FinishBody
  \/ \E f \in DOMAIN stream.frames : StartFrame(f)
  \/ DecodeOne
  \/ InverseStep

Spec == Init /\ [][Next]_vars

-----------------------------------------------------------------------------
ChannelState == [rice : RiceState, lms : LmsState, prev : Ints]

\* TypeOK: trackers, weights and registers stay in their words, k below its cap.
TypeOK ==
  /\ stream \in Streams
  /\ prime \in Primings
  /\ pc \in {"encode", "ready", "decode", "inverse", "refused", "astray"}
  /\ frame \in DOMAIN stream.frames
  /\ row \in 1 .. Rows(frame) + 1
  /\ ch \in Channels
  /\ enc \in [Channels -> ChannelState]
  /\ dec \in [Channels -> ChannelState]
  /\ clipped \in BOOLEAN

(***************************************************************************)
(* Lossless: unless a residual was the least integer, what decode_frame_*  *)
(* has written are the rows that encode was given, in whatever order the   *)
(* frames are decoded; a frame that ends is complete.                      *)
(***************************************************************************)
RowsRight == \A i \in DOMAIN out : out[i] = stream.frames[frame][i]
Lossless ==
  /\ ~clipped => RowsRight
  /\ pc = "ready" => out = <<>> \/ Len(out) = Rows(frame)

(***************************************************************************)
(* LockStep: the decoder's trackers ask for exactly the bits the encoder's *)
(* trackers wrote, whatever the residuals (rice.rs:71-75), and a body the  *)
(* encoder wrote passes the decoder's gate (decoder.rs:118-134).           *)
(***************************************************************************)
LockStep == pc \notin {"astray", "refused"}

(***************************************************************************)
(* InRangeHeadroom: samples within the declared depth produce residuals of *)
(* at most half the word's range, so the one residual that zigzag cannot   *)
(* carry (rice.rs:177) never comes up.                                     *)
(***************************************************************************)
InRange ==
  \A f \in DOMAIN stream.frames : \A i \in 1 .. Rows(f) : \A c \in Channels :
    stream.frames[f][i][c] \in -(2^(Depth - 1)) .. 2^(Depth - 1) - 1
InRangeHeadroom ==
  InRange => /\ ~clipped
             /\ \A c \in Channels : enc[c].lms.error \in -(2^(W - 2)) .. 2^(W - 2) - 1

(***************************************************************************)
(* AnyPcmRoundTrips: the same without a condition on the residuals, as the *)
(* encoder's documentation has it (encoder.rs:52, fuzz encode_roundtrip).  *)
(***************************************************************************)
AnyPcmRoundTrips == RowsRight
=============================================================================
