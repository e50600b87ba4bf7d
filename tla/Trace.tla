------------------------------- MODULE Trace -------------------------------
(***************************************************************************)
(* The trace build of the decoder: src/trace.rs and its call sites in      *)
(* src/decoder.rs.  Every step of FrameCodec's decoder also writes its     *)
(* events to a tape, which an independent decoder is compared with event   *)
(* by event.  An event is a record of the values it carries; frame_idx and *)
(* the text format are left out, and so are the events of the container.   *)
(* The tape here is that of one frame, behind the events of the decoder's  *)
(* construction.                                                           *)
(***************************************************************************)
EXTENDS FrameCodec

VARIABLE tape

traceVars == <<vars, tape>>

\* emit_file_level_trace: LMS_INIT and RICE_K_INIT of every channel in turn.
InitEvents ==
  [n \in 1 .. 2 * stream.nch |->
     IF n % 2 = 1 THEN [ev |-> "LMS_INIT", channel |-> n \div 2, values |-> Shift]
     ELSE [ev |-> "RICE_K_INIT", channel |-> n \div 2 - 1, values |-> RiceInit]]

FrameBegin(f) == [ev |-> "FRAME_BEGIN", channel |-> -1, samples |-> Rows(f)]
FrameEnd == [ev |-> "FRAME_END", channel |-> -1, ok |-> TRUE]
OfSample(kind, r) == [ev |-> kind, channel |-> -1, sample |-> row - 1, values |-> r]
OfStep(kind, v) ==
  [ev |-> kind, channel |-> ch, step |-> (row - 1) * stream.nch + ch, values |-> v]

\* What LMS_PRE and LMS_POST show of a filter.
Filter(lms) == <<lms.dl, lms.dx, lms.qm>>

\* Faulty variant: the error is looked at after the step.
LmsTracedLate(lms, e) ==
  LET s    == LmsSample(lms, e)
      post == Advanced(lms, e, s)
  IN  [pre |-> Filter(lms), error |-> post.error, predicted |-> Signed(s - e),
       after |-> s, post |-> Filter(post)]

\* LmsState::step_traced: snapshots around the step; the prediction is recovered.
LmsTraced(lms, e) ==
  LET s == LmsSample(lms, e)
  IN  [pre |-> Filter(lms), error |-> lms.error, predicted |-> Signed(s - e),
       after |-> s, post |-> Filter(Advanced(lms, e, s))]

\* One channel's step: decode_one_traced and the two step_traced.
StepEvents(st, cw) ==
  LET e == Residual(st.rice, cw)
      a == LmsTraced(st.lms, e)
  IN
  <<OfStep("RICE_DECODE", [ones |-> cw.ones, k |-> TailWidth(st.rice, cw.ones), residual |-> e]),
    OfStep("RICE_K_UPDATE", DecoderNext(st.rice, cw)),
    OfStep("LMS_PRE", a.pre),
    OfStep("STAGE_A_PREDICT", [predicted |-> a.predicted, error |-> e, after |-> a.after]),
    OfStep("LMS_POST", [filter |-> a.post, error |-> a.error]),
    OfStep("STAGE_B_PREDICT", [prev |-> st.prev, predicted |-> PredictionB(st.prev),
                               residual |-> a.after, after |-> DecodedB(st, cw)])>>

-----------------------------------------------------------------------------
\* The row is out; behind the last one the frame's end is marked.
RowOut(r) ==
  <<OfSample("PCM_OUT", r)>> \o (IF row = Rows(frame) THEN <<FrameEnd>> ELSE <<>>)

TraceInit == Init /\ tape = <<>>

TracedEncode == (EncodeOne \/ FinishBody) /\ UNCHANGED tape

TracedStart(f) ==
  /\ StartFrame(f)
  /\ tape' = IF pc' = "decode" THEN Append(InitEvents, FrameBegin(f)) ELSE InitEvents

\* DECORR_PRE and DECORR_POST only where there is more than one channel.
TracedDecode ==
  /\ DecodeOne
  /\ tape' = IF pc' = "astray" THEN tape
             ELSE tape \o StepEvents(dec[ch], NextCodeword)
                       \o CASE ch < LastChannel -> <<>>
                            [] stream.nch < 2   -> RowOut(slot')
                            [] OTHER            -> <<OfSample("DECORR_PRE", slot')>>

TracedInverse ==
  /\ InverseStep
  /\ tape' = IF ch > 0 THEN tape
             ELSE (tape \o <<OfSample("DECORR_POST", slot')>>) \o RowOut(slot')

TraceNext ==
  TracedEncode \/ (\E f \in DOMAIN stream.frames : TracedStart(f)) \/ TracedDecode \/ TracedInverse

TraceSpec == TraceInit /\ [][TraceNext]_traceVars

-----------------------------------------------------------------------------
(***************************************************************************)
(* TapeReplays: whoever has the tape and nothing else can follow the       *)
(* decoder from event to event.  In every channel the trackers go from one *)
(* RICE_K event to the next by the encoder's law from the residual between *)
(* them, and yield the k that was used; LMS_PRE is the LMS_POST before it, *)
(* the primed filter at the frame's start; predicted_a, which step_traced  *)
(* recovers by subtraction, is the prediction of that filter and of the    *)
(* residual before; Stage B goes on from what it gave.  The steps of a row *)
(* are followed by its samples, and the row on the tape decorrelates to    *)
(* what the predictors gave (lms.rs:119-133, rice.rs:84-91,                *)
(* roundtrip_tests.rs:188-193, 702-710).                                   *)
(***************************************************************************)
\* The events of some kinds and one channel, in their order.
Events(kinds, c) ==
  LET kept[n \in 0 .. Len(tape)] ==
        IF n = 0 THEN <<>>
        ELSE IF tape[n].ev \in kinds /\ tape[n].channel = c THEN Append(kept[n - 1], tape[n])
        ELSE kept[n - 1]
  IN  kept[Len(tape)]

ChannelReplays(c) ==
  LET K == Events({"RICE_K_INIT", "RICE_K_UPDATE"}, c)
      R == Events({"RICE_DECODE"}, c)
      P == Events({"LMS_PRE"}, c)
      A == Events({"STAGE_A_PREDICT"}, c)
      Q == Events({"LMS_POST"}, c)
      B == Events({"STAGE_B_PREDICT"}, c)
  IN
  \A n \in DOMAIN R :
    /\ R[n].step = (n - 1) * stream.nch + c
    /\ R[n].values.k = TailWidth(K[n].values, R[n].values.ones)
    /\ K[n + 1].values = EncoderNext(K[n].values, R[n].values.residual)
    /\ P[n].values = IF n = 1 THEN Filter(LmsInit(prime)) ELSE Q[n - 1].values.filter
    /\ Q[n].values.error = IF n = 1 THEN 0 ELSE R[n - 1].values.residual
    /\ A[n].values.predicted =
         Prediction([dl |-> P[n].values[1], dx |-> P[n].values[2], qm |-> P[n].values[3],
                     error |-> Q[n].values.error])
    /\ A[n].values.error = R[n].values.residual
    /\ B[n].values.residual = A[n].values.after
    /\ B[n].values.prev = IF n = 1 THEN 0 ELSE B[n - 1].values.after

RowsReplay ==
  LET D == Events({"DECORR_PRE"}, -1)
      O == Events({"PCM_OUT"}, -1)
      B(c) == Events({"STAGE_B_PREDICT"}, c)
  IN
  /\ stream.nch = 1 => D = <<>>
  /\ \A n \in DOMAIN O :
       LET given == [c \in Channels |-> B(c)[n].values.after] IN
       /\ O[n].sample = n - 1
       /\ Forward(O[n].values, stream.nch) = given
       /\ stream.nch > 1 => D[n].values = given
  /\ tape # <<>> /\ tape[Len(tape)].ev = "FRAME_END" => Len(O) = Rows(frame)

TapeReplays == (\A c \in Channels : ChannelReplays(c)) /\ RowsReplay
=============================================================================
