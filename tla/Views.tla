------------------------------- MODULE Views -------------------------------
(***************************************************************************)
(* The typed views of src/header.rs and src/decoder.rs: what a caller who  *)
(* does not want raw integers is given for a header, a frame geometry, a   *)
(* descriptor and a seek point, and the clock that turns sample positions  *)
(* into durations and back.  Each computes for itself what the parser or   *)
(* the decoder computes elsewhere.  A from_raw is the error it answers; a  *)
(* Duration is a count of ticks.                                           *)
(***************************************************************************)
EXTENDS Header

CONSTANT TicksPerSecond     \* 10^9: a Duration counts nanoseconds

ASSUME ClockAssumption == TicksPerSecond \in Nat \ {0}

-----------------------------------------------------------------------------
\* One field at a time.
FormatError(v) == IF v \in {1, 2} THEN NoError ELSE "UnsupportedFormat"
ChannelCountError(v) == IF v \in 1 .. MAX_NCH THEN NoError ELSE "UnsupportedChannelCount"
BitsPerSampleError(v) == IF v \in 16 .. 24 THEN NoError ELSE "UnsupportedBitDepth"
SampleRateError(v) ==
  IF v = 0 \/ v > MAX_SAMPLE_RATE THEN "UnsupportedSampleRate" ELSE NoError

FirstError(errors) ==
  IF \A i \in DOMAIN errors : errors[i] = NoError THEN NoError
  ELSE errors[CHOOSE i \in DOMAIN errors :
                errors[i] # NoError /\ \A j \in 1 .. i - 1 : errors[j] = NoError]

\* Faulty variant: the depth is lifted before the channel count.
FromHeaderErrorReordered(h) ==
  FirstError(<<FormatError(h.format), BitsPerSampleError(h.bps),
               ChannelCountError(h.channels), SampleRateError(h.rate)>>)

\* TypedStreamHeader::from_header: four lifts, the first that fails answers.
FromHeaderError(h) ==
  FirstError(<<FormatError(h.format), ChannelCountError(h.channels),
               BitsPerSampleError(h.bps), SampleRateError(h.rate)>>)

byte_depth(h) == (h.bps + 7) \div 8
pcm_byte_len(h) == h.total * h.channels * byte_depth(h)

-----------------------------------------------------------------------------
\* FrameGeometry.
frame_geometry_typed(h) ==
  [frame_count |-> FrameCount(h), regular |-> RegularFrameSamples(h),
   last |-> LastFrameSamples(h)]

FrameSamplesAt(g, i) == IF i + 1 = g.frame_count THEN g.last ELSE g.regular

SeekTableSizeBytes(g) == g.frame_count * 4 + 4

\* The triple summed up again.
GeometryTotal(g) ==
  IF g.frame_count = 0 THEN 0 ELSE (g.frame_count - 1) * g.regular + g.last

\* FrameDescriptor: an empty frame does not lift, nor one without room for its CRC.
FrameByteLengthError(v) == IF v < 4 THEN "InvalidFrameByteLength" ELSE NoError
FrameSampleCountError(v) == IF v = 0 THEN "InvalidFrameSampleCount" ELSE NoError

-----------------------------------------------------------------------------
\* SeekPoint: where seek_to_sample lands.
SeekPointOf(h, s) == [frame |-> SeekFrame(h, s), offset |-> SeekOffset(h, s)]

FrameIndexError(v, count) == IF v >= count THEN "InvalidFrameIndex" ELSE NoError
InFrameSampleOffsetError(v, regular) ==
  IF v >= regular THEN "InvalidInFrameSampleOffset" ELSE NoError
interleaved_skip(offset, channels) == offset * channels

-----------------------------------------------------------------------------
\* Faulty variant: the seconds are taken first.
SampleAtDividedFirst(t, rate) == (t \div TicksPerSecond) * rate

\* TotalSamples::duration_at and samples_to_duration: down to a whole tick.
DurationAt(n, rate) ==
  IF rate = 0 THEN 0
  ELSE (n \div rate) * TicksPerSecond + ((n % rate) * TicksPerSecond) \div rate

(***************************************************************************)
(* duration_to_sample_index: down to a whole sample.  (The clamp to u64 is *)
(* left out: it is far beyond any total, like what it clamps.)             *)
(***************************************************************************)
SampleAt(t, rate) == (t * rate) \div TicksPerSecond
=============================================================================
