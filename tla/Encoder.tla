------------------------------ MODULE Encoder ------------------------------
(***************************************************************************)
(* encode and encode_with_password of src/encoder.rs around the frame      *)
(* coder: the validation of the arguments, the encoder's own copy of the   *)
(* frame geometry, the loop that slices the PCM into frames, and the       *)
(* assembly of header, seek table and frames.  What it writes is a file    *)
(* as Stream describes one to the readers.                                 *)
(***************************************************************************)
EXTENDS Stream

CONSTANTS
  Requests,     \* the arguments a caller passes
  U32,          \* the integers below U32 fit an u32
  Slack         \* body bytes beyond one bit per residual

RequestRecords ==
  [values : Nat, channels : Nat, bps : Nat, rate : Nat, format : {1, 2}, key : Digests]

\* encode has no password; the empty password's digest is ZeroDigest too.
ASSUME RequestsAssumption ==
  /\ Requests \subseteq RequestRecords
  /\ \A r \in Requests : r.format = 1 => r.key = ZeroDigest
ASSUME WidthAssumption == U32 \in Nat \ {0} /\ Slack \subseteq Nat

VARIABLES
  pc,           \* idle, refused, frames, data, written
  req,          \* the arguments of the call
  cursor,       \* sample_cursor
  blobs,        \* frame_blobs: the values each was made of, and its bytes
  places,       \* where in the file the frame data written so far went
  end,          \* file.len()
  file          \* the finished file, as its readers take it

encoderVars == <<pc, req, cursor, blobs, places, end, file>>

NoRequest == [values |-> 0, channels |-> 1, bps |-> 16, rate |-> 1, format |-> 1,
              key |-> ZeroDigest]
NoFile == [none |-> TRUE]

-----------------------------------------------------------------------------
\* encode_inner's checks, in their order.
EncodeError(r) ==
  IF r.channels = 0 \/ r.channels > MAX_NCH THEN "UnsupportedChannelCount"
  ELSE IF r.bps \notin 16 .. 24 THEN "UnsupportedBitDepth"
  ELSE IF r.rate = 0 \/ r.rate > MAX_SAMPLE_RATE THEN "UnsupportedSampleRate"
  ELSE IF r.values % r.channels # 0 THEN "InvalidSampleBuffer"
  ELSE NoError

\* (samples.len() / nch) as u32
TotalSamples == (req.values \div req.channels) % U32

Regular == (req.rate * 256) \div 245

\* Faulty variant: an exact multiple ends in an empty frame.
GeometryEmptyLast ==
  IF TotalSamples = 0 THEN <<0, 0>>
  ELSE <<TotalSamples \div Regular + 1, TotalSamples % Regular>>

\* The encoder's own (frame_count, last_samples).
Geometry ==
  IF TotalSamples = 0 THEN <<0, 0>>
  ELSE IF TotalSamples % Regular = 0 THEN <<TotalSamples \div Regular, Regular>>
  ELSE <<TotalSamples \div Regular + 1, TotalSamples % Regular>>

\* Faulty variant: the last frame is as long as the others.
ShareRegular(i) == Regular

\* n_samples of frame i.
Share(i) == IF i + 1 = Geometry[1] THEN Geometry[2] ELSE Regular

\* encode_one_frame: whole bytes of at least one bit per residual, then a CRC.
BlobBytes(values, slack) == (values + 7) \div 8 + slack + 4

EncoderInit ==
  /\ pc = "idle" /\ req = NoRequest /\ cursor = 0
  /\ blobs = <<>> /\ places = <<>> /\ end = 0 /\ file = NoFile

Begin(r) ==
  /\ pc \in {"idle", "refused"}
  /\ req' = r
  /\ pc' = IF EncodeError(r) = NoError THEN "frames" ELSE "refused"
  /\ cursor' = 0 /\ blobs' = <<>> /\ places' = <<>> /\ end' = 0 /\ file' = NoFile

\* Faulty variant: the cursor moves by samples.
EncodeFrameBySamples(slack) ==
  LET i == Len(blobs)
      n == Share(i) * req.channels
  IN  /\ pc = "frames"
      /\ i < Geometry[1]
      /\ blobs' = Append(blobs,
           [first |-> cursor, values |-> n, bytes |-> BlobBytes(n, slack)])
      /\ cursor' = cursor + Share(i)
      /\ UNCHANGED <<pc, req, places, end, file>>

\* One turn of the frame loop: slice, encode, push.
EncodeFrame(slack) ==
  LET i == Len(blobs)
      n == Share(i) * req.channels
  IN  /\ pc = "frames"
      /\ i < Geometry[1]
      /\ blobs' = Append(blobs,
           [first |-> cursor, values |-> n, bytes |-> BlobBytes(n, slack)])
      /\ cursor' = cursor + n
      /\ UNCHANGED <<pc, req, places, end, file>>

\* The header, its CRC, one seek-table entry per blob, the table's CRC.
WriteHeader ==
  /\ pc = "frames"
  /\ Len(blobs) = Geometry[1]
  /\ pc' = "data"
  /\ end' = HEADER_LEN + 4 * Len(blobs) + 4
  /\ UNCHANGED <<req, cursor, blobs, places, file>>

\* One turn of the loop that appends the frame data.
WriteBlob ==
  LET i == Len(places) IN
  /\ pc = "data"
  /\ i < Len(blobs)
  /\ places' = Append(places, end)
  /\ end' = end + blobs[i + 1].bytes
  /\ UNCHANGED <<pc, req, cursor, blobs, file>>

HeaderOf(total) ==
  [magic |-> TRUE, crc |-> TRUE, format |-> req.format, channels |-> req.channels,
   bps |-> req.bps, rate |-> req.rate, total |-> total]

\* The bytes returned, read as Stream reads them; entries are cut to an u32.
Written ==
  LET frames == 0 .. Len(blobs) - 1 IN
  [h |-> HeaderOf(TotalSamples), id3 |-> 0, bad |-> {}, tableCrc |-> TRUE,
   size  |-> [w \in frames |-> blobs[w + 1].bytes],
   table |-> [w \in frames |-> blobs[w + 1].bytes % U32],
   place |-> [w \in frames |-> places[w + 1]],
   len |-> end, key |-> req.key]

Return ==
  /\ pc = "data"
  /\ Len(places) = Len(blobs)
  /\ pc' = "written"
  /\ file' = Written
  /\ UNCHANGED <<req, cursor, blobs, places, end>>

EncoderNext ==
  \/ \E r \in Requests : Begin(r)
  \/ \E slack \in Slack : EncodeFrame(slack)
  \/ WriteHeader \/ WriteBlob \/ Return

EncoderSpec == EncoderInit /\ [][EncoderNext]_encoderVars

-----------------------------------------------------------------------------
(***************************************************************************)
(* EncoderTypeOK: the encoder's state; a slice never ends past the input,  *)
(* where slicing would panic (encoder.rs:148).                             *)
(***************************************************************************)
Blobs == [first : Nat, values : Nat, bytes : Nat]

EncoderTypeOK ==
  /\ pc \in {"idle", "refused", "frames", "data", "written"}
  /\ req \in Requests \cup {NoRequest}
  /\ blobs \in Seq(Blobs) /\ places \in Seq(Nat) /\ end \in Nat
  /\ pc \notin {"idle", "refused"} => EncodeError(req) = NoError /\ cursor \in 0 .. req.values

(***************************************************************************)
(* WritesWellFormed: the file returned is one its readers can rely on: the *)
(* parser accepts the header, the reader's geometry has the frames that    *)
(* were written, they lie end to end behind a seek table that names their  *)
(* sizes, and nothing follows.  A blob of 2^32 bytes or more has no size   *)
(* an entry can name (encoder.rs:168).                                     *)
(***************************************************************************)
EveryBlobFits == \A i \in DOMAIN blobs : blobs[i].bytes < U32

WritesWellFormed ==
  pc = "written" /\ EveryBlobFits =>
    /\ HeaderError(end, HeaderOf(TotalSamples)) = NoError
    /\ WellFormed(Written)
    /\ TableIntact(Written)

(***************************************************************************)
(* EncodesTheInput: frame w of the file is made of the values its readers  *)
(* will give out as frame w, and together the frames hold the whole input  *)
(* whenever its samples can be counted in 32 bits (encoder.rs:127-150).    *)
(***************************************************************************)
Samples == req.values \div req.channels

EncodesTheInput ==
  pc = "written" =>
    /\ Len(blobs) = FrameCount(HeaderOf(TotalSamples))
    /\ \A i \in DOMAIN blobs :
         /\ blobs[i].first = (i - 1) * RegularFrameSamples(HeaderOf(TotalSamples)) * req.channels
         /\ blobs[i].values = FrameSamples(HeaderOf(TotalSamples), i - 1) * req.channels
    /\ Samples < U32 => cursor = req.values

(***************************************************************************)
(* EncodesEverything: whatever input is encoded without an error is in the *)
(* file, to the last value: "Round-trips bit-exactly through decode"       *)
(* (encoder.rs:52-53), and no error is documented for an input too long to *)
(* be counted.                                                             *)
(***************************************************************************)
EncodesEverything == pc = "written" => cursor = req.values
=============================================================================
