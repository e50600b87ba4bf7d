------------------------------- MODULE Header -------------------------------
(***************************************************************************)
(* The TTA1 container header (src/header.rs): the order in which the 22    *)
(* header bytes are validated, the closed-form frame geometry every other  *)
(* component derives from (sample_rate, total_samples), and the extent of  *)
(* the ID3v2 prefix.  A header is a record; `magic' and `crc' say whether  *)
(* the signature and the stored CRC32 match, the rest are the fields of    *)
(* StreamHeader.  bits_per_sample selects predictor constants only.        *)
(***************************************************************************)
EXTENDS Integers, Sequences

HEADER_LEN == 22
MAX_NCH == 6
MAX_SAMPLE_RATE == 8388607       \* 0x7FFFFF

\* The answer of a validation that found nothing wrong.
NoError == "NoError"

HeaderRecords ==
  [magic : BOOLEAN, crc : BOOLEAN, format : Nat, channels : Nat, bps : Nat,
   rate : Nat, total : Nat]

(***************************************************************************)
(* parse_stream_header_with_crc: the first check that fails names the      *)
(* error; `avail' is the number of bytes left in the buffer.               *)
(***************************************************************************)
HeaderError(avail, h) ==
  IF avail < HEADER_LEN THEN "Truncated"
  ELSE IF ~h.magic THEN "InvalidMagic"
  ELSE IF ~h.crc THEN "Crc32Mismatch"
  ELSE IF h.format \notin {1, 2} THEN "UnsupportedFormat"
  ELSE IF h.channels \notin 1 .. MAX_NCH THEN "UnsupportedChannelCount"
  ELSE IF h.bps \notin 16 .. 24 THEN "UnsupportedBitDepth"
  ELSE IF h.rate \notin 1 .. MAX_SAMPLE_RATE THEN "UnsupportedSampleRate"
  ELSE NoError

-----------------------------------------------------------------------------
\* Frame geometry (spec/01 section 4.1): pure arithmetic on the header.

RegularFrameSamples(h) == (h.rate * 256) \div 245

\* (0, 0) for an empty stream; a last frame that is never empty otherwise.
FrameGeometry(h) ==
  LET regular == RegularFrameSamples(h)
      rest    == h.total % regular
  IN  IF regular = 0 \/ h.total = 0 THEN <<0, 0>>
      ELSE IF rest = 0 THEN <<h.total \div regular, regular>>
      ELSE <<h.total \div regular + 1, rest>>

FrameCount(h) == FrameGeometry(h)[1]
LastFrameSamples(h) == FrameGeometry(h)[2]

\* The sample count the seek-table parser gives the descriptor of frame i.
FrameSamples(h, i) ==
  IF i + 1 = FrameCount(h) THEN LastFrameSamples(h) ELSE RegularFrameSamples(h)

SeekTableLen(h) == 4 * FrameCount(h) + 4

(***************************************************************************)
(* seek_to_sample's arithmetic: the frame that holds a sample and the      *)
(* sample's offset in it.                                                  *)
(***************************************************************************)
SeekFrame(h, s) == s \div RegularFrameSamples(h)
SeekOffset(h, s) == s % RegularFrameSamples(h)
=============================================================================
