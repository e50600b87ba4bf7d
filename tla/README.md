# A TLA+ verification of oxideav-tta

The repository is a Rust implementation of the TTA1 lossless audio codec: a
container (header, seek table, frames), a decoder with eager, lazy and
random-access entry points, an encoder, and adapters that plug both into a media
framework. This directory holds a formal model of it, the TLC configurations
that check the model on small instances, and theorems about it proved with
TLAPS for every value of the constants.

## 1. The system: components, state, interaction

| Component | Source | State | Operations | Correct when |
|---|---|---|---|---|
| Header and geometry | `src/header.rs` | none (a parsed record) | `parse_stream_header_with_crc`, `frame_geometry`, `skip_id3v2_prefix`, the typed views and their lifts, durations | the frames tile the samples exactly; the first failing check names the error; a view says what the parser does |
| Seek table | `src/header.rs:962-1002` | list of descriptors, `crc_ok` | `parse_seek_table` | every window starts where the stored sizes before it end; a CRC mismatch is recorded, not fatal |
| Streaming decoder | `src/decoder.rs` | descriptors, seekability, priming (immutable once built) | `new`, `new_with_password`, `decode_all`, `decode_frame_at`, `frame_iter*`, `seek_to_sample`, sample and time ranges | a read returns the requested samples and no others, or an error |
| Iterators | `src/decoder.rs:1115-1283` | cursor, prefix to skip, entries remaining | `next` | nothing is repeated, skipped or delivered after an error |
| One-call API | `src/lib.rs` | none | `decode`, `decode_with_password`, `scan_trailers`, `pack_pcm` | as the decoder; a scan takes the stream to end where its table says |
| Demuxer | `src/registry.rs:422-661` | current frame, next pts, seekable | `open_demuxer`, `next_packet`, `seek_to` | a packet's pts is that of its audio, also after seeks; never slices outside the file |
| Decoder adapter | `src/registry.rs:93-156` | pending packet, eof | `send_packet`, `receive_frame`, `flush` | every packet is answered once |
| Encoder adapter | `src/registry.rs:254-377` | buffered PCM, pending packets, next pts, eof | `send_frame`, `receive_packet`, `flush` | what is buffered is encoded once, in order |
| Bit reader | `src/bitreader.rs` | position, 64-bit cache, valid count | `refill`, `read_bits`, `read_unary` | equals a plain cursor over the body's bits |
| Adaptive Rice coder | `src/rice.rs`, `src/encoder.rs:384-448` | k0, k1, sum0, sum1 per channel | `decode_one`, `rice_encode_one` | encoder and decoder trackers stay in lock-step |
| Predictors | `src/lms.rs`, `src/stage_b.rs` | filter state per channel | `step`, `lms_step_encode` | the decoder's step undoes the encoder's |
| Decorrelation | `src/decorr.rs` | none | `forward`, `inverse` | inverse after forward is the identity |
| Encoder | `src/encoder.rs` | bit writer, per-channel states | `encode`, `encode_with_password` | decode after encode is the identity |
| Trailers | `src/trailers.rs` | none (ranges that may go stale) | `detect_trailers`, the typed ranges, `combined_byte_range` | what is reported is a tag behind the last frame, and survives a new encoding |
| CRC32 | `src/crc32.rs` | tables, a register | `crc32` | the table-driven sum is the bit-serial one; every burst is noticed |
| Password | `src/password.rs` | none | `derive_qm` | only equality of digests matters to the decoder |
| Trace emitter | `src/trace.rs`, `*_traced` | a tape of events | events around every step | the tape alone retells the decoding |
| Error type | `src/error.rs` | none | - | - |
| Registration | `src/registry.rs` | none | `probe`, `register` | - |
| Fuzz targets, tests, benches | `src/fuzz`, `src/tests`, `src/benches` | the answers so far | scripts of calls | their assertions hold |

Everything is synchronous and single-threaded; nothing is persisted and nothing
is sent over a network. Components interact by calls. What makes the code hard
is not scheduling but **the freedom of its callers and the state of its input**:

* three nested iterators that trim a prefix, trim a suffix, count down and stop
  after errors, polled by a caller at will;
* a seek table that may be damaged, in which one wrong size displaces every
  later window and may realign them onto other, perfectly valid frames;
* two policies over the same damaged table, linear walks that go on and
  sample-addressed calls that refuse;
* two adapters driven by one player, with a packet pending in one, another in
  the player's hand, and a seek in the other;
* an encoder and a decoder that must change the same adaptive state in the same
  order, without ever exchanging it;
* things computed twice in different places (geometry in reader and writer,
  headers in parser and typed views, positions in samples and in nanoseconds)
  that must agree;
* byte ranges a host keeps from a scan and uses after the file has changed.

The hazards, each at its line and with the properties that watch it, are listed
in `PROJECT.json`.

## 2. The modules

```
Header              the header, frame geometry, seek arithmetic       src/header.rs
  Views             typed views of them, the clock                    src/header.rs, src/decoder.rs
  Stream            a file: frames, seek table, damage                src/header.rs, src/decoder.rs
    Decoder         constructors, calls, iterators (with Views)       src/decoder.rs, src/lib.rs
      Targets       the callers: five fuzz targets                    src/fuzz/fuzz_targets
        MCDecoder
    Playback        demuxer and decoder adapter                       src/registry.rs
      Player        the hosts: any order, and a player's loop         src/fuzz/fuzz_targets
        MCRegistry
    Encoder         geometry, frame loop, file assembly               src/encoder.rs
      Archive       encode, tag, damage, scan, carry over             src/lib.rs, src/trailers.rs
        MCArchive
Trailers            detection of tags, ranges (used by Archive)       src/trailers.rs
EncoderAdapter      buffer, flush, packets                            src/registry.rs
  MCRegistry
Bits                strings of bits
  BitCursor         what a bit reader promises                        src/bitreader.rs
  BitReader         the cached reader, implements it                  src/bitreader.rs
    MCBits
  BitSink           what a bit writer promises                        src/encoder.rs
  BitWriter         the cached writer, implements it                  src/encoder.rs
  Crc               table-driven CRC and bit-serial division          src/crc32.rs
    FrameBytes      writer, CRC, burst, check, cursor                 src/encoder.rs, src/decoder.rs
      MCBits
Word                u32 and i32 at a width W
  Rice              the adaptive code, both sides                     src/rice.rs, src/encoder.rs
  Predictor         LMS, Stage B, decorrelation                       src/lms.rs, src/stage_b.rs, src/decorr.rs
    FrameCodec      the frame loops of encoder and decoder            src/encoder.rs, src/decoder.rs
      Trace         the trace build of the decoder                    src/trace.rs
        MCFrameCodec

Proofs: Stream_proof (lemmas for the next three), Decoder_proof, Playback_proof,
        Archive_proof, EncoderAdapter_proof, BitReader_proof, FrameBytes_proof,
        FrameCodec_proof
```

An `MC` module gives the constants of the module above it their values for TLC.
`MCRegistry` and `MCBits` each put two modules into one run that share no state, a
reading and a writing half: a behaviour is of one half from its first state on,
and the other half rests. Nothing is composed there, and no theorem is about them.

The container modules treat a frame's body as something that decodes or does
not; the codec modules treat a body as codewords and have no container. They
meet at `decode_frame_inner`: `Stream!Undecodable` is its outcome seen from
outside, `FrameCodec` its loop over residuals, `FrameBytes` its CRC check and the
bits of the codewords.

### What is abstracted

* **Samples are positions.** Entry `e` is the `e`-th interleaved `i32` that the
  writer encoded. "The right audio" therefore means "the right positions", which
  is what trimming, seeking and displaced windows can get wrong.
* **A frame window is decodable exactly when the writer put a frame there** and
  its bytes are undamaged (`Stream!Undecodable`). A CRC is the predicate "these
  are the bytes written". The order of `decode_frame_inner`'s checks is kept
  where it decides the outcome: bounds, the four CRC bytes, the gate that
  compares residuals with body bits. The two kinds of frame error, `Truncated`
  and `Crc32Mismatch`, are one value, as no caller in the repository
  distinguishes them.
* **A wrong priming decodes to `Garbled` entries**, since the frame CRC covers
  the bytes and not the filter state. A digest is a model value; the empty
  password's digest is format 1's all-zero priming, as in the code.
* **A window may ask for fewer samples than the frame holds** and then decodes a
  prefix of it: the CRC does not cover the count. This happens when a damaged
  entry moves the last descriptor onto a regular frame.
* The layout an encoder produces (contiguous frames, at least one bit per
  residual, a CRC that matches) is the well-formedness of a file,
  `Stream!WellFormed`, the assumption on the constant `Files`. It is not taken on
  trust: `Archive_proof` proves that every file `Encoder` writes has it. Every
  field the world can damage (`table`, `tableCrc`, `bad`, `len`, the header's own
  fields) is unconstrained by it.
* **A seek table is intact, damaged or forged.** Damage to one entry of 4 bytes is a
  burst a CRC always notices (`FrameBytes!BurstNoticed`), so it comes with a CRC
  that fails. Other sizes under a CRC computed anew (`Stream!Forged`) are what a
  faulty writer or the fuzz targets produce; they are in the instances too, and
  the properties say what still holds of them.

### Decoder

`dec` is the `Decoder` struct (`frames`, `seek_table_crc_ok` as `crcOk`,
`qm_priming` as `qm`, and the offset accumulator of the table loop); `it` is the
iterator in use with the fields of all three (`next` = `next_idx`, `skip` =
`prefix_to_skip`, `left` = `remaining_entries`); `pc` says where the caller is;
`collected` is what has been returned (lazy) or accumulated in `out` (eager);
`item` is the last answer; `call` remembers what was asked for.

Opening is `Open`, then one `PushDescriptor` per entry, then `FinishTable`. Each
`next()` is one step (`Poll` by the caller, `Collect` inside an eager call), so
the caller may drop an iterator between any two, poll it after its end, and
reopen the stream after a refusal with another password. `FrameNext`, `SkipNext`
and `RangeNext` nest as the three `Iterator` implementations do.
Time-keyed calls convert with `Views!SampleAt` and become the sample-keyed ones.
`decode_all` has a loop of its own in the code; it makes the same bounds check
and the same `decode_frame_inner` call per descriptor as `FrameIter` and
discards its buffer on an error, so it is `Collect` over a frame iterator.

### Views

What a caller who does not want raw integers is given for a header, a geometry, a
descriptor and a seek point, and the conversion between positions and
`Duration`s. Each computes for itself what the parser or the decoder computes
elsewhere, which is what `ViewsAgree` compares. A lift is the error it answers.

### Targets

The fuzz targets make several calls on one decoder and hold each answer against
an earlier one. A target is a *script*, a sequence of calls each with what is
asserted of its answer (`must`); `notes` are the answers so far. The same actions
of `Decoder` carry them out, so a script runs through the same iterators, steps
and refusals as the free caller, who is the sixth caller of the module. Calls
whose answer a target throws away are left out of its script. `opening` is what the
target's first constructor answered: `password_corrupt` leaves the password out at
first and asserts that it is asked for. An assertion that fails ends a target.

### Playback and Player

`dmx` is `TtaDemuxer`, `tdec` is `TtaDecoder`, `hand` the packet between them.
A packet is a mini-file: header with the frame's own count, offset and size of
the window; decoding it goes through the geometry of the rewritten header again.

Two hosts drive them (`Player`). The free one calls anything at any time: takes a
packet, sends to a decoder that is busy, receives when nothing is pending, flushes
early, seeks with packets in flight, names a stream that is not there, goes on after
errors. It keeps one packet at a time (a bound of the model), and when it takes
another one before it has sent that, the packet is dropped undecoded, as the drains
of the fuzz targets `demuxer` and `seek_table` do; `dropped` remembers it. The other
is a player's loop: pull, send, receive, go on after a rejected packet, flush at the
end, receive until `Eof`; somebody may seek between two packets or after the end.

### Encoder, Trailers and Archive

`Encoder` is `encode_inner`: its checks in their order, its own copy of the
geometry, one turn of the frame loop per step (`EncodeFrame`), the header and
table (`WriteHeader`), one turn of the loop that appends frame data (`WriteBlob`).
A frame's bytes are as many as its residuals need at least, and some more
(`Slack`). Counts are cut to an `u32`, whose size is a constant (`U32`). What is
returned is a file as `Stream` describes one.

`Trailers` is a set of functions over a buffer, which is its length and the blocks
of metadata in it. A tag is its extent and what its footer declares, honest or
not. `Archive` puts the two together into the life of a file: encoded, tagged by
somebody, damaged in its table or cut, scanned, its tags sliced off, the audio
encoded anew, the tags put back. `owed` remembers what was in the slice.

### EncoderAdapter

The variables are the fields of `TtaEncoder`; `crate::encode` appears as the
packet it yields. Values are numbered as they are accepted, so "encoded once, in
order" is a statement about sequences of numbers. `FlushEncoder` is `flush` with
`flush_to_packet` inside, including its early error on a buffer that is no whole
number of samples, after which the caller may send the rest and flush again.
`SendFrame` does not look at `eof`, as the code does not.

### BitReader

`bcache` is the `u64` as the set of its one-bits, *stale bits included*: the bulk
refill ORs eight bytes in and counts fewer. `BitCursor` is the promise: a head
that moves over the body, values that are the body's bits, an error exactly
when the body ends too early. `read_unary` is a loop and has a step per turn,
with a refill inside it; abstractly it has consumed nothing until it returns,
hence the mapping `head <- Unread - run`. A failing call abandons the frame in
the code; here the caller may go on reading, which the promise covers as well.
The code counts the ones in an `u32` and the model in a number without bound: a run
that overflows it needs a body of 512 MiB of ones.

### BitWriter, BitSink, Crc, FrameBytes

Bits are sets of positions with a length (`Bits`). `BitWriter` has the fields of the
code's struct; `put_unary` for a code longer than a half word and the drain of
`finish_byte_aligned` are loops and have a step per turn. `BitSink` is the
promise: every call appends its bits to one body, and finishing pads to a byte.
Abstractly a call inside its loop has written nothing yet, hence the mapping
`Written`, which leaves off the bits of an unfinished call.

`Crc` is `crc32.rs` for any byte and register width and any polynomial: the
tables, the bulk step over two registers' worth of bytes and the byte-wise rest,
next to the bit-serial division it should equal. `FrameBytes` writes a body
through `BitWriter`, seals it with the CRC, lets one burst hit it and verifies it as
`decode_frame_inner` does; what is accepted is read with `BitCursor`.

### FrameCodec, Rice, Predictor, Word, Trace

`enc` and `dec` hold, per channel, a Rice tracker (`k0, k1, sum0, sum1`), an LMS
filter (`dl, dx, qm, error`) and the Stage-B register, and share nothing. One
turn of `encode_one_frame`'s inner loop is `EncodeOne`, one of
`decode_frame_inner`'s is `DecodeOne`, and the in-place cascade of
`decorr::inverse` takes a step per channel (`InverseStep`). Frames are encoded in
order by one encoder and decoded in any order, repeatedly, with states made new at
each (`StartFrame`, which is also the gate on the residual count).

A body is the sequence of its codewords (`ones`, `width`, `tail`) and its length in
bits. If the decoder asks for a tail of another width than was written, what it
reads from there on is noise, and the model says so with the state `astray`,
which no step leaves. Every sum and product wraps as the `wrapping_*` operations
do, at the width `W` (`Word`).

`Trace` adds the tape of the trace build to every step of the decoder: the events
of one frame with the values they carry, behind those of the decoder's
construction. `step_traced` recovers the prediction by subtraction, as the code
does. The container's events and the text format are left out.

## 3. The runs

| Run | Checks | Shows |
|---|---|---|
| `decoder` | `TypeOK`, `ExactSlice`, `NeverWrongAudio`, `StopsOnlyAtDamage`, `ViewsAgree`, `AssertionsHold`, `ErrorOnce`, `RefusalStands`, `TimeKeepsItsPlace`, `LoopsFinish` | every entry point, in the order of a free caller and of five fuzz targets, on healthy, damaged and forged files |
| `decoder_seek_table_crc` | `DecodeVerifiesSeekTable` (violated) | `decode` does not verify the seek-table CRC, `src/lib.rs:137` says it does |
| `decoder_total_duration` | `TotalDurationIsTheEnd` (violated) | a range of times up to the total duration can stop one sample short, and one back from it to zero is answered `Ok` on a one-sample stream; `src/decoder.rs:868` and a fuzz target say otherwise |
| `decoder_short_entry` | `ParsedEntriesLift` (violated) | a parsed descriptor may hold fewer than four bytes, `src/header.rs:801` says it never does |
| `registry` | `TypeOK`, `FrameAtItsTime`, `EveryPacketAnswered`, `SeekCovers`, `OnlyDamageRejects`, `PlaysToTheEnd`; `EncodedOnce`, `EofMeansAll`, `PacketSpans` | demuxer and decoder adapter under a free host and a player; the encoder adapter with failing flushes, retries and late frames |
| `playback_depths` | `HealthyPacketDecodes` (violated) | a healthy 17 to 23-bit stream opens and never plays |
| `encoder_adapter_flush` | `FlushEmits` (violated) | a frame sent after a flush is accepted and never encoded |
| `archive` | `TypeOK`, `WritesWellFormed`, `EncodesTheInput`, `ScanFindsTags`, `RangesSound`, `StaleScanRefused`, `TagsSurvive` | what the encoder writes, and tags across damage, scans and a new encoding |
| `archive_long_input` | `EncodesEverything` (violated) | an input of more samples than 32 bits can count is encoded without an error and in part |
| `bits` | `ReaderTypeOK`, `CacheSound`, `ReadsTheBody`, `UnaryEnds`; `WriterTypeOK`, `WritesTheBits`, `CrcIsRemainder`, `BurstNoticed`, `ReadsBack` | the cached reader implements the plain cursor; a frame's bytes from the writer's cache to the reader's cursor |
| `frame_codec` | `TypeOK`, `Lossless`, `LockStep`, `InRangeHeadroom`, `TapeReplays` | frames through encoder and decoder, and the trace tape |
| `frame_codec_any_pcm` | `AnyPcmRoundTrips` (violated) | one residual in 2^32, the least integer, decodes as zero |

The seven violated properties are sentences of the repository's documentation, or
an assertion of one of its fuzz targets, that the code does not keep; each is a
finding in `PROJECT.json` with the quotation. Where a passing property meets one of
them it says so: `AssertionsHold` names the one assertion that can fail,
`TimeKeepsItsPlace` the sample that can be lost, `ViewsAgree` asks of a short entry
only that its frame never decodes, and `EncodesTheInput` speaks of all the input
where its samples can be counted.

**Bounds of `decoder`.** Rates 2 and 3 give frames of 2 and 3 samples (the
code's `rate * 256 / 245` is computed as it is); totals 0, 1, 4 and 5 give
streams of no frame, one short frame, exact multiples and a short last frame;
one and two channels separate samples from entries. Files are healthy, or have
one or two damaged frames, a wrong table CRC, one damaged entry (too small for a
CRC, exactly a CRC, zero, two whole frames, past the end of the file), a forged
entry (zero, two whole frames), a lost tail at every structural boundary, or one
header field out of range; encrypted files come with an ID3v2 prefix and three keys. Every argument from 0 to one past
the boundary is tried for every call. A second has 10 ticks (`TicksPerSecond`),
which rate 2 divides and rate 3 does not, so that a moment is exact in one stream
and rounded in the other. The targets draw their arguments from two `Seeds`; more
than one channel is tried at the lowest rate, and the two password targets on
encrypted streams. Three frames are enough to have a frame before, at and behind
every trimmed or damaged one. About 61 000 states in a minute and a half. The two runs
about durations and short entries use the same files, the first with streams of one
sample only.

**Bounds of `registry`, reading.** Streams of 0, 1 and 3 frames, formats 1 and 2, 16 and
24 bits, a tail behind the frames long enough that displaced windows stay inside
the file, and tables damaged or forged; two successful seeks (`MaxSeeks`) to
targets from -1 to past the end (`SeekTargets`), so that a seek happens before,
between and after packets, and once more over the packets of the first. The host
holds one packet at a time: the adapter has room for one more, and any older one is
either answered for or dropped. Free host and player.

**Bounds of `registry`, writing.** Two channels, frames of 0 to 3 values, ten values
in all (`MaxAccepted`): odd frames leave the buffer misaligned, and ten values are
enough for a failing flush, its retry and frames after it. The packets handed out
grow with the values only. Both halves have about 753 000 states in a minute and a
half.

**Bounds of `archive`.** Integers below 9 fit the `u32`, so that inputs of 9 and 10
samples and blobs of 9 bytes and more are cut; frames of 4 and 2 samples, exact
and not; every argument out of its range once. Up to three blocks behind the
frames (`MaxBlocks`): an ID3v1 tag, APE tags with and without header, other bytes,
and footers that declare less than their tag and more than the file. Three blocks
are enough to have both tags in both orders and something in front of or between
them. Damaged entries are too small, too large, and past the file.

**Bounds of `bits`, the frame.** Bytes of 2 bits, half words of 2 bytes where the code has
8 and 4; a CRC register of 2 bytes, bulk steps of 4, the polynomial x^4 + x + 1. Up
to three puts per body (`MaxCalls`), of every width, of values with bits above
that width, and unary codes of 0, 2, 3, 4 and 9 ones: below, at and above half a
word, and of several words. A body is long enough for a bulk step with a rest,
and every burst of up to 4 bits hits it at every place.

**Bounds of `bits`, the reader.** Bytes of 2 bits in a word of 3 bytes, where the code has 8
and 8; *every* body of up to 5 bytes (`MaxBytes`) and every width from 0 to `Full`,
the largest a refill guarantees. A 5-byte body is long enough for a bulk
refill that leaves stale bits, a second one over them, and a byte-wise tail.

**Bounds of `frame_codec`.** Words of 8 bits, decay 2, k from 2 up to 7, shift 2 where
the code has 32, 4, 10 up to 31, and 9 or 10; samples of 4 bits, and also the least
and the greatest integers, since the API takes any `i32`. Mono streams of six
samples move k to its cap and to zero and fill the LMS history; two-frame
streams show the reset and the order of decoding; two and three channels show the
decorrelation. Two primings, none and a digest. The runs that reach k = 0, k =
`MaxK` in both trackers, and a least-integer residual were confirmed by asking
TLC for them. The theorems of section 4 remove the bounds, the width among them. The tape is that of the frame being decoded.

**Deadlock.** Three systems really stop and their configurations say
`CHECK_DEADLOCK FALSE`: a fuzz target returns when its script is through, a demuxer
that refused to open stays refused, and a verified frame is finished with.
Elsewhere it is checked: callers can always go on, and a codec that stopped would
be `astray` or `refused`.

**Fairness.** `Decoder!Fairness` assumes weak fairness of `PushDescriptor`,
`FinishTable` and `Collect` only: these are the turns of loops inside a library
call, which a running thread takes. Nothing obliges the caller to poll, to open
or to let go, and no property needs it to. `MCBits!BitsSpec` assumes the same
of the turns of the loop inside `read_unary`. `Player!PlayerSpec` assumes weak
fairness of the player's own step, the next statement of a loop on one thread;
nobody has to seek, seeks are bounded, and the free host owes nothing;
`MCRegistry!RegistrySpec` assumes just that of the reading half. The other
modules state no liveness.

**Properties.** The comment over each definition says what it means and which
lines it is about. The ones that carry the weight: `ExactSlice` (an intact table
and the right key: delivered entries are the request's, in order, never past its
end), `NeverWrongAudio` (whatever happened to the table, a walk from the
beginning delivers no wrong entry, nor does one from a sample position),
`StopsOnlyAtDamage` (a read comes up short only at a damaged frame that it asked
for), `AssertionsHold` (lazy and eager, by frame, sample and time: one answer, but
for one call),
`TimeKeepsItsPlace` (two roundings lose at most a sample), `RefusalStands` (no
password opens what was refused for another reason),
`FrameAtItsTime` (a played frame is the audio of its pts after any seeks,
retries and drops, as far as the sizes before it are true), `OnlyDamageRejects` (the
rewritten header fits the frame it carries), `PlaysToTheEnd` (the player gets there, after flushes and
seeks back as well), `EncodedOnce` (no accepted value is lost, doubled or moved
by a failing flush), `WritesWellFormed` (what is written is what readers
assume), `ScanFindsTags` and `TagsSurvive` (tags are found behind a damaged
table or not at all, and are the same after a new encoding), `ReadsTheBody` and
`WritesTheBits` (caches are never seen), `BurstNoticed` (a CRC that matches is
the one written), `LockStep` and `Lossless` (two sides that never meet stay
equal), `InRangeHeadroom` (samples within the declared depth keep clear of the
one residual the code cannot carry) and `TapeReplays` (the tape alone retells the
decoding).

`NeverWrongAudio` and `FrameAtItsTime` state their limits: access by explicit
frame index (`frame_iter_from`, `decode_frame_at`) on a damaged table can return
another frame than asked for, and so can a host of an unseekable stream that drops a
packet undecoded or ignores a rejected one, and decodes the next. The code allows
both knowingly (`src/decoder.rs:567-572`, `src/registry.rs:537-542`). Up to the
damage, and behind it until the first packet is dropped or rejected, a frame played
is the audio of its pts. A forged table passes for an intact one, so
sample-addressed reads and seeks trust it: `NeverWrongAudio` keeps of it the walk
from the beginning, and `FrameAtItsTime` the frames before the first false size.

## 4. The proofs

All theorems rest on the named assumptions of the modules' constants only, which
TLC evaluates in the runs. `Stream_proof` holds what three of the proofs share:
frames tile the stream (`GeometryTiles`), a window with a place and a size is at
most one frame of the writer (`PlaceUnique`), and the seek arithmetic lands in the
frame that holds its sample.

Some operators are recursive functions: the windows of a seek table, the CRC and its
tables, the cursor that reads calls back. What they compute is proved by induction
over the *set* of numbers for which the claim holds (`SetInduction`: a set that
holds 0 and with every number its successor holds them all), since a theorem
cannot be given an operator here. That the recursive equations have a solution,
so that the `CHOOSE` behind a recursive function chooses one, comes from the
library's well-founded recursion or from the same induction (`SumsExist`), and a
lemma states each function by its equations once (`WindowsLie`, `EndToEnd`).

### Decoder

From `FilesAssumption`, `DigestsAssumption`, `ClockAssumption` and
`RatesAssumption` (a tick is no longer than a sample), for any set of
well-formed files with any number of frames, samples and channels, and a caller
who makes any call at any time (`Decoder!Spec`), or the fuzz targets with any seeds
(`SeedsAssumption`, `TargetSpec`):

| Theorem | Statement |
|---|---|
| `TypeCorrect` | `Spec => []TypeOK` |
| `ExactSliceCorrect` | `Spec => []ExactSlice` |
| `NeverWrongAudioCorrect` | `Spec => []NeverWrongAudio` |
| `ErrorOnceCorrect` | `Spec => ErrorOnce` |
| `RefusalStandsCorrect` | `Spec => RefusalStands` |
| `TimeKeepsItsPlaceCorrect` | `Spec => TimeKeepsItsPlace` |
| `ViewsAgreeCorrect` | `Spec => []ViewsAgree` |
| `StopsOnlyAtDamageCorrect` | `Spec => []StopsOnlyAtDamage` |
| `TargetsImplementDecoder` | `TargetSpec => FairSpec` |
| `AssertionsHoldCorrect` | `TargetSpec => []AssertionsHold` |

The safety properties of the audio are not inductive: that the entries delivered
so far are right says nothing about the next frame. The invariant is

    AudioInv == Typed /\ TableInv /\ WalkInv /\ SliceInv

* `Typed` is `TypeOK` together with "an iterating caller has an iterator".
* `TableInv`: the descriptors pushed so far accumulate the stored sizes. It is
  what places a window at the writer's frame as long as the entries before it are
  the ones written (`Aligned(n)`).
* `WalkInv`: where trusted, the iterator *continues* the read: the first entry
  it would deliver next is the one after the last delivered, taking into
  account the prefix it still has to skip and the count it has left.
* `SliceInv` is `IsSlice` under the conditions of the two properties.

A decodable aligned descriptor yields its own entries (`DecodeAligned`); each
iterator's `next` then advances the read or leaves it alone (`FramesAdvance`,
`SkipAdvance`, `RangeAdvance`), and a seek starts one where it should
(`SeekLands`). For a damaged table the walk from the beginning stays aligned up
to the damaged entry and no descriptor there is decodable. `StepAudio` has one
step per action.

The others add what they need: `ErrorOnce` that an iterator which answered its
end or an error is exhausted (`SpentInv`), `RefusalStands` that a refusal is the
answer of the checks for some password (`RefusedInv`), `TimeKeepsItsPlace` that
an open stream has a rate (`OpenedInv`) and two facts about rounding down twice,
`ViewsAgree` a count of what a walk has delivered (`CountInv`), and
`StopsOnlyAtDamage` the invariant `StopInv`: whatever the table and the key, an
iterator stops only in front of a frame that does not decode (it counts entries,
not the audio in them), which under an intact table is a damaged frame of the
request.

**The fuzz targets.** `AssertionsHold` compares answers of different calls, on any
file, so what is needed is what *one* answer says of the stream. Two steps lead
there. First, a stream whose table is parsed has one sound, be it garbled:
`Heard(e)` is what the frame that holds entry `e` decodes to, and `HeardInv` says
that every call, lazy or eager, from wherever it started, has handed out a piece
of it (`Hears`) and nothing behind a frame that fails. Second, a step of a script
is settled before it is made: `Gate` is the error it is refused with and `Slot`
the piece it hands out if it is not, both functions of the stream alone. `Noted`
puts the two together:

    Noted(s, n) == an answer n of step s that came through is the sound of Slot(s);
                   one that Gate(s) refuses says so; one that walks the whole stream
                   comes through exactly if every frame decodes

and `TargetInv` says that of every answer noted, and that the call in progress is
under way to it (`Underway`). `CallUnderway`, `CollectUnderway` and `AnswerNoted`
are the three actions of a script. The invariant says nothing of `must`; the
assertions follow from it if the scripts are *fair*: each step asserts what the
stream settles, by itself (`Alone`) or with the step before (`Behind`), and a
script in which a slice of the whole is asserted begins with `decode_all`
(`Leads`). `ScriptFits` proves that of all five scripts for any seed and any
stream; where a target takes the place of a frame from the descriptors before it
(`Before`), `CountedIsStart` shows that it is the frame's start.

One step is unfair: a range of times that runs backwards from a total duration which
rounds down to sample 0 is not refused. `AssertionsHold` allows that one
(`RoundedAway`), and a target stops there. The format gate is the other conjunct:
what `password_corrupt` is answered first is `PasswordRequired`, whatever damage lies
behind the header (`OpeningInv`).

The scripts add no behaviour: `TargetsImplementDecoder` maps each of their steps
to a step of the free caller or a stutter, with the same fairness. So the theorems
about `Spec` hold of `TargetSpec`, which is what the run `decoder` checks.

### Playback

From the same assumptions on files, for both hosts (`PlayerSpec`), any targets and
any number of seeks. `PlayerCallsAdapters` reduces it to the adapters: every step of
`PlayerSpec` is a step of `Playback!Next` or changes none of its variables.

| Theorem | Statement |
|---|---|
| `TypeCorrect` | `PlayerSpec => []TypeOK` |
| `EveryPacketAnsweredCorrect` | `PlayerSpec => []EveryPacketAnswered` |
| `SeekCoversCorrect` | `PlayerSpec => []SeekCovers` |
| `FrameAtItsTimeCorrect` | `PlayerSpec => []FrameAtItsTime` |
| `OnlyDamageRejectsCorrect` | `PlayerSpec => []OnlyDamageRejects` |

    PlayInv == Typed /\ TableInv /\ Clock /\ EveryPacketAnswered /\ PacketInv
               /\ PlayedInv

`Clock` ties the demuxer's pts to its current frame, `PacketInv` says that a
packet in flight is the window of the frame of its pts, however long ago it was
cut, and `PlayedInv` that what was played from aligned windows is at its time.
A window is aligned where the sizes before it are true. On a damaged table of an
unseekable stream a packet that is accepted shows that the windows up to it were
aligned, as long as none was passed over: `PlayedInv` says so of the windows that were
answered for, and that is why the property ends there at the first packet dropped or
rejected. `SeekCovers` needs `SoughtInv`, that the demuxer stands at the frame the
last seek computed, `OnlyDamageRejects` `RejectedInv`, that on such a stream the packet
answered for last, if it was rejected, is that of a damaged frame, and `TypeOK` that
an open demuxer has its windows inside the file (`SlicesInside`) and that every packet
in flight was cut there (`PacketsCut`).

### EncoderAdapter

| Theorem | Statement |
|---|---|
| `PacketSpansCorrect` | `EncoderSpec => []PacketSpans` |
| `EofMeansAllCorrect` | `EncoderSpec => []EofMeansAll` |
| `EncodedOnceCorrect` | `EncoderSpec => []EncodedOnce` |

for any channel count, frame sizes and number of values. The invariant says that
the buffer is a run of consecutive values up to the last accepted (`Buffered`),
that every packet, given out or pending, is one from its pts over its duration
(`Spans`), that the packets are chained end to end up to where the buffer begins
(`Chained`, which is `EncodedOnce` seen from the next pts), that every value before
there is in one of them (`Covered`), and when `Eof` may be answered (`Ended`).

### Encoder and Archive

| Theorem | Statement |
|---|---|
| `WritesWellFormedCorrect` | `Spec => []WritesWellFormed` |
| `EncodesTheInputCorrect` | `Spec => []EncodesTheInput` |
| `StaleScanRefusedCorrect` | `Spec => []StaleScanRefused` |
| `ArchiveTypeCorrect` | `Spec => []TypeOK` |
| `RangesSoundCorrect` | `Spec => []RangesSound` |
| `ScanFindsTagsCorrect` | `Spec => []ScanFindsTags` |
| `TagsSurviveCorrect` | `Spec => []TagsSurvive` |

for any request, any width of the counts and any tags. The first discharges
`FilesAssumption`, on which the theorems about the readers rest. The invariant
follows the two loops: the blobs so far are the readers' frames, with the cursor
behind the last (`BlobInv`), and the places so far lie end to end behind the table
(`PlaceInv`). Stale scans need only that ranges end at or before the end of the file
that was scanned, and that a file grows between scans (`ScanInv`).

What a scan finds depends on everything that ever happened to the file, and the
last three rest on

    Carried == FileInv /\ TailInv /\ SeenInv /\ KeptInv

* `FileInv`: the header is one the parser accepts and the table, whatever damaged
  it, still has a number for each frame. So the parser can walk the table to an end,
  and on an intact table that end is where the audio stops (`EndToEnd`).
* `TailInv`: the blocks behind the audio have the shape that `Tag` gives them, lie
  apart from each other and inside the file. The delicate part is `Covered`. A
  footer that declares more than its tag makes a slice begin in the middle of an
  earlier block, and if that is an APE tag, less of it may be kept than the 32
  bytes of its own footer. A scan for which this block was the last, or the last
  before an ID3v1 tag, would read a footer that begins in front of the block. It is
  never the last: the tag whose footer declared too much lies behind it.
* `SeenInv`: the file that was scanned is a prefix of this one, and no block lies
  across its end. That is what a range of an earlier scan still means.
* `KeptInv`: the tags in the window are the same when looked for in the file they came
  from, in the window alone, and in the window behind any audio.

`RangesSound` and `ScanFindsTags` then follow from what `Trailers` looks at: at
most three places counted back from the end. Damage is never assumed away; a table
that leads past the file makes the scan find nothing.

### BitReader

From the three assumptions of `BitReader` (a word of at least two bytes, widths no
refill can fail to provide, bodies of whole bytes), for every byte size, word size
and body:

| Theorem | Statement |
|---|---|
| `TypeCorrect` | `ReaderSpec => []ReaderTypeOK` |
| `CacheCorrect` | `ReaderSpec => []CacheSound` |
| `Refines` | `ReaderSpec => ReadsTheBody` |

The invariant is `ReaderTypeOK /\ CacheSound /\ RunSound`. `CacheSound` speaks of *all*
one-bits of the cache and not of the valid ones only: that a stale bit, if set,
is set in the body at the place it would be loaded to is what makes the later OR
harmless, and the statement about valid bits alone is not inductive. `RunSound`
says that a unary read in progress has swallowed nothing but ones, which is what the
refinement needs when it returns their sum. Under the mapping every turn but the
last is a stutter; `read_bits` and the last turn are steps of the cursor.
A word of one byte is excluded because its `Full` is zero and its refill loads
nothing, so a reader would report the end of every body.

### FrameBytes

| Theorem | Statement |
|---|---|
| `WriterTypeCorrect` | `Spec => []WriterTypeOK` |
| `WritesTheBitsCorrect` | `Spec => WritesTheBits` |
| `CrcIsRemainderCorrect` | `Spec => []CrcIsRemainder` |
| `BurstNoticedCorrect` | `Spec => []BurstNoticed` |
| `ReadsBackCorrect` | `Spec => []ReadsBack` |

for every byte width, half word, register, polynomial with a constant term, value
and length. The invariant is `Drained /\ Looping`: no more than half a word waits in
the cache and none of its bits lies above those in use; and in `put_unary`'s loop
the last bits written, as many as were asked for less those that remain, are
ones. A turn of `put_unary` is a stutter of `BitSink`, its end the whole code at
once; so is the drain until its last byte.

The CRC's theorems rest on three facts about one bit's step of the register: it is
linear (`StepsLinear`); it takes no register but zero to zero, because the
polynomial has its constant term (`StepsRegister`); and it only moves the bits that
lie above it (`StepsMove`). An entry of the first table is `CrcByte` such steps,
one of table `j` is `j` bytes more of them, so the bulk step of `Chunk` bytes is
`Chunk` bytes of steps (`ChunkFeeds`): hence `CrcIsRemainder`, for bodies of any
length, those with a rest included. The check of a frame hit by `e` succeeds if
and only if `e`, run through the register from the first bit on, leaves it empty
(`AcceptsDamage`); a burst that fits the register does not, neither in the body, nor
in the stored CRC, nor across the two (`BurstLeaves`).

`ReadsBack` needs that a body *is* its calls laid end to end (`Readable`, which
names the place of each): the cursor finds each where the previous one ended, and a
unary code ends at its zero because all the bits before it are ones, however the
writer had split it.

### FrameCodec

For every word width, decay, cap and shift, every priming, and streams of any
number of channels, frames and rows:

| Theorem | Statement |
|---|---|
| `CodewordRoundTrip` | one codeword keeps equal trackers equal and carries its residual |
| `TypeCorrect` | `Spec => []TypeOK` |
| `LockStepCorrect` | `Spec => []LockStep` |
| `LosslessCorrect` | `Spec => []Lossless` |
| `InRangeHeadroomCorrect` | `Spec => []InRangeHeadroom` |
| `RoundTripInRange` | `Spec => [](InRange => AnyPcmRoundTrips)` |
| `TracedImplements` | `TraceSpec => Spec` |
| `TapeReplaysCorrect` | `TraceSpec => []TapeReplays` |

The invariant of the first four is

    IInv == TypeOK /\ Shaped /\ Encoding /\ Decoding /\ SlotRight /\ OutRight

Neither property can be inductive by itself, since the two sides never meet: when
the decoder reads a codeword, the tracker that wrote it is long gone. `Encoding`
therefore says that every body *has a chronicle* `h` (`Explains`): states
`h[c][r]` of each channel before each row, starting fresh, each following from
the one before by a turn of the encoder that wrote the codeword at that place;
and that the encoder stands at the end of the last one. `Decoding` says that the
decoder stands somewhere on the chronicle of the body it reads: with its tracker
always, with its whole state if no residual was clipped (`Follows`). That is why
`LockStep` holds without the condition and `Lossless` needs it. `Shaped` counts
codewords and bits, which puts each codeword where the decoder looks for it and
takes the body through the gate. `SlotRight` is the invariant of the in-place
cascade: below the counter differences, above it samples.

The step that carries it is `ChannelRoundTrip`: what the encoder subtracted with
a wrap the decoder adds with a wrap (`SignedAddBack`), so the same residual and
the same sample go into the same update. The arithmetic rests on one fact: a
wrapped result is the only word of its class modulo `2^W` (`SignedClass`).

`InRangeHeadroom` takes no invariant beyond types. A prediction is an `i32`
shifted right by at least two, so it is small *whatever the filter's sum wrapped
to* (`PredictionsBounded`); a difference of samples within the depth is small
too (`ForwardBounded`); their difference cannot be the least integer
(`ResidualBounded`). With `LosslessCorrect` this gives `RoundTripInRange`: on
samples within the declared depth the codec is lossless without a condition.

`TracedImplements` carries these theorems to the trace build, which is what the
run `frame_codec` checks: every step with its events is a step of the plain codec.
`TapeReplays` looks back over the whole tape, so its invariant ties the tape to the
state that wrote it:

    TapeInv == Placed /\ SlotTold /\ (tape # <<>> => ChannelsTold /\ RowsTold)

`ChannelsTold` says that the events of a channel tell of the rows it has done, end
in its present tracker, filter and register (`Told`), and start from the primed
ones; `RowsTold` the same of the events of the rows; `SlotTold` that the row in the
making is what Stage B gave up to the counter and what the cascade made of it
above (`Undone`). What a new event does to each subsequence is one lemma
(`OfAppend`, by induction over the tape), what a turn of a channel does another
(`TurnTold`). Three facts are about the code and not about tapes: subtracting the
residual from the sample recovers the prediction though both wrapped
(`PredictionRecovered`); the decoder's next tracker is the encoder's law applied to
the residual it *decoded*, even where that is not the one encoded (`NextAgrees`,
because both have the same zigzag); and a cascaded row decorrelates to what it
came from (`ForwardOfUndone`). So the tape can be followed on clipped streams too.

Three of the assumptions deserve a word. `PowersOfTwo` (`Word`) states what the
proofs use of `2^n` for `n` up to `W`: positive, monotone, doubling. The provers
know no exponentiation, so there is nothing to induct from; TLC
evaluates the statement at the width of the run. `RiceAssumption` asks for `MaxK
< W` and `InitK + Decay < W`, as 31 and 10 + 4 are for 32. `DepthAssumption`
asks for `W > 5`, `Shift > 1` and a depth of at most `W - 4`, as 32, 9 or 10,
and 24 are.

### What is only model-checked

* Liveness under fairness: `LoopsFinish`, `UnaryEnds`, `PlaysToTheEnd`. It is out of
  the prover's reach.

## 5. Not modelled

* **The bytes of header, seek-table entries and tags.** Fields are modelled with
  the checks on them; their little-endian encoding, and the fields inside a tag
  (titles, item lists), are not. No control depends on them.
* **`pack_pcm`** and the byte packing of the adapters: a loop that lays samples out
  as bytes and decides nothing.
* **CRC-64 of the password.** Digests matter by equality only, and that one password
  gives one digest is all that is used.
* **Probing and registration**: four bytes compared, tables of the framework
  filled; the stream description (`duration_micros`, the codec parameters)
  that no later call reads, except the sample format, which is modelled.
* **The trace's text**, its writer's I/O and the events of the container. They
  change no decoding state.
* **The table of shifts and magnitudes** of the LMS filter by byte depth: constants
  of `Predictor`.
* **Texts and conversions of errors**; the wrappers that read or format one field;
  iterators' standard adapters.
* **Tests and benches**, and seven of the fourteen fuzz targets. `typed_header`
  compares views and parser, which is `ViewsAgree`; `scan_trailers` and
  `trailer_typed` hold ranges against the buffer, which is `RangesSound`;
  `encode_roundtrip` is `Lossless` and `EncodesTheInput`; `decode`,
  `corrupt_decode` and `geometry` only ask that the calls return.
