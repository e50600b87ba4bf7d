------------------------------ MODULE Decoder ------------------------------
(***************************************************************************)
(* The streaming decoder of src/decoder.rs over one in-memory file: the    *)
(* constructors, the seek-table loop that places every frame, the eager    *)
(* and the lazy entry points by frame, sample and time, and the three      *)
(* nested iterators FrameIter, SampleSkipIter and SampleRangeIter.         *)
(***************************************************************************)
EXTENDS Stream, Views

CONSTANT
  NoPassword    \* Decoder::new: no priming vector at all

VARIABLES
  file,         \* bytes: the borrowed slice, never written
  pc,           \* where the caller is: see Phases
  dec,          \* the Decoder: frames, seek_table_crc_ok, qm_priming
  it,           \* the iterator in use (kind, next_idx, prefix_to_skip, remaining)
  call,         \* history: the entries [start, stop) the call asked for
  collected,    \* the entries returned so far (lazy) or accumulated in `out'
  item          \* what the last call or the last next() returned

vars == <<file, pc, dec, it, call, collected, item>>

Phases == {"closed", "parsing", "refused", "idle", "lazy", "eager", "returned"}
IterKinds == {"none", "frames", "skip", "range"}
FrameError == "FrameError"       \* Truncated or Crc32Mismatch, as the frame has it
Answers ==
  {"None", "Pcm", "End", "Ok", FrameError, "Truncated", "InvalidMagic",
   "Crc32Mismatch", "UnsupportedFormat", "UnsupportedChannelCount",
   "UnsupportedBitDepth", "UnsupportedSampleRate", "PasswordRequired",
   "SeekTableUnreliable", "SampleIndexOutOfRange", "FrameIndexOutOfRange"}

\* 10^9 ticks: no sample of a stream that opens is shorter than a tick.
ASSUME RatesAssumption ==
  \A f \in Files : f.h.rate <= MAX_SAMPLE_RATE => f.h.rate <= TicksPerSecond
ASSUME DigestsAssumption == ZeroDigest \in Digests /\ NoPassword \notin Digests

-----------------------------------------------------------------------------
Nch == file.h.channels
Count == FrameCount(file.h)
TotalEntries == file.h.total * Nch
FrameEntries == RegularFrameSamples(file.h) * Nch

\* drain(..n) and truncate(n) on a decoded buffer.
Drain(pcm, n) == SubSeq(pcm, n + 1, Len(pcm))
Truncate(pcm, n) == SubSeq(pcm, 1, n)
Least(a, b) == IF a < b THEN a ELSE b

\* format = 1 drops a password's digest: the predictor then starts from zero.
Priming(password) ==
  IF password = NoPassword \/ file.h.format = 1 THEN ZeroDigest ELSE password

\* decode_frame_at: the Decoder's priming reaches every frame it decodes.
DecodeFrame(d) == FrameAudio(file, d, dec.qm)

-----------------------------------------------------------------------------
\* The iterators: each next() is a function of the iterator's own fields.

NoIter == [kind |-> "none", next |-> 0, skip |-> 0, left |-> 0]

\* Faulty variant: an error leaves the cursor on the next frame.
FrameNextNoStop(i) ==
  IF i.next >= Len(dec.frames) THEN [it |-> i, item |-> "End", pcm |-> <<>>]
  ELSE IF Undecodable(file, dec.frames[i.next + 1])
  THEN [it |-> [i EXCEPT !.next = @ + 1], item |-> FrameError, pcm |-> <<>>]
  ELSE [it |-> [i EXCEPT !.next = @ + 1], item |-> "Pcm",
        pcm |-> DecodeFrame(dec.frames[i.next + 1])]

\* FrameIter::next: an error moves the cursor past the last frame.
FrameNext(i) ==
  IF i.next >= Len(dec.frames) THEN [it |-> i, item |-> "End", pcm |-> <<>>]
  ELSE IF Undecodable(file, dec.frames[i.next + 1])
  THEN [it |-> [i EXCEPT !.next = Len(dec.frames)], item |-> FrameError, pcm |-> <<>>]
  ELSE [it |-> [i EXCEPT !.next = @ + 1], item |-> "Pcm",
        pcm |-> DecodeFrame(dec.frames[i.next + 1])]

\* Faulty variant: the prefix is dropped from every frame.
SkipNextEveryFrame(i) ==
  LET r == FrameNext(i) IN
  [r EXCEPT !.pcm = Drain(r.pcm, Least(i.skip, Len(r.pcm)))]

\* SampleSkipIter::next: the prefix is dropped from the first frame only.
SkipNext(i) ==
  LET r == FrameNext(i) IN
  IF r.item = "End" THEN r
  ELSE [it |-> [r.it EXCEPT !.skip = 0], item |-> r.item,
        pcm |-> Drain(r.pcm, Least(i.skip, Len(r.pcm)))]

\* Faulty variants: the count of entries left goes below zero; the frame is
\* decoded before the count is looked at.
RangeNextUnderflow(i) ==
  LET r == SkipNext(i) IN
  IF i.left = 0 THEN [it |-> i, item |-> "End", pcm |-> <<>>]
  ELSE [r EXCEPT !.it.left = i.left - Len(r.pcm),
                 !.pcm = Truncate(r.pcm, Least(i.left, Len(r.pcm)))]
RangeNextEager(i) ==
  LET r    == SkipNext(i)
      kept == Truncate(r.pcm, Least(i.left, Len(r.pcm)))
  IN  IF r.item # "Pcm" THEN r
      ELSE IF i.left = 0 THEN [r EXCEPT !.item = "End", !.pcm = <<>>]
      ELSE [r EXCEPT !.it.left = i.left - Len(kept), !.pcm = kept]

\* SampleRangeIter::next: at most `left' entries more; nothing after an error.
RangeNext(i) ==
  LET r    == SkipNext(i)
      kept == Truncate(r.pcm, Least(i.left, Len(r.pcm)))
  IN  IF i.left = 0 THEN [it |-> i, item |-> "End", pcm |-> <<>>]
      ELSE IF r.item = "End" THEN r
      ELSE IF r.item = FrameError
      THEN [it |-> [r.it EXCEPT !.left = 0], item |-> FrameError, pcm |-> <<>>]
      ELSE [it |-> [r.it EXCEPT !.left = i.left - Len(kept)], item |-> "Pcm", pcm |-> kept]

IterNext(i) ==
  CASE i.kind = "frames" -> FrameNext(i)
    [] i.kind = "skip"   -> SkipNext(i)
    [] i.kind = "range"  -> RangeNext(i)

\* size_hint: the frames behind the cursor, exact for the first two iterators.
SizeHint(i) == IF i.next >= Len(dec.frames) THEN 0 ELSE Len(dec.frames) - i.next

-----------------------------------------------------------------------------
NoCall == [start |-> 0, stop |-> 0]
NoTable == [frames |-> <<>>, offset |-> 0, crcOk |-> FALSE, qm |-> ZeroDigest]

Init ==
  /\ file \in Files
  /\ pc = "closed"
  /\ dec = NoTable /\ it = NoIter /\ call = NoCall
  /\ collected = <<>> /\ item = "None"

\* Faulty variant: without a password format 2 is one format too many.
OpenErrorUnsupported(password) ==
  LET avail == file.len - file.id3
      err   == HeaderError(avail, file.h)
  IN  IF file.id3 > file.len THEN "Truncated"
      ELSE IF err # NoError THEN err
      ELSE IF file.h.format = 2 /\ password = NoPassword THEN "UnsupportedFormat"
      ELSE IF avail - HEADER_LEN < SeekTableLen(file.h) THEN "Truncated"
      ELSE NoError

(***************************************************************************)
(* Decoder::new and new_with_password, up to the seek table: ID3v2 skip,   *)
(* header, the format gate, and only then the table's length.              *)
(***************************************************************************)
OpenError(password) ==
  LET avail == file.len - file.id3
      err   == HeaderError(avail, file.h)
  IN  IF file.id3 > file.len THEN "Truncated"
      ELSE IF err # NoError THEN err
      ELSE IF file.h.format = 2 /\ password = NoPassword THEN "PasswordRequired"
      ELSE IF avail - HEADER_LEN < SeekTableLen(file.h) THEN "Truncated"
      ELSE NoError

OpenRefused(password) ==
  /\ pc \in {"closed", "refused"}
  /\ OpenError(password) # NoError
  /\ pc' = "refused"
  /\ item' = OpenError(password)
  /\ UNCHANGED <<file, dec, it, call, collected>>

Open(password) ==
  /\ pc \in {"closed", "refused"}
  /\ OpenError(password) = NoError
  /\ pc' = "parsing"
  /\ dec' = [NoTable EXCEPT !.offset = DataStart(file), !.qm = Priming(password)]
  /\ item' = "None"
  /\ UNCHANGED <<file, it, call, collected>>

\* Faulty variant: an empty entry is passed over without a descriptor.
PushDescriptorSkippingEmpty ==
  LET i == Len(dec.frames) IN
  /\ pc = "parsing"
  /\ i < Count
  /\ dec' = [dec EXCEPT
       !.frames = IF file.table[i] = 0 THEN @ ELSE
                    Append(@, Descriptor(file, i, dec.offset)),
       !.offset = @ + file.table[i]]
  /\ UNCHANGED <<file, pc, it, call, collected, item>>

\* One turn of parse_seek_table's loop: offsets accumulate the stored sizes.
PushDescriptor ==
  LET i == Len(dec.frames) IN
  /\ pc = "parsing"
  /\ i < Count
  /\ dec' = [dec EXCEPT
       !.frames = Append(@, Descriptor(file, i, dec.offset)),
       !.offset = @ + file.table[i]]
  /\ UNCHANGED <<file, pc, it, call, collected, item>>

\* A CRC mismatch over the entries is recorded, not fatal.
FinishTable ==
  /\ pc = "parsing"
  /\ Len(dec.frames) = Count
  /\ pc' = "idle"
  /\ dec' = [dec EXCEPT !.crcOk = file.tableCrc]
  /\ UNCHANGED <<file, it, call, collected, item>>

-----------------------------------------------------------------------------
(***************************************************************************)
(* Calls.  Lazy ones hand the iterator to the caller; eager ones own it    *)
(* and loop over it.                                                       *)
(***************************************************************************)
Reset(phase) ==
  /\ pc' = phase
  /\ item' = "None"
  /\ collected' = <<>>
  /\ UNCHANGED <<file, dec>>

\* A call that iterates over [start, stop) from the given iterator.
Iterate(mode, iter, start, stop) ==
  /\ it' = iter
  /\ call' = [start |-> start, stop |-> stop]
  /\ Reset(mode)

\* A call that returns at once.
Answer(answer, pcm, start, stop) ==
  /\ pc' = "returned"
  /\ item' = answer
  /\ collected' = pcm
  /\ call' = [start |-> start, stop |-> stop]
  /\ it' = NoIter
  /\ UNCHANGED <<file, dec>>

FrameStart(k) == Least(k * FrameEntries, TotalEntries)
FramesFrom(k) == [NoIter EXCEPT !.kind = "frames", !.next = Least(k, Len(dec.frames))]

\* frame_iter (k = 0) and frame_iter_from.
FrameIterFrom(k) ==
  /\ pc = "idle"
  /\ Iterate("lazy", FramesFrom(k), FrameStart(k), TotalEntries)

\* decode_all walks the descriptors in stored order and stops at the first error.
DecodeAll ==
  /\ pc = "idle"
  /\ Iterate("eager", FramesFrom(0), 0, TotalEntries)

DecodeFrameAt(k) ==
  /\ pc = "idle"
  /\ IF k >= Len(dec.frames) THEN Answer("FrameIndexOutOfRange", <<>>, 0, 0)
     ELSE IF Undecodable(file, dec.frames[k + 1])
     THEN Answer(FrameError, <<>>, FrameStart(k), FrameStart(k + 1))
     ELSE Answer("Ok", DecodeFrame(dec.frames[k + 1]), FrameStart(k), FrameStart(k + 1))

\* Faulty variant: an unseekable stream is not refused.
SeekErrorUngated(s) ==
  IF s >= file.h.total THEN "SampleIndexOutOfRange" ELSE NoError

\* seek_to_sample: seekability first, then the range.
SeekError(s) ==
  IF ~dec.crcOk THEN "SeekTableUnreliable"
  ELSE IF s >= file.h.total THEN "SampleIndexOutOfRange"
  ELSE IF RegularFrameSamples(file.h) = 0 THEN "SampleIndexOutOfRange"
  ELSE IF SeekFrame(file.h, s) >= Len(dec.frames) THEN "SampleIndexOutOfRange"
  ELSE NoError

\* Faulty variant: the offset counts samples, the buffer values.
SkipFromSamples(s) ==
  [FramesFrom(SeekFrame(file.h, s)) EXCEPT
     !.kind = "skip", !.skip = SeekOffset(file.h, s)]

\* frame_iter_from_sample's iterator, shared by the range iterator.
SkipFrom(s) ==
  [FramesFrom(SeekFrame(file.h, s)) EXCEPT
     !.kind = "skip", !.skip = SeekOffset(file.h, s) * Nch]

\* frame_iter_from_sample (lazy) and decode_from_sample (eager).
FromSample(mode, s) ==
  /\ pc = "idle"
  /\ IF SeekError(s) # NoError THEN Answer(SeekError(s), <<>>, 0, 0)
     ELSE Iterate(mode, SkipFrom(s), s * Nch, TotalEntries)

\* frame_iter_sample_range (lazy) and decode_sample_range (eager): an empty
\* range seeks nowhere, so it is allowed on an unseekable stream.
SampleRange(mode, a, b) ==
  /\ pc = "idle"
  /\ IF a > b \/ b > file.h.total THEN Answer("SampleIndexOutOfRange", <<>>, 0, 0)
     ELSE IF a = b
     THEN Iterate(mode, [FramesFrom(Len(dec.frames)) EXCEPT !.kind = "range"],
                  a * Nch, b * Nch)
     ELSE IF SeekError(a) # NoError THEN Answer(SeekError(a), <<>>, 0, 0)
     ELSE Iterate(mode, [SkipFrom(a) EXCEPT !.kind = "range", !.left = (b - a) * Nch],
                  a * Nch, b * Nch)

\* seek_to_sample as a call of its own: it answers with a seek point.
SeekToSample(s) ==
  /\ pc = "idle"
  /\ Answer(IF SeekError(s) = NoError THEN "Ok" ELSE SeekError(s), <<>>, 0, 0)

total_duration == DurationAt(file.h.total, file.h.rate)

\* frame_iter_from_time and decode_from_time, frame_iter_time_range and
\* decode_time_range: the same calls, from the sample that sounds then.
FromTime(mode, t) == FromSample(mode, SampleAt(t, file.h.rate))
TimeRange(mode, t, u) == SampleRange(mode, SampleAt(t, file.h.rate), SampleAt(u, file.h.rate))

-----------------------------------------------------------------------------
\* The caller polls the iterator, also after its end or an error.
Poll ==
  LET r == IterNext(it) IN
  /\ pc = "lazy"
  /\ it' = r.it
  /\ item' = r.item
  /\ collected' = collected \o r.pcm
  /\ UNCHANGED <<file, pc, dec, call>>

\* for frame in iter { out.extend(frame?) } Ok(out): an error discards `out'.
Collect ==
  LET r == IterNext(it) IN
  /\ pc = "eager"
  /\ it' = r.it
  /\ item' = IF r.item = "End" THEN "Ok" ELSE r.item
  /\ collected' = IF r.item = FrameError THEN <<>> ELSE collected \o r.pcm
  /\ pc' = IF r.item = "Pcm" THEN "eager" ELSE "returned"
  /\ UNCHANGED <<file, dec, call>>

\* The caller lets the iterator or the result go.
Release ==
  /\ pc \in {"lazy", "returned"}
  /\ it' = NoIter /\ call' = NoCall
  /\ Reset("idle")

\* Arguments around every boundary: past the last frame, past the last sample.
FrameArgs == 0 .. Count + 1
SampleArgs == 0 .. file.h.total + 1
SampleTimes == {DurationAt(n, file.h.rate) : n \in SampleArgs}
TimeArgs == SampleTimes \cup {t + 1 : t \in SampleTimes}

Next ==
  \/ \E p \in Digests \cup {NoPassword} : OpenRefused(p) \/ Open(p)
  \/ PushDescriptor \/ FinishTable
  \/ \E k \in FrameArgs : FrameIterFrom(k) \/ DecodeFrameAt(k)
  \/ DecodeAll
  \/ \E s \in SampleArgs : SeekToSample(s)
  \/ \E mode \in {"lazy", "eager"} :
       \/ \E s \in SampleArgs : FromSample(mode, s)
       \/ \E a, b \in SampleArgs : SampleRange(mode, a, b)
       \/ \E t \in TimeArgs : FromTime(mode, t)
       \/ \E t, u \in TimeArgs : TimeRange(mode, t, u)
  \/ Poll \/ Collect \/ Release

Spec == Init /\ [][Next]_vars

\* The library's own loops run to completion; nothing obliges the caller.
Fairness == WF_vars(PushDescriptor) /\ WF_vars(FinishTable) /\ WF_vars(Collect)
FairSpec == Spec /\ Fairness

-----------------------------------------------------------------------------
\* What the properties speak of.

\* The password is right, or none is needed: format 1 ignores one.
RightKey == file.h.format = 1 \/ dec.qm = file.key

\* The entry the next delivered one must be.
Reached == call.start + Len(collected)

\* Frame w holds entries of the request.
Requested(w) == FrameStart(w) < call.stop /\ call.start < FrameStart(w + 1)

\* The first entry of frame w the call would have returned.
FirstRequested(w) == IF call.start < FrameStart(w) THEN FrameStart(w) ELSE call.start
DamageMet == {w \in FrameIds(file) : Damaged(file, w) /\ Requested(w)}
StoppedAtDamage == \E w \in DamageMet : Reached = FirstRequested(w)

(***************************************************************************)
(* TypeOK: the shape of the decoder's state; the descriptors pushed so far *)
(* are never more than the geometry allows.                                *)
(***************************************************************************)
Descriptors == [offset : Nat, disk : Nat, samples : Nat]

TypeOK ==
  /\ file \in Files
  /\ pc \in Phases
  /\ dec \in [frames : Seq(Descriptors), offset : Nat, crcOk : BOOLEAN, qm : Digests]
  /\ Len(dec.frames) <= Count
  /\ it \in [kind : IterKinds, next : Nat, skip : Nat, left : Nat]
  /\ call \in [start : Nat, stop : Nat]
  /\ collected \in Seq(Int)
  /\ item \in Answers

(***************************************************************************)
(* ExactSlice: on a file whose seek table is intact, every entry point --  *)
(* linear, by index, from a sample, over a range, lazy or eager, with or   *)
(* without a password on a format 1 file -- returns exactly the entries    *)
(* from the requested start on, in order, without gap or repetition, and   *)
(* never one past the requested end (decoder.rs:630-631, 820-828).         *)
(***************************************************************************)
IsSlice ==
  /\ collected = Entries(call.start, Reached)
  /\ Reached <= call.stop

ExactSlice == TableIntact(file) /\ RightKey => IsSlice

(***************************************************************************)
(* NeverWrongAudio: whatever happened to the seek table, what is decoded   *)
(* from the stream's beginning is the right audio, and so is, unless the   *)
(* table was forged, what is decoded from a sample position: a wrong entry *)
(* shifts every later frame window, possibly onto another whole frame, but *)
(* the walk stops at the entry first and the sample-addressed calls refuse *)
(* an unseekable stream (decoder.rs:556-572).                              *)
(***************************************************************************)
NeverWrongAudio ==
  RightKey /\ (call.start = 0 \/ (~Forged(file) /\ it.kind \in {"skip", "range"}))
    => IsSlice

(***************************************************************************)
(* StopsOnlyAtDamage: with an intact table a read comes up short only      *)
(* because a frame it asked for is damaged, at the first entry of that     *)
(* frame it would have returned; damage outside the request is never met,  *)
(* and an eager call that returns Ok returned all of it                    *)
(* (decoder.rs:826-827, "Frames past `end` are not decoded at all").       *)
(***************************************************************************)
StopsOnlyAtDamage ==
  TableIntact(file) =>
    /\ item = "Ok" => Reached = call.stop
    /\ item = "End" => Reached = call.stop \/ StoppedAtDamage
    /\ item = FrameError => DamageMet # {} /\ (pc = "lazy" => StoppedAtDamage)

(***************************************************************************)
(* ErrorOnce: after an error or the end, every further next() returns None *)
(* and hands out nothing (decoder.rs:1123-1127), and the iterators that    *)
(* call themselves ExactSizeIterator announce nothing any more             *)
(* (decoder.rs:1152-1158).                                                 *)
(***************************************************************************)
ErrorOnce ==
  [][pc = "lazy" /\ pc' = "lazy" /\ item \in {"End", FrameError}
       => /\ item' = "End" /\ collected' = collected
          /\ it.kind # "range" => SizeHint(it) = 0]_vars

(***************************************************************************)
(* RefusalStands: a stream refused for anything but a missing password is  *)
(* refused with every password, for the same reason unless the next try    *)
(* leaves the password out: a caller who is told something else need not   *)
(* ask the user for one (decoder.rs:398-408).                              *)
(***************************************************************************)
RefusalStands ==
  [][pc = "refused" /\ item # "PasswordRequired"
       => pc' = "refused" /\ item' \in {item, "PasswordRequired"}]_vars

(***************************************************************************)
(* TimeKeepsItsPlace: a range between the durations of two samples, which  *)
(* header.rs:240 and decoder.rs:693 hand out, begins and ends at those     *)
(* samples, or one before where the clock cannot hold the moment, so that  *)
(* nothing but the last sample is lost at the end of the stream (which is  *)
(* against decoder.rs:868-869: see TotalDurationIsTheEnd); in order it is  *)
(* never refused as out of range (decoder.rs:855-868).                     *)
(***************************************************************************)
Place(n) == IF (n * TicksPerSecond) % file.h.rate = 0 THEN n ELSE n - 1

TimeKeepsItsPlace ==
  [][pc = "idle" => \A mode \in {"lazy", "eager"} : \A a, b \in 0 .. file.h.total :
       a <= b /\ TimeRange(mode, DurationAt(a, file.h.rate), DurationAt(b, file.h.rate))
         => IF pc' = "returned" THEN item' = "SeekTableUnreliable"
            ELSE call' = [start |-> Place(a) * Nch, stop |-> Place(b) * Nch]]_vars

(***************************************************************************)
(* ViewsAgree: what the typed views work out for themselves is what the    *)
(* parser and the decoder do: the same verdict on a header, the same       *)
(* frames, a seek point inside its own frame, a byte count that the whole  *)
(* audio fills, and no lift that fails on a frame or a point that decodes  *)
(* (header.rs:405-424, 520-531, decoder.rs:1083-1107).  On the bytes of a  *)
(* frame they do differ, the parser takes entries the view does not lift:  *)
(* see ParsedEntriesLift.                                                  *)
(***************************************************************************)
HeaderViewAgrees ==
  FromHeaderError(file.h) =
    HeaderError(HEADER_LEN, [file.h EXCEPT !.magic = TRUE, !.crc = TRUE])

FrameViewAgrees(g, j) ==
  LET d == dec.frames[j] IN
  /\ d.samples = FrameSamplesAt(g, j - 1)
  /\ FrameSampleCountError(d.samples) = NoError
  /\ FrameByteLengthError(d.disk) # NoError => Undecodable(file, d)

SeekViewAgrees(g, s) ==
  LET p == SeekPointOf(file.h, s) IN
  /\ FrameIndexError(p.frame, Len(dec.frames)) = NoError
  /\ InFrameSampleOffsetError(p.offset, g.regular) = NoError
  /\ p.offset < FrameSamplesAt(g, p.frame)
  /\ p.frame * g.regular + p.offset = s
  /\ SkipFrom(s).skip = interleaved_skip(p.offset, Nch)

ViewsAgree ==
  LET g == frame_geometry_typed(file.h) IN
  /\ HeaderViewAgrees
  /\ pc \notin {"closed", "refused"} =>
       /\ GeometryTotal(g) = file.h.total
       /\ DataStart(file) = file.id3 + HEADER_LEN + SeekTableSizeBytes(g)
       /\ \A j \in DOMAIN dec.frames : FrameViewAgrees(g, j)
  /\ pc = "idle" =>
       \A s \in SampleArgs : SeekError(s) = NoError => SeekViewAgrees(g, s)
  /\ it.kind = "frames" /\ call.start = 0 /\ item = "Ok" =>
       Len(collected) * byte_depth(file.h) = pcm_byte_len(file.h)

(***************************************************************************)
(* LoopsFinish: opening a stream and every eager call return, whatever the *)
(* seek table holds, zero-sized entries included.                          *)
(***************************************************************************)
LoopsFinish ==
  /\ pc = "parsing" ~> pc = "idle"
  /\ pc = "eager" ~> pc = "returned"

-----------------------------------------------------------------------------
(***************************************************************************)
(* What the documentation says and the code does not do.                   *)
(***************************************************************************)

\* lib.rs:137 says of decode that all header, seek-table and frame CRCs are
\* verified and any failure returns an error.
DecodeVerifiesSeekTable == it.kind = "frames" /\ item = "Ok" => dec.crcOk

\* decoder.rs:868-869 says a range of times whose end is the total duration goes
\* to the end of the stream, and fuzz_targets/sample_range.rs:406-417 asserts
\* that one back from there to zero is refused.
TotalDurationIsTheEnd ==
  [][pc = "idle" /\ total_duration > 0 => \A mode \in {"lazy", "eager"} :
       /\ TimeRange(mode, 0, total_duration) => SampleRange(mode, 0, file.h.total)
       /\ TimeRange(mode, total_duration, 0) => item' = "SampleIndexOutOfRange"]_vars

\* header.rs:801-803 says a descriptor that came out of the parser always lifts.
ParsedEntriesLift ==
  pc = "idle" => \A j \in DOMAIN dec.frames :
                   FrameByteLengthError(dec.frames[j].disk) = NoError
=============================================================================
