------------------------------ MODULE Targets ------------------------------
(***************************************************************************)
(* The callers that ask the same decoder more than once: the fuzz targets  *)
(* of fuzz/fuzz_targets open a stream, make a list of calls on it and hold *)
(* every answer against an earlier one.  A target is its script, a         *)
(* sequence of calls each with what it asserts of the answer; calls whose  *)
(* answer the target throws away are left out.  Beside them works the      *)
(* caller of Decoder, who makes any call at any time.                      *)
(***************************************************************************)
EXTENDS Decoder

CONSTANT Seeds      \* triples of numbers a target draws its arguments from

ASSUME SeedsAssumption == Seeds \subseteq Nat \X Nat \X Nat

VARIABLES
  target,   \* "free": any caller; otherwise the name of the fuzz target
  seed,     \* what the target draws its arguments from
  opening,  \* what the target's first constructor answered
  notes     \* the answers so far, one for each step of its script

targetVars == <<vars, target, seed, opening, notes>>

TargetNames ==
  {"sample_range", "streaming_decode", "password_streaming", "password_corrupt", "seek_table"}

-----------------------------------------------------------------------------
\* A step: a call and what the target asserts of its answer.
Step(op, mode, a, b, must) == [op |-> op, mode |-> mode, a |-> a, b |-> b, must |-> must]
All(must) == Step("all", "eager", 0, 0, must)
Frames(k, must) == Step("frames", "lazy", k, 0, must)
At(k, must) == Step("at", "eager", k, 0, must)
From(mode, s, must) == Step("from", mode, s, 0, must)
Range_(mode, a, b, must) == Step("range", mode, a, b, must)
Times(mode, t, u, must) == Step("time", mode, t, u, must)
Seek(s, must) == Step("seek", "eager", s, 0, must)

Total == file.h.total
Wrap(n, m) == IF m = 0 THEN n ELSE n % m

\* sample_range.rs: a range in order, reversed, empty at either end.
Bounds ==
  LET a == Wrap(seed[1], Total + 1)
      b == Wrap(seed[2], Total + 1)
      least == Least(a, b)
      most  == a + b - least
  IN  CASE seed[3] % 4 = 0 -> <<least, most>>
        [] seed[3] % 4 = 1 -> <<most, least>>
        [] seed[3] % 4 = 2 -> <<0, 0>>
        [] OTHER -> <<Total, Total>>

range_calls ==
  LET a == Bounds[1]
      b == Bounds[2]
  IN  << All("any"),
         From("eager", a, "slice"), From("lazy", a, "twin"),
         Range_("eager", a, b, IF a > b THEN "refused" ELSE "slice"),
         Range_("lazy", a, b, IF a > b THEN "refused" ELSE "twin"),
         Range_("eager", 0, Total, "slice") >>
      \o (IF a < Total
          THEN << Range_("eager", a, Total, "any"), From("eager", a, "twin") >>
          ELSE <<>>)

\* The range of the whole stream by its duration, which may stop one short,
\* and the same backwards.
time_calls ==
  << Times("eager", 0, total_duration, "any"), Times("lazy", 0, total_duration, "twin") >>
  \o (IF total_duration > 0
      THEN << Times("eager", total_duration, 0, "refused"),
              Times("lazy", total_duration, 0, "refused") >>
      ELSE <<>>)

sample_range == range_calls \o time_calls

\* streaming_decode.rs: lazily, one frame, a seek, a suffix.
streaming_decode ==
  << All("any"), Frames(0, "verdict"),
     IF dec.frames = <<>> THEN At(0, "any") ELSE At(seed[1] % Len(dec.frames), "slice"),
     Seek(Wrap(seed[2], Total), "lands"),
     Frames(seed[3] % (Len(dec.frames) + 1), "slice") >>

\* password_streaming.rs does the same on a decoder with a password; its eager
\* answer is that of the one-call decode_with_password.
password_streaming == streaming_decode

\* password_corrupt.rs: one password on a stream that may be damaged.
drive_password ==
  << All("whole"), All("verdict") >>
  \o (IF dec.frames = <<>> THEN <<>>
      ELSE << Frames(0, "verdict"), At(seed[1] % Len(dec.frames), "slice of whole") >>
           \o (IF dec.crcOk
               THEN << Seek(Wrap(seed[1], Total), "accepted"),
                       From("eager", Wrap(seed[1], Total), "slice") >>
               ELSE <<>>))

Probes == << 0, Total - 1, Wrap(seed[1], Total), Total \div 2 >>

\* seek_table.rs on a table whose CRC holds, be it forged; the last call is made
\* on a table left alone.
drive_seekable ==
  << All("whole"), Frames(0, "verdict") >>
  \o [k \in DOMAIN dec.frames |-> At(k - 1, "length")]
  \o << At(Len(dec.frames), "FrameIndexOutOfRange") >>
  \o [i \in DOMAIN Probes |-> Seek(Probes[i], "accepted")]
  \o << Seek(Total, "SampleIndexOutOfRange"), From("eager", Total \div 2, "suffix") >>

\* seek_table.rs on one whose CRC fails.
drive_unseekable ==
  LET probe(s) ==
        << Seek(s, "SeekTableUnreliable"), From("eager", s, "SeekTableUnreliable"),
           Range_("eager", s, Total, "SeekTableUnreliable"), From("lazy", s, "refused"),
           Seek(SampleAt(0, file.h.rate), "SeekTableUnreliable") >>
  IN  probe(0) \o probe(Total \div 2) \o probe(Total - 1)

Script ==
  CASE target = "sample_range" -> sample_range
    [] target = "streaming_decode" -> streaming_decode
    [] target = "password_streaming" -> password_streaming
    [] target = "password_corrupt" -> drive_password
    [] target = "seek_table" /\ dec.crcOk -> drive_seekable
    [] target = "seek_table" /\ ~dec.crcOk -> drive_unseekable

-----------------------------------------------------------------------------
Before(k) ==
  LET samples[n \in 0 .. k] ==
        IF n = 0 THEN 0 ELSE samples[n - 1] + dec.frames[n].samples
  IN  samples[k] * Nch

\* Where in the output of decode_all a step's answer belongs.
Span(s) ==
  CASE s.op = "at" -> <<Before(s.a), Before(s.a + 1)>>
    [] s.op = "frames" -> <<Before(s.a), TotalEntries>>
    [] s.op = "from" -> <<s.a * Nch, TotalEntries>>
    [] s.op = "range" -> <<s.a * Nch, s.b * Nch>>

SliceOf(s, all) == SubSeq(all.pcm, Span(s)[1] + 1, Span(s)[2])
Healthy_ == TableIntact(file) /\ \A w \in FrameIds(file) : ~Damaged(file, w)

Lands(s) ==
  LET p == SeekPointOf(file.h, s) IN
  /\ p.frame < Len(dec.frames)
  /\ p.offset < dec.frames[p.frame + 1].samples
  /\ p.frame * RegularFrameSamples(file.h) + p.offset = s

\* What the target asserts of its i-th answer.
Holds(i) ==
  LET s    == Script[i]
      n    == notes[i]
      all  == notes[1]
      last == notes[i - 1]
  IN  CASE s.must = "any" -> TRUE
        [] s.must = "whole" ->
             Healthy_ => /\ n.ok /\ Len(n.pcm) = TotalEntries
                         /\ RightKey => n.pcm = Entries(0, TotalEntries)
        [] s.must = "slice" -> n.ok /\ all.ok => n.pcm = SliceOf(s, all)
        [] s.must = "suffix" -> Healthy_ => n.ok /\ n.pcm = SliceOf(s, all)
        [] s.must = "slice of whole" ->
             /\ all.ok => n.ok /\ n.pcm = SliceOf(s, all)
             /\ n.ok => Len(n.pcm) = dec.frames[s.a + 1].samples * Nch
        [] s.must = "twin" -> n.ok /\ last.ok => n.pcm = last.pcm
        [] s.must = "verdict" -> n.ok = last.ok /\ n.pcm = last.pcm
        [] s.must = "length" -> n.ok => Len(n.pcm) = dec.frames[s.a + 1].samples * Nch
        [] s.must = "lands" -> n.ok => Lands(s.a)
        [] s.must = "accepted" -> n.ok /\ Lands(s.a)
        [] s.must = "refused" -> ~n.ok /\ (s.mode = "lazy" => n.answer # FrameError)
        [] OTHER -> n.answer = s.must

-----------------------------------------------------------------------------
\* seek_table.rs and password_corrupt.rs write streams with samples, the one
\* without a password, the other with one and damaged behind the header only;
\* bound: a password, which a plain stream ignores, is tried on encrypted ones.
Suits(t) ==
  /\ t = "seek_table" => Total > 0 /\ file.h.format = 1
  /\ t \in {"password_streaming", "password_corrupt"} => file.h.format = 2
  /\ t = "password_corrupt" =>
       /\ Total > 0 /\ file.id3 <= file.len /\ DataStart(file) <= file.len
       /\ HeaderError(file.len - file.id3, file.h) = NoError

TargetInit ==
  /\ Init
  /\ target \in {"free"} \cup {t \in TargetNames : Suits(t)}
  /\ seed \in IF target = "free" THEN {<<0, 0, 0>>} ELSE Seeds
  /\ opening = "None" /\ notes = <<>>

FreeCall == target = "free" /\ Next /\ UNCHANGED <<target, seed, opening, notes>>

\* password_corrupt.rs first leaves the password out.
Passwords ==
  IF target = "password_streaming" \/ (target = "password_corrupt" /\ pc = "refused")
  THEN Digests ELSE {NoPassword}

\* A stream that does not open ends the target, but for that first try.
TargetOpens ==
  /\ target # "free"
  /\ pc = "closed" \/ (target = "password_corrupt" /\ pc = "refused")
  /\ \E p \in Passwords : Open(p) \/ OpenRefused(p)
  /\ opening' = IF pc = "closed" THEN item' ELSE opening
  /\ UNCHANGED <<target, seed, notes>>

TargetParses ==
  /\ target # "free"
  /\ PushDescriptor \/ FinishTable
  /\ UNCHANGED <<target, seed, opening, notes>>

\* An assertion that fails ends the target.
TargetCalls ==
  /\ target # "free" /\ pc = "idle" /\ Len(notes) < Len(Script)
  /\ notes # <<>> => Holds(Len(notes))
  /\ LET s == Script[Len(notes) + 1] IN
       \/ s.op = "all" /\ DecodeAll
       \/ s.op = "frames" /\ FrameIterFrom(s.a)
       \/ s.op = "at" /\ DecodeFrameAt(s.a)
       \/ s.op = "from" /\ FromSample(s.mode, s.a)
       \/ s.op = "range" /\ SampleRange(s.mode, s.a, s.b)
       \/ s.op = "time" /\ TimeRange(s.mode, s.a, s.b)
       \/ s.op = "seek" /\ SeekToSample(s.a)
  /\ UNCHANGED <<target, seed, opening, notes>>

Answered == pc = "returned" \/ (pc = "lazy" /\ item \in {"End", FrameError})

\* iter.collect(), or the loop of the eager call.
TargetCollects ==
  /\ target # "free" /\ ~Answered
  /\ Poll \/ Collect
  /\ UNCHANGED <<target, seed, opening, notes>>

\* The answer as a Result: an error takes the audio before it along.
TargetNotes ==
  LET ok == item \in {"Ok", "End"} IN
  /\ target # "free" /\ Answered
  /\ notes' = Append(notes, [ok |-> ok, answer |-> item,
                             pcm |-> IF ok THEN collected ELSE <<>>])
  /\ Release
  /\ UNCHANGED <<target, seed, opening>>

TargetNext ==
  FreeCall \/ TargetOpens \/ TargetParses \/ TargetCalls \/ TargetCollects \/ TargetNotes

TargetSpec == TargetInit /\ [][TargetNext]_targetVars /\ Fairness

-----------------------------------------------------------------------------
(***************************************************************************)
(* AssertionsHold: a fuzz target panics in one case only.  Whatever the    *)
(* stream -- healthy, damaged, truncated, with a forged seek table or the  *)
(* wrong password -- a call answers as an earlier call on the same decoder *)
(* did: lazy as eager, by sample, range and time as the slice of           *)
(* decode_all, one failing where the other does, and an encrypted stream   *)
(* asks for the password, damaged or not (fuzz_targets/streaming_decode.rs:*)
(* 44-82, sample_range.rs:28-96, seek_table.rs:18-60, password_corrupt.rs: *)
(* 203-232).  The case is a stream whose whole duration rounds down to its *)
(* first sample: a range of times that runs back over it is empty, and is  *)
(* not refused as sample_range.rs:406-417 asserts; TotalDurationIsTheEnd   *)
(* reports it.                                                             *)
(***************************************************************************)
RoundedAway(s) ==
  s.op = "time" /\ s.must = "refused" /\ SampleAt(s.a, file.h.rate) = 0

\* Every answer is noted on the way back to idle.
AssertionsHold ==
  /\ target = "password_corrupt" /\ pc # "closed" => opening = "PasswordRequired"
  /\ pc = "idle" /\ notes # <<>> => Holds(Len(notes)) \/ RoundedAway(Script[Len(notes)])
=============================================================================
