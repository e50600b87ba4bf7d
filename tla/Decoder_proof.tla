-------------------------- MODULE Decoder_proof ---------------------------
(***************************************************************************)
(* What holds of Decoder for every set of files and digests: its types,    *)
(* that with an intact seek table every read is an exact slice, that a     *)
(* read stops short at a failing frame only, that every stream has one     *)
(* sound, of which all the calls hand out pieces, and, of Targets, that no *)
(* assertion of the fuzz targets' scripts fails.                           *)
(***************************************************************************)
EXTENDS Targets, Stream_proof

-----------------------------------------------------------------------------
\* The buffer operations on a slice of the stream.

LEMMA DrainEntries ==
  ASSUME NEW a \in Nat, NEW b \in Nat, NEW n \in Nat, a + n <= b
  PROVE  Drain(Entries(a, b), n) = Entries(a + n, b)
<1> DEFINE s == Entries(a, b)
           u == Entries(a + n, b)
<1>1. s \in Seq(Int) /\ Len(s) = b - a /\ \A i \in 1 .. b - a : s[i] = a + i - 1
  BY EntriesType
<1>2. /\ u \in Seq(Int) /\ Len(u) = b - (a + n)
      /\ \A i \in 1 .. b - (a + n) : u[i] = (a + n) + i - 1
  <2>1. a + n \in Nat OBVIOUS
  <2>2. QED BY <2>1, EntriesType
<1> HIDE DEF s, u
<1>3. /\ SubSeq(s, n + 1, Len(s)) \in Seq(Int)
      /\ Len(SubSeq(s, n + 1, Len(s))) = Len(u)
  BY <1>1, <1>2
<1>5. ASSUME NEW i \in 1 .. Len(u) PROVE SubSeq(s, n + 1, Len(s))[i] = u[i]
  <2>1. SubSeq(s, n + 1, Len(s))[i] = s[n + i]
    <3>1. n <= Len(s) /\ i \in 1 .. Len(s) - n BY <1>1, <1>2
    <3>2. QED BY <1>1, <3>1, SuffixElement
  <2>2. n + i \in 1 .. b - a BY <1>2
  <2>3. QED BY <1>1, <1>2, <2>1, <2>2
<1>6. SubSeq(s, n + 1, Len(s)) = u BY <1>2, <1>3, <1>5, SeqIntEqual
<1>7. QED BY <1>6 DEF s, u, Drain

LEMMA TruncateEntries ==
  ASSUME NEW a \in Nat, NEW b \in Nat, NEW n \in Nat, a + n <= b
  PROVE  Truncate(Entries(a, b), n) = Entries(a, a + n)
<1> DEFINE s == Entries(a, b)
           u == Entries(a, a + n)
<1>1. s \in Seq(Int) /\ Len(s) = b - a /\ \A i \in 1 .. b - a : s[i] = a + i - 1
  BY EntriesType
<1>2. u \in Seq(Int) /\ Len(u) = n /\ \A i \in 1 .. n : u[i] = a + i - 1
  BY EntriesType
<1> HIDE DEF s, u
<1>3. SubSeq(s, 1, n) = u BY <1>1, <1>2
<1>4. QED BY <1>3 DEF s, u, Truncate

LEMMA DrainType ==
  ASSUME NEW s \in Seq(Int), NEW n \in Nat, n <= Len(s)
  PROVE  Drain(s, n) \in Seq(Int) /\ Len(Drain(s, n)) = Len(s) - n
  BY DEF Drain

LEMMA TruncateType ==
  ASSUME NEW s \in Seq(Int), NEW n \in Nat, n <= Len(s)
  PROVE  Truncate(s, n) \in Seq(Int) /\ Len(Truncate(s, n)) = n
  BY DEF Truncate
-----------------------------------------------------------------------------
(***************************************************************************)
(* Types.  The iterators are typed as functions of their fields; TypeOK    *)
(* needs to know besides that a call in progress has an iterator.          *)
(***************************************************************************)
Iterators == [kind : IterKinds, next : Nat, skip : Nat, left : Nat]
Turns == [it : Iterators, item : {"Pcm", "End", FrameError}, pcm : Seq(Int)]

HasIterator == pc \in {"lazy", "eager"} => it.kind # "none"

LEMMA FileType ==
  ASSUME file \in Files
  PROVE  /\ WellFormed(file) /\ file.h \in HeaderRecords
         /\ Count \in Nat /\ Nch \in Nat /\ FrameEntries \in Nat /\ TotalEntries \in Nat
         /\ \A i \in Nat : FrameSamples(file.h, i) \in Nat
         /\ \A i \in Nat : FrameStart(i) \in Nat
         /\ DataStart(file) \in Nat
<1>1. WellFormed(file) BY FilesAssumption
<1>2. file.h \in HeaderRecords BY <1>1 DEF WellFormed
<1>3. /\ RegularFrameSamples(file.h) \in Nat /\ FrameCount(file.h) \in Nat
      /\ \A i \in Nat : FrameSamples(file.h, i) \in Nat
  BY <1>2, GeometryType
<1>4. file.h.channels \in Nat /\ file.h.total \in Nat BY <1>2 DEF HeaderRecords
<1>5. Nch \in Nat /\ Count \in Nat BY <1>3, <1>4 DEF Nch, Count
<1>6. FrameEntries \in Nat /\ TotalEntries \in Nat
  BY <1>3, <1>4, <1>5, ProductInNat DEF FrameEntries, TotalEntries
<1>7. \A i \in Nat : FrameStart(i) \in Nat BY <1>6, ProductInNat DEF FrameStart, Least
<1>8. DataStart(file) \in Nat
  BY <1>1, <1>3 DEF DataStart, WellFormed, HEADER_LEN, SeekTableLen
<1>9. QED BY <1>1, <1>2, <1>3, <1>5, <1>6, <1>7, <1>8

\* A buffer is typed even under the wrong key, and as long as the descriptor says.
LEMMA DecodeFrameType ==
  ASSUME TypeOK, NEW d \in Descriptors, ~Undecodable(file, d)
  PROVE  DecodeFrame(d) \in Seq(Int) /\ Len(DecodeFrame(d)) = d.samples * Nch
<1> DEFINE w == CHOOSE v \in Matching(file, d) : TRUE
           n == d.samples * Nch
           first == w * FrameEntries
<1>1. Matching(file, d) # {} BY DEF Undecodable
<1>2. w \in Matching(file, d) BY <1>1
<1>3. w \in Nat BY <1>2, FileType DEF Matching, FrameIds, TypeOK
<1>4. n \in Nat BY FileType, ProductInNat DEF TypeOK, Descriptors
<1>5. first \in Nat BY <1>3, FileType, ProductInNat DEF TypeOK
<1> HIDE DEF w, n, first
<1>6. Entries(first, first + n) \in Seq(Int) /\ Len(Entries(first, first + n)) = n
  <2>1. first + n \in Nat /\ first <= first + n /\ (first + n) - first = n BY <1>4, <1>5
  <2>2. QED BY <1>5, <2>1, EntriesType
<1>7. [i \in 1 .. n |-> Garbled] \in Seq(Int) /\ Len([i \in 1 .. n |-> Garbled]) = n
  BY <1>4 DEF Garbled
<1>8. DecodeFrame(d) = IF dec.qm = file.key THEN Entries(first, first + n)
                       ELSE [i \in 1 .. n |-> Garbled]
  BY DEF DecodeFrame, FrameAudio, FrameEntries, Nch, first, n, w
<1>9. QED BY <1>6, <1>7, <1>8 DEF n

LEMMA FrameNextType ==
  ASSUME TypeOK, NEW i \in Iterators PROVE FrameNext(i) \in Turns
<1>1. CASE i.next >= Len(dec.frames)
  BY <1>1 DEF FrameNext, Turns, TypeOK
<1>2. CASE i.next < Len(dec.frames)
  <2>1. dec.frames[i.next + 1] \in Descriptors BY <1>2 DEF TypeOK, Iterators
  <2>2. CASE Undecodable(file, dec.frames[i.next + 1])
    <3>1. [i EXCEPT !.next = Len(dec.frames)] \in Iterators BY DEF Iterators, TypeOK
    <3>2. <<>> \in Seq(Int) OBVIOUS
    <3>3. FrameNext(i) = [it |-> [i EXCEPT !.next = Len(dec.frames)],
                          item |-> FrameError, pcm |-> <<>>]
      BY <1>2, <2>2 DEF FrameNext, TypeOK, Iterators
    <3>4. QED BY <3>1, <3>2, <3>3 DEF Turns
  <2>3. CASE ~Undecodable(file, dec.frames[i.next + 1])
    <3>1. DecodeFrame(dec.frames[i.next + 1]) \in Seq(Int) BY <2>1, <2>3, DecodeFrameType
    <3>2. [i EXCEPT !.next = i.next + 1] \in Iterators BY DEF Iterators
    <3>3. FrameNext(i) = [it |-> [i EXCEPT !.next = i.next + 1], item |-> "Pcm",
                          pcm |-> DecodeFrame(dec.frames[i.next + 1])]
      BY <1>2, <2>3 DEF FrameNext, TypeOK, Iterators
    <3>4. QED BY <3>1, <3>2, <3>3 DEF Turns
  <2>4. QED BY <2>2, <2>3
<1>3. QED BY <1>1, <1>2 DEF TypeOK, Iterators

LEMMA SkipNextType ==
  ASSUME TypeOK, NEW i \in Iterators PROVE SkipNext(i) \in Turns
<1> DEFINE r == FrameNext(i)
           n == Least(i.skip, Len(r.pcm))
<1>1. r \in Turns BY FrameNextType
<1> HIDE DEF r
<1>2. n \in Nat /\ n <= Len(r.pcm) BY <1>1 DEF Least, Turns, Iterators
<1>3. Drain(r.pcm, n) \in Seq(Int) BY <1>1, <1>2, DrainType DEF Turns
<1>4. SkipNext(i) = IF r.item = "End" THEN r
                    ELSE [it |-> [r.it EXCEPT !.skip = 0], item |-> r.item,
                          pcm |-> Drain(r.pcm, n)]
  BY DEF SkipNext, r
<1> HIDE DEF n
<1>5. [r.it EXCEPT !.skip = 0] \in Iterators BY <1>1 DEF Turns, Iterators
<1>6. QED BY <1>1, <1>3, <1>4, <1>5 DEF Turns

LEMMA RangeNextType ==
  ASSUME TypeOK, NEW i \in Iterators PROVE RangeNext(i) \in Turns
<1> DEFINE r == SkipNext(i)
           n == Least(i.left, Len(r.pcm))
           kept == Truncate(r.pcm, n)
<1>1. r \in Turns BY SkipNextType
<1> HIDE DEF r
<1>2. n \in Nat /\ n <= Len(r.pcm) /\ n <= i.left BY <1>1 DEF Least, Turns, Iterators
<1>3. kept \in Seq(Int) /\ Len(kept) = n BY <1>1, <1>2, TruncateType DEF Turns
<1>4. RangeNext(i) =
        IF i.left = 0 THEN [it |-> i, item |-> "End", pcm |-> <<>>]
        ELSE IF r.item = "End" THEN r
        ELSE IF r.item = FrameError
        THEN [it |-> [r.it EXCEPT !.left = 0], item |-> FrameError, pcm |-> <<>>]
        ELSE [it |-> [r.it EXCEPT !.left = i.left - Len(kept)], item |-> "Pcm", pcm |-> kept]
  BY DEF RangeNext, r
<1> HIDE DEF n, kept
<1>5. i.left - Len(kept) \in Nat BY <1>2, <1>3 DEF Iterators
<1>6. /\ [r.it EXCEPT !.left = 0] \in Iterators
      /\ [r.it EXCEPT !.left = i.left - Len(kept)] \in Iterators
  BY <1>1, <1>5 DEF Turns, Iterators
<1>7. <<>> \in Seq(Int) OBVIOUS
<1>8. QED BY <1>1, <1>3, <1>4, <1>6, <1>7 DEF Turns

LEMMA IterNextType ==
  ASSUME TypeOK, it.kind # "none"
  PROVE  IterNext(it) \in Turns
<1>1. it \in Iterators BY DEF TypeOK, Iterators
<1>2. it.kind \in {"frames", "skip", "range"} BY DEF TypeOK, IterKinds
<1>3. QED BY <1>1, <1>2, FrameNextType, SkipNextType, RangeNextType DEF IterNext

\* A turn never changes what an iterator is.
LEMMA IterNextKind ==
  ASSUME TypeOK, it.kind # "none" PROVE IterNext(it).it.kind = it.kind
<1> DEFINE f == FrameNext(it)
           s == SkipNext(it)
<1>1. it \in Iterators BY DEF TypeOK, Iterators
<1>2. f.it.kind = it.kind BY <1>1 DEF FrameNext, Iterators
<1>3. f \in Turns /\ s \in Turns BY <1>1, FrameNextType, SkipNextType
<1>4. s.it = f.it \/ s.it = [f.it EXCEPT !.skip = 0] BY DEF SkipNext
<1> HIDE DEF f
<1>5. s.it.kind = it.kind BY <1>2, <1>3, <1>4 DEF Turns, Iterators
<1>6. \/ RangeNext(it).it = it \/ RangeNext(it).it = s.it
      \/ \E n : RangeNext(it).it = [s.it EXCEPT !.left = n]
  BY DEF RangeNext
<1> HIDE DEF s
<1>7. RangeNext(it).it.kind = it.kind BY <1>1, <1>3, <1>5, <1>6 DEF Turns, Iterators
<1>8. it.kind \in {"frames", "skip", "range"} BY DEF TypeOK, IterKinds
<1>9. QED BY <1>2, <1>5, <1>7, <1>8 DEF IterNext, f, s

-----------------------------------------------------------------------------
Typed == TypeOK /\ HasIterator

LEMMA PrimingType == ASSUME TypeOK, NEW p \in Digests \cup {NoPassword}
                     PROVE Priming(p) \in Digests
  BY DigestsAssumption DEF Priming

LEMMA OpenErrorType ==
  ASSUME NEW p \in Digests \cup {NoPassword} PROVE OpenError(p) \in Answers \cup {NoError}
  BY DEF OpenError, HeaderError, Answers

LEMMA SeekErrorType == ASSUME NEW s PROVE SeekError(s) \in Answers \cup {NoError}
  BY DEF SeekError, Answers

LEMMA FramesFromType ==
  ASSUME TypeOK, NEW k \in Nat PROVE FramesFrom(k) \in Iterators /\ FramesFrom(k).kind = "frames"
<1>1. Len(dec.frames) \in Nat BY DEF TypeOK
<1>2. Least(k, Len(dec.frames)) \in Nat BY <1>1 DEF Least
<1>3. NoIter \in Iterators BY DEF NoIter, Iterators, IterKinds
<1>4. QED BY <1>2, <1>3 DEF FramesFrom, Iterators, IterKinds

\* Seeking is typed once SeekError has ruled the empty geometry out.
LEMMA SkipFromType ==
  ASSUME TypeOK, NEW s \in Nat, SeekError(s) = NoError
  PROVE  SkipFrom(s) \in Iterators /\ SkipFrom(s).kind = "skip"
<1> DEFINE R == RegularFrameSamples(file.h)
<1>0. file.h \in HeaderRecords BY FileType DEF TypeOK
<1>1. R \in Nat /\ R > 0
  <2>1. R \in Nat BY <1>0, GeometryType
  <2>2. R # 0 BY DEF SeekError, NoError
  <2>3. QED BY <2>1, <2>2
<1> HIDE DEF R
<1>2. s \div R \in Nat /\ s % R \in Nat BY <1>1, DivMod
<1>3. SeekFrame(file.h, s) \in Nat /\ SeekOffset(file.h, s) \in Nat
  BY <1>2 DEF R, SeekFrame, SeekOffset
<1>4. SeekOffset(file.h, s) * Nch \in Nat BY <1>3, FileType, ProductInNat DEF TypeOK
<1>5. FramesFrom(SeekFrame(file.h, s)) \in Iterators BY <1>3, FramesFromType
<1>6. QED BY <1>4, <1>5 DEF SkipFrom, Iterators, IterKinds

\* Durations and the samples they fall on are natural numbers.
LEMMA ClockTypes ==
  ASSUME NEW n \in Nat, NEW rate \in Nat
  PROVE  DurationAt(n, rate) \in Nat /\ SampleAt(n, rate) \in Nat
<1>1. TicksPerSecond \in Nat /\ TicksPerSecond > 0 BY ClockAssumption
<1>2. SampleAt(n, rate) \in Nat BY <1>1, ProductInNat, DivMod DEF SampleAt
<1>3. CASE rate = 0 BY <1>2, <1>3 DEF DurationAt
<1>4. CASE rate # 0
  <2>1. n \div rate \in Nat /\ n % rate \in Nat BY <1>4, DivMod
  <2>2. (n \div rate) * TicksPerSecond \in Nat BY <1>1, <2>1, ProductInNat
  <2>3. (n % rate) * TicksPerSecond \in Nat BY <1>1, <2>1, ProductInNat
  <2>4. ((n % rate) * TicksPerSecond) \div rate \in Nat BY <1>4, <2>3, DivMod
  <2>5. QED BY <1>2, <1>4, <2>2, <2>4 DEF DurationAt
<1>5. QED BY <1>3, <1>4

LEMMA ArgsType ==
  ASSUME TypeOK
  PROVE  /\ SampleArgs \subseteq Nat
         /\ \A t \in TimeArgs : SampleAt(t, file.h.rate) \in Nat
<1>1. file.h.total \in Nat /\ file.h.rate \in Nat BY FileType DEF TypeOK, HeaderRecords
<1>2. SampleArgs \subseteq Nat BY <1>1 DEF SampleArgs
<1>3. SampleTimes \subseteq Nat BY <1>1, <1>2, ClockTypes DEF SampleTimes
<1>4. TimeArgs \subseteq Nat
  <2>1. \A t \in SampleTimes : t \in Nat /\ t + 1 \in Nat BY <1>3
  <2> SUFFICES ASSUME NEW t \in TimeArgs PROVE t \in Nat OBVIOUS
  <2>2. QED BY <2>1 DEF TimeArgs
<1>5. QED BY <1>1, <1>2, <1>4, ClockTypes

LEMMA IterateTypes ==
  ASSUME Typed, NEW mode \in {"lazy", "eager"}, NEW iter \in Iterators, iter.kind # "none",
         NEW start \in Nat, NEW stop \in Nat, Iterate(mode, iter, start, stop)
  PROVE  Typed'
<1>1. <<>> \in Seq(Int) OBVIOUS
<1>2. QED BY <1>1 DEF Typed, TypeOK, HasIterator, Iterate, Reset, Iterators, Phases,
                      Answers, Count

LEMMA AnswerTypes ==
  ASSUME Typed, NEW answer \in Answers, NEW pcm \in Seq(Int),
         NEW start \in Nat, NEW stop \in Nat, Answer(answer, pcm, start, stop)
  PROVE  Typed'
  BY DEF Typed, TypeOK, HasIterator, Answer, NoIter, IterKinds, Phases, Count

LEMMA InitTyped == Init => Typed
<1>1. <<>> \in Seq(Int) /\ <<>> \in Seq(Descriptors) OBVIOUS
<1> SUFFICES ASSUME Init PROVE Typed OBVIOUS
<1>2. Count \in Nat BY FileType DEF Init
<1>3. QED BY <1>1, <1>2, DigestsAssumption
          DEF Init, Typed, TypeOK, HasIterator, NoTable, NoIter, NoCall, Phases,
              IterKinds, Answers

LEMMA StepTyped == Typed /\ [Next]_vars => Typed'
<1> SUFFICES ASSUME Typed, [Next]_vars PROVE Typed' OBVIOUS
<1> USE DEF Typed
<1>0. /\ Count \in Nat /\ Nch \in Nat /\ TotalEntries \in Nat /\ DataStart(file) \in Nat
      /\ file.h.total \in Nat /\ \A i \in Nat : FrameStart(i) \in Nat
  BY FileType DEF TypeOK, HeaderRecords
<1>empty. <<>> \in Seq(Int) /\ <<>> \in Seq(Descriptors) OBVIOUS
<1>1. ASSUME NEW p \in Digests \cup {NoPassword}, OpenRefused(p) PROVE Typed'
  BY <1>1, OpenErrorType DEF OpenRefused, TypeOK, HasIterator, Phases, Count
<1>2. ASSUME NEW p \in Digests \cup {NoPassword}, Open(p) PROVE Typed'
  <2>1. dec' = [frames |-> <<>>, offset |-> DataStart(file), crcOk |-> FALSE,
                qm |-> Priming(p)]
    BY <1>2 DEF Open, NoTable
  <2>2. Priming(p) \in Digests BY PrimingType
  <2>3. dec' \in [frames : Seq(Descriptors), offset : Nat, crcOk : BOOLEAN, qm : Digests]
        /\ Len(dec'.frames) = 0
    BY <1>0, <1>empty, <2>1, <2>2
  <2>4. /\ file' = file /\ pc' = "parsing" /\ item' = "None"
        /\ UNCHANGED <<it, call, collected>>
    BY <1>2 DEF Open
  <2>5. QED BY <1>0, <2>3, <2>4 DEF TypeOK, HasIterator, Phases, Count, Answers
<1>3. CASE PushDescriptor
  <2> DEFINE i == Len(dec.frames)
             d == [offset |-> dec.offset, disk |-> file.table[i],
                   samples |-> FrameSamples(file.h, i)]
  <2>1. i \in Nat /\ i < Count BY <1>3 DEF PushDescriptor, TypeOK
  <2>2. file.table \in [FrameIds(file) -> Nat]
    <3>1. WellFormed(file) BY FileType DEF TypeOK
    <3>2. QED BY <3>1, Zenon DEF WellFormed
  <2>3. i \in FrameIds(file)
    <3>1. FrameIds(file) = 0 .. Count - 1 BY DEF FrameIds, Count
    <3> HIDE DEF i
    <3>2. QED BY <1>0, <2>1, <3>1
  <2>4. file.table[i] \in Nat BY <2>2, <2>3
  <2>5. FrameSamples(file.h, i) \in Nat BY <2>1, FileType DEF TypeOK
  <2>6. d \in Descriptors BY <2>4, <2>5 DEF Descriptors, TypeOK
  <2>7. dec' = [dec EXCEPT !.frames = Append(dec.frames, d),
                           !.offset = dec.offset + file.table[i]]
    BY <1>3 DEF PushDescriptor, Descriptor
  <2> HIDE DEF d
  <2>8. /\ Append(dec.frames, d) \in Seq(Descriptors)
        /\ Len(Append(dec.frames, d)) = i + 1
    BY <2>6 DEF TypeOK
  <2>9. dec.offset + file.table[i] \in Nat BY <2>4 DEF TypeOK
  <2>10. /\ dec' \in [frames : Seq(Descriptors), offset : Nat, crcOk : BOOLEAN, qm : Digests]
         /\ dec'.frames = Append(dec.frames, d)
    BY <2>7, <2>8, <2>9 DEF TypeOK
  <2>11. QED BY <1>0, <1>3, <2>1, <2>8, <2>10
             DEF PushDescriptor, TypeOK, HasIterator, Count
<1>4. CASE FinishTable
  <2>1. file.tableCrc \in BOOLEAN BY FileType DEF TypeOK, WellFormed
  <2>2. QED BY <1>4, <2>1 DEF FinishTable, TypeOK, HasIterator, Phases, Count
<1>5. ASSUME NEW k \in FrameArgs, FrameIterFrom(k) PROVE Typed'
  <2>1. k \in Nat BY <1>0 DEF FrameArgs
  <2>2. QED BY <1>0, <1>5, <2>1, FramesFromType, IterateTypes DEF FrameIterFrom
<1>6. CASE DecodeAll BY <1>0, <1>6, FramesFromType, IterateTypes DEF DecodeAll
<1>7. ASSUME NEW k \in FrameArgs, DecodeFrameAt(k) PROVE Typed'
  <2>1. k \in Nat /\ k + 1 \in Nat BY <1>0 DEF FrameArgs
  <2>2. FrameStart(k) \in Nat /\ FrameStart(k + 1) \in Nat BY <1>0, <2>1
  <2>3. CASE k >= Len(dec.frames)
    <3>1. Answer("FrameIndexOutOfRange", <<>>, 0, 0) BY <1>7, <2>3 DEF DecodeFrameAt
    <3>2. QED BY <1>empty, <3>1, AnswerTypes DEF Answers
  <2>4. CASE k < Len(dec.frames) /\ Undecodable(file, dec.frames[k + 1])
    <3>1. Answer(FrameError, <<>>, FrameStart(k), FrameStart(k + 1))
      BY <1>7, <2>1, <2>4 DEF DecodeFrameAt, TypeOK
    <3>2. QED BY <1>empty, <2>2, <3>1, AnswerTypes DEF Answers
  <2>5. CASE k < Len(dec.frames) /\ ~Undecodable(file, dec.frames[k + 1])
    <3>1. dec.frames[k + 1] \in Descriptors BY <2>1, <2>5 DEF TypeOK
    <3>2. DecodeFrame(dec.frames[k + 1]) \in Seq(Int) BY <2>5, <3>1, DecodeFrameType
    <3>3. Answer("Ok", DecodeFrame(dec.frames[k + 1]), FrameStart(k), FrameStart(k + 1))
      BY <1>7, <2>1, <2>5 DEF DecodeFrameAt, TypeOK
    <3>4. QED BY <2>2, <3>2, <3>3, AnswerTypes DEF Answers
  <2>6. QED BY <2>1, <2>3, <2>4, <2>5 DEF TypeOK
<1>8. ASSUME NEW mode \in {"lazy", "eager"}, NEW s \in Nat, FromSample(mode, s)
      PROVE Typed'
  <2>2. CASE SeekError(s) # NoError
    BY <1>8, <1>empty, <2>2, SeekErrorType, AnswerTypes DEF FromSample
  <2>3. CASE SeekError(s) = NoError
    <3>1. s * Nch \in Nat BY <1>0, ProductInNat
    <3>2. QED BY <1>0, <1>8, <2>3, <3>1, SkipFromType, IterateTypes DEF FromSample
  <2>4. QED BY <2>2, <2>3
<1>9. ASSUME NEW mode \in {"lazy", "eager"}, NEW a \in Nat, NEW b \in Nat,
             SampleRange(mode, a, b)
      PROVE Typed'
  <2>1. a \in Nat /\ b \in Nat OBVIOUS
  <2>2. a * Nch \in Nat /\ b * Nch \in Nat BY <1>0, <2>1, ProductInNat
  <2>3. CASE a > b \/ b > file.h.total
    <3>1. Answer("SampleIndexOutOfRange", <<>>, 0, 0) BY <1>9, <2>3 DEF SampleRange
    <3>2. QED BY <1>empty, <3>1, AnswerTypes DEF Answers
  <2>4. CASE a = b /\ ~(a > b \/ b > file.h.total)
    <3> DEFINE i == [FramesFrom(Len(dec.frames)) EXCEPT !.kind = "range"]
    <3>1. Iterate(mode, i, a * Nch, b * Nch) BY <1>9, <2>4 DEF SampleRange
    <3>2. FramesFrom(Len(dec.frames)) \in Iterators BY FramesFromType DEF TypeOK
    <3>3. i \in Iterators /\ i.kind = "range" BY <3>2 DEF Iterators, IterKinds
    <3> HIDE DEF i
    <3>4. QED BY <2>2, <3>1, <3>3, IterateTypes
  <2>5. CASE a # b /\ ~(a > b \/ b > file.h.total) /\ SeekError(a) # NoError
    <3>1. Answer(SeekError(a), <<>>, 0, 0) BY <1>9, <2>5 DEF SampleRange
    <3>2. QED BY <1>empty, <2>5, <3>1, SeekErrorType, AnswerTypes
  <2>6. CASE a # b /\ ~(a > b \/ b > file.h.total) /\ SeekError(a) = NoError
    <3> DEFINE left == (b - a) * Nch
               i == [SkipFrom(a) EXCEPT !.kind = "range", !.left = left]
    <3>1. Iterate(mode, i, a * Nch, b * Nch) BY <1>9, <2>6 DEF SampleRange
    <3>2. SkipFrom(a) \in Iterators BY <2>1, <2>6, SkipFromType
    <3>3. b - a \in Nat BY <2>1, <2>6
    <3>4. left \in Nat BY <1>0, <3>3, ProductInNat
    <3>5. i \in Iterators /\ i.kind = "range" BY <3>2, <3>4 DEF Iterators, IterKinds
    <3> HIDE DEF i
    <3>6. QED BY <2>2, <3>1, <3>5, IterateTypes
  <2>7. QED BY <2>3, <2>4, <2>5, <2>6
<1>10. CASE Poll
  <2> DEFINE r == IterNext(it)
  <2>1. it.kind # "none" BY <1>10 DEF Poll, HasIterator
  <2>2. r \in Turns BY <2>1, IterNextType
  <2>3. r.it.kind # "none" BY <2>1, IterNextKind
  <2>4. it' = r.it /\ item' = r.item /\ collected' = collected \o r.pcm
        /\ UNCHANGED <<file, pc, dec, call>>
    BY <1>10 DEF Poll
  <2> HIDE DEF r
  <2>5. QED BY <1>10, <2>2, <2>3, <2>4 DEF TypeOK, HasIterator, Turns, Iterators, Answers, Count
<1>11. CASE Collect
  <2> DEFINE r == IterNext(it)
  <2>1. it.kind # "none" BY <1>11 DEF Collect, HasIterator
  <2>2. r \in Turns BY <2>1, IterNextType
  <2>3. r.it.kind # "none" BY <2>1, IterNextKind
  <2>4. /\ it' = r.it /\ item' = IF r.item = "End" THEN "Ok" ELSE r.item
        /\ collected' = IF r.item = FrameError THEN <<>> ELSE collected \o r.pcm
        /\ pc' = IF r.item = "Pcm" THEN "eager" ELSE "returned"
        /\ UNCHANGED <<file, dec, call>>
    BY <1>11 DEF Collect
  <2> HIDE DEF r
  <2>5. QED BY <1>11, <1>empty, <2>2, <2>3, <2>4
            DEF TypeOK, HasIterator, Turns, Iterators, Answers, Count, Phases
<1>12. CASE Release
  BY <1>12, <1>empty DEF Release, Reset, NoIter, NoCall, TypeOK, HasIterator, IterKinds,
                         Answers, Count, Phases
<1>13. CASE UNCHANGED vars BY <1>13 DEF vars, TypeOK, HasIterator, Count
<1>14. ASSUME NEW mode \in {"lazy", "eager"}, NEW t \in TimeArgs, FromTime(mode, t)
       PROVE Typed'
  BY <1>8, <1>14, ArgsType DEF FromTime
<1>15. ASSUME NEW mode \in {"lazy", "eager"}, NEW t \in TimeArgs, NEW u \in TimeArgs,
              TimeRange(mode, t, u)
       PROVE Typed'
  BY <1>9, <1>15, ArgsType DEF TimeRange
<1>16. ASSUME NEW mode \in {"lazy", "eager"}, NEW s \in SampleArgs, FromSample(mode, s)
       PROVE Typed'
  BY <1>8, <1>16, ArgsType
<1>17. ASSUME NEW mode \in {"lazy", "eager"}, NEW a \in SampleArgs, NEW b \in SampleArgs,
              SampleRange(mode, a, b)
       PROVE Typed'
  BY <1>9, <1>17, ArgsType
<1>18. ASSUME NEW s \in SampleArgs, SeekToSample(s) PROVE Typed'
  <2>1. "Ok" \in Answers BY DEF Answers
  <2>2. PICK answer \in Answers : Answer(answer, <<>>, 0, 0)
    BY <1>18, <2>1, SeekErrorType DEF SeekToSample
  <2>3. QED BY <1>empty, <2>2, AnswerTypes
<1>19. QED
  BY <1>1, <1>2, <1>3, <1>4, <1>5, <1>6, <1>7, <1>10, <1>11, <1>12, <1>13, <1>14, <1>15,
     <1>16, <1>17, <1>18
  DEF Next

\* TypeOK holds in every reachable state, for every set of well-formed files.
THEOREM TypeCorrect == Spec => []TypeOK
<1>1. Typed => TypeOK BY DEF Typed
<1>2. QED BY <1>1, InitTyped, StepTyped, PTL DEF Spec

-----------------------------------------------------------------------------
(***************************************************************************)
(* The audio.  ExactSlice and NeverWrongAudio say that what was collected  *)
(* is a slice; neither is inductive.  The strengthening relates the table  *)
(* built so far to the file (TableInv) and the iterator's position to the  *)
(* entries collected (WalkInv): as long as a walk goes on, every stored    *)
(* size before the cursor is the true one, and the next frame continues    *)
(* exactly where the collected entries end.                                *)
(***************************************************************************)
Aligned(n) == \A w \in 0 .. n - 1 : file.table[w] = file.size[w]

TableInv ==
  LET n == Len(dec.frames) IN
  /\ pc \in {"idle", "lazy", "eager", "returned"} => n = Count
  /\ pc \notin {"closed", "refused"} => Nch > 0
  /\ dec.crcOk => file.tableCrc
  /\ file.h.format = 1 => dec.qm = ZeroDigest
  /\ \A j \in 1 .. n : /\ dec.frames[j].disk = file.table[j - 1]
                       /\ dec.frames[j].samples = FrameSamples(file.h, j - 1)
                       /\ Aligned(j - 1) => dec.frames[j].offset = file.place[j - 1]
  /\ pc = "parsing" /\ Aligned(n) =>
       dec.offset = IF n = 0 THEN DataStart(file) ELSE file.place[n - 1] + file.size[n - 1]

\* The audio of a call can be relied on.
Sound(start, kind) ==
  RightKey /\ (TableIntact(file) \/ start = 0 \/ (~Forged(file) /\ kind \in {"skip", "range"}))

Trusted == Sound(call.start, it.kind)

\* Iterator i is through, or its next frame continues at entry `at'.
Continues(i, at, stop) ==
  i.next < Count /\ (i.kind = "range" => i.left > 0) =>
    /\ Aligned(i.next)
    /\ i.next * FrameEntries + i.skip = at
    /\ i.skip <= FrameSamples(file.h, i.next) * Nch
    /\ i.kind = "frames" => i.skip = 0
    /\ i.kind = "range" => at + i.left = stop
    /\ i.kind # "range" => stop = TotalEntries

WalkInv == pc \in {"lazy", "eager"} /\ Trusted => Continues(it, Reached, call.stop)

SliceInv ==
  /\ pc \in {"closed", "refused"} => collected = <<>> /\ call = NoCall
  /\ call.start <= call.stop
  /\ Trusted => IsSlice

AudioInv == Typed /\ TableInv /\ WalkInv /\ SliceInv

-----------------------------------------------------------------------------
\* The same in entries.
LEMMA EntriesTile ==
  ASSUME TypeOK, NEW i \in Nat, i < Count
  PROVE  LET n == FrameSamples(file.h, i) * Nch IN
         /\ n \in Nat /\ i * FrameEntries \in Nat
         /\ i * FrameEntries + n <= TotalEntries
         /\ i + 1 < Count => (i + 1) * FrameEntries = i * FrameEntries + n
         /\ FrameStart(i) = i * FrameEntries
         /\ i * FrameEntries + n <= FrameStart(i + 1)
         /\ (Nch > 0 /\ FrameStart(i) = 0) => i = 0
<1> DEFINE R == RegularFrameSamples(file.h)
           T == file.h.total
           s == FrameSamples(file.h, i)
           n == s * Nch
           F == R * Nch
<1>1. R \in Nat /\ T \in Nat /\ s \in Nat /\ Nch \in Nat /\ file.h \in HeaderRecords
  BY FileType, GeometryType DEF TypeOK, HeaderRecords
<1>2. /\ R > 0 /\ i * R + s <= T /\ s <= R
      /\ i + 1 < Count => s = R
      /\ i + 1 = Count => i * R + s = T
  BY <1>1, GeometryTiles DEF Count
<1>3. FrameEntries = F /\ TotalEntries = T * Nch BY DEF FrameEntries, TotalEntries
<1> HIDE DEF R, T, s
<1>4. n \in Nat /\ F \in Nat /\ i * F \in Nat BY <1>1, ProductInNat
<1>5. (i * R + s) * Nch = i * (R * Nch) + s * Nch BY <1>1
<1>6. (i * R + s) * Nch <= T * Nch
  <2>1. i * R \in Nat BY <1>1, ProductInNat
  <2>2. i * R + s \in Nat BY <1>1, <2>1
  <2>3. \A x, y, z \in Nat : x <= y => x * z <= y * z OBVIOUS
  <2>4. QED BY <1>1, <1>2, <2>2, <2>3
<1>7. (i + 1) * F = i * F + F BY <1>4
<1>8. n <= F
  <2>1. \A x, y, z \in Nat : x <= y => x * z <= y * z OBVIOUS
  <2>2. QED BY <1>1, <1>2, <2>1
<1>9. T * Nch \in Nat BY <1>1, ProductInNat
<1>10. i * F + n <= T * Nch BY <1>5, <1>6
<1>11. Nch > 0 /\ i * F = 0 => i = 0
  <2>1. SUFFICES ASSUME Nch > 0, i * F = 0, i # 0 PROVE FALSE OBVIOUS
  <2>2. \A x, y \in Nat : x > 0 /\ y > 0 => x * y > 0 OBVIOUS
  <2>3. F > 0 BY <1>1, <1>2, <2>1, <2>2
  <2>4. i * F > 0 BY <1>4, <2>1, <2>2, <2>3
  <2>5. QED BY <2>1, <2>4
<1> HIDE DEF F, n
<1>12. FrameStart(i) = i * F BY <1>3, <1>4, <1>9, <1>10 DEF FrameStart, Least
<1>13. i * F + n <= FrameStart(i + 1)
  BY <1>3, <1>4, <1>7, <1>8, <1>9, <1>10 DEF FrameStart, Least
<1>14. i + 1 < Count => (i + 1) * F = i * F + n BY <1>2, <1>7 DEF n, F
<1>15. QED BY <1>3, <1>4, <1>10, <1>11, <1>12, <1>13, <1>14 DEF n, s

\* No two frames start at the same byte.
LEMMA PlaceUnique ==
  ASSUME TypeOK, NEW v \in 0 .. Count - 1, NEW w \in 0 .. Count - 1,
         file.place[v] = file.place[w]
  PROVE  v = w
<1>1. WellFormed(file) BY FileType DEF TypeOK
<1>2. v \in FrameIds(file) /\ w \in FrameIds(file) BY DEF FrameIds, Count
<1>3. QED BY <1>1, <1>2, PlacesDiffer, Zenon

\* While every stored size so far was true, the next window is frame i or none.
LEMMA DecodeAligned ==
  ASSUME TypeOK, TableInv, RightKey, NEW i \in Nat, i < Len(dec.frames), Aligned(i),
         ~Undecodable(file, dec.frames[i + 1])
  PROVE  LET n == FrameSamples(file.h, i) * Nch IN
         /\ Aligned(i + 1)
         /\ DecodeFrame(dec.frames[i + 1]) = Entries(i * FrameEntries, i * FrameEntries + n)
<1> DEFINE d == dec.frames[i + 1]
           M == Matching(file, d)
<1>1. i + 1 \in 1 .. Len(dec.frames) /\ (i + 1) - 1 = i BY DEF TypeOK
<1>2. /\ d.disk = file.table[i] /\ d.samples = FrameSamples(file.h, i)
      /\ d.offset = file.place[i]
  BY <1>1 DEF TableInv
<1>3. Count \in Nat /\ i \in 0 .. Count - 1
  <2>1. Count \in Nat BY FileType DEF TypeOK
  <2>2. Len(dec.frames) \in Nat /\ Len(dec.frames) <= Count BY DEF TypeOK
  <2>3. QED BY <2>1, <2>2
<1>4. M # {} BY DEF Undecodable
<1> HIDE DEF d
<1>5. \A w \in M : w = i /\ file.size[i] = d.disk
  BY <1>2, <1>3, PlaceUnique DEF Matching, FrameIds, Count
<1>6. file.size[i] = file.table[i] BY <1>2, <1>4, <1>5
<1>7. Aligned(i + 1)
  <2>1. \A w \in 0 .. (i + 1) - 1 : w = i \/ w \in 0 .. i - 1 OBVIOUS
  <2>2. QED BY <1>6, <2>1 DEF Aligned
<1>8. (CHOOSE w \in M : TRUE) = i BY <1>4, <1>5
<1>9. dec.qm = file.key
  <2>1. WellFormed(file) BY FileType DEF TypeOK
  <2>2. file.h.format = 1 => file.key = ZeroDigest BY <2>1 DEF WellFormed
  <2>3. QED BY <2>2 DEF RightKey, TableInv
<1>10. DecodeFrame(d) = Entries(i * FrameEntries,
                                i * FrameEntries + FrameSamples(file.h, i) * Nch)
  BY <1>2, <1>8, <1>9 DEF DecodeFrame, FrameAudio, FrameEntries, Nch
<1>11. QED BY <1>7, <1>10 DEF d

-----------------------------------------------------------------------------
(***************************************************************************)
(* One turn of each iterator.  Advances: the turn hands out the entries    *)
(* from `at' on and the iterator continues behind them.                    *)
(***************************************************************************)
Advances(r, at, stop) ==
  LET m == at + Len(r.pcm) IN
  /\ r.pcm = Entries(at, m) /\ m <= stop
  /\ Continues(r.it, m, stop)

LEMMA EmptyAdvance ==
  ASSUME TypeOK, NEW r \in Turns, NEW at \in Nat, NEW stop \in Nat, at <= stop,
         r.pcm = <<>>, r.it.next >= Count \/ (r.it.kind = "range" /\ r.it.left = 0)
  PROVE  Advances(r, at, stop)
<1>1. Len(r.pcm) = 0 /\ at + Len(r.pcm) = at OBVIOUS
<1>2. Entries(at, at) = <<>> BY DEF Entries
<1>3. Count \in Nat /\ r.it \in Iterators BY FileType DEF TypeOK, Turns
<1>4. Continues(r.it, at, stop) BY <1>3 DEF Continues, Iterators
<1>5. QED BY <1>1, <1>2, <1>4 DEF Advances

\* What FrameIter hands out is the whole of the frame under the cursor.
LEMMA FrameTurn ==
  ASSUME TypeOK, TableInv, RightKey, Len(dec.frames) = Count, NEW i \in Iterators
  PROVE  LET r     == FrameNext(i)
             first == i.next * FrameEntries
             n     == FrameSamples(file.h, i.next) * Nch
         IN  /\ i.next >= Count => r = [it |-> i, item |-> "End", pcm |-> <<>>]
             /\ i.next < Count /\ Aligned(i.next) =>
                  \/ /\ r.item = FrameError /\ r.pcm = <<>>
                     /\ r.it = [i EXCEPT !.next = Count]
                  \/ /\ r.item = "Pcm" /\ r.pcm = Entries(first, first + n)
                     /\ r.it = [i EXCEPT !.next = i.next + 1]
                     /\ Aligned(i.next + 1)
<1>1. i.next \in Nat /\ Count \in Nat BY FileType DEF TypeOK, Iterators
<1>2. CASE i.next >= Count BY <1>1, <1>2 DEF FrameNext
<1>3. CASE i.next < Count
  <2>1. CASE Undecodable(file, dec.frames[i.next + 1])
    <3>1. FrameNext(i) = [it |-> [i EXCEPT !.next = Len(dec.frames)],
                          item |-> FrameError, pcm |-> <<>>]
      BY <1>1, <1>3, <2>1 DEF FrameNext
    <3>2. QED BY <1>1, <1>3, <3>1
  <2>2. CASE ~Undecodable(file, dec.frames[i.next + 1])
    <3>1. FrameNext(i) = [it |-> [i EXCEPT !.next = i.next + 1], item |-> "Pcm",
                          pcm |-> DecodeFrame(dec.frames[i.next + 1])]
      BY <1>1, <1>3, <2>2 DEF FrameNext
    <3>2. Aligned(i.next) =>
            /\ Aligned(i.next + 1)
            /\ DecodeFrame(dec.frames[i.next + 1]) =
                 Entries(i.next * FrameEntries,
                         i.next * FrameEntries + FrameSamples(file.h, i.next) * Nch)
      BY <1>1, <1>3, <2>2, DecodeAligned
    <3>3. QED BY <1>1, <1>3, <3>1, <3>2
  <2>3. QED BY <2>1, <2>2
<1>4. QED BY <1>1, <1>2, <1>3

LEMMA SkipTurn ==
  ASSUME TypeOK, TableInv, RightKey, Len(dec.frames) = Count, NEW i \in Iterators,
         i.next < Count, Aligned(i.next), i.skip <= FrameSamples(file.h, i.next) * Nch
  PROVE  LET r     == SkipNext(i)
             first == i.next * FrameEntries
             n     == FrameSamples(file.h, i.next) * Nch
         IN  \/ /\ r.item = FrameError /\ r.pcm = <<>>
                /\ r.it = [i EXCEPT !.next = Count, !.skip = 0]
             \/ /\ r.item = "Pcm" /\ r.pcm = Entries(first + i.skip, first + n)
                /\ r.it = [i EXCEPT !.next = i.next + 1, !.skip = 0]
                /\ Aligned(i.next + 1)
<1> DEFINE f     == FrameNext(i)
           r     == SkipNext(i)
           first == i.next * FrameEntries
           n     == FrameSamples(file.h, i.next) * Nch
           m     == Least(i.skip, Len(f.pcm))
<1>1. i.next \in Nat /\ i.skip \in Nat BY DEF Iterators
<1>2. first \in Nat /\ n \in Nat BY <1>1, EntriesTile
<1>3. r = IF f.item = "End" THEN f
          ELSE [it |-> [f.it EXCEPT !.skip = 0], item |-> f.item, pcm |-> Drain(f.pcm, m)]
  BY DEF SkipNext
<1>4. \/ f.item = FrameError /\ f.pcm = <<>> /\ f.it = [i EXCEPT !.next = Count]
      \/ /\ f.item = "Pcm" /\ f.pcm = Entries(first, first + n)
         /\ f.it = [i EXCEPT !.next = i.next + 1] /\ Aligned(i.next + 1)
  BY FrameTurn
<1> HIDE DEF f, r, first, n
<1>5. CASE f.item = FrameError /\ f.pcm = <<>> /\ f.it = [i EXCEPT !.next = Count]
  <2>1. Drain(f.pcm, m) = <<>> BY <1>1, <1>5 DEF Drain, Least
  <2>2. r = [it |-> [f.it EXCEPT !.skip = 0], item |-> FrameError, pcm |-> <<>>]
    BY <1>3, <1>5, <2>1 DEF FrameError
  <2>3. [f.it EXCEPT !.skip = 0] = [i EXCEPT !.next = Count, !.skip = 0] BY <1>5
  <2>4. QED BY <2>2, <2>3 DEF r
<1>6. CASE /\ f.item = "Pcm" /\ f.pcm = Entries(first, first + n)
           /\ f.it = [i EXCEPT !.next = i.next + 1] /\ Aligned(i.next + 1)
  <2>1. first + n \in Nat /\ first <= first + n /\ (first + n) - first = n BY <1>2
  <2>2. Len(f.pcm) = n BY <1>2, <1>6, <2>1, EntriesType
  <2>3. m = i.skip BY <1>1, <1>2, <2>2 DEF Least, n
  <2>4. Drain(f.pcm, m) = Entries(first + i.skip, first + n)
    <3>1. first + i.skip <= first + n BY <1>1, <1>2 DEF n
    <3>2. QED BY <1>1, <1>2, <1>6, <2>1, <2>3, <3>1, DrainEntries
  <2>5. r = [it |-> [f.it EXCEPT !.skip = 0], item |-> "Pcm",
             pcm |-> Entries(first + i.skip, first + n)]
    BY <1>3, <1>6, <2>4
  <2>6. [f.it EXCEPT !.skip = 0] = [i EXCEPT !.next = i.next + 1, !.skip = 0] BY <1>6
  <2>7. QED BY <1>6, <2>5, <2>6 DEF r, first, n
<1>7. QED BY <1>4, <1>5, <1>6

LEMMA FramesAdvance ==
  ASSUME TypeOK, TableInv, RightKey, Len(dec.frames) = Count, NEW i \in Iterators,
         NEW at \in Nat, NEW stop \in Nat, at <= stop,
         i.kind = "frames", Continues(i, at, stop)
  PROVE  Advances(FrameNext(i), at, stop)
<1> DEFINE r == FrameNext(i)
           n == FrameSamples(file.h, i.next) * Nch
<1>1. r \in Turns BY FrameNextType
<1>2. i.next \in Nat /\ Count \in Nat BY FileType DEF TypeOK, Iterators
<1>3. CASE i.next >= Count
  <2>1. r = [it |-> i, item |-> "End", pcm |-> <<>>] BY <1>3, FrameTurn
  <2> HIDE DEF r
  <2>2. r.pcm = <<>> /\ r.it.next >= Count BY <1>3, <2>1
  <2>3. QED BY <1>1, <2>2, EmptyAdvance DEF r
<1>4. CASE i.next < Count
  <2>1. /\ Aligned(i.next) /\ i.next * FrameEntries = at /\ stop = TotalEntries
        /\ i.skip = 0
    <3>1. i.next * FrameEntries \in Nat BY <1>2, <1>4, EntriesTile
    <3>2. QED BY <1>4, <3>1 DEF Continues
  <2>2. /\ n \in Nat /\ at + n <= TotalEntries
        /\ i.next + 1 < Count => (i.next + 1) * FrameEntries = at + n
    BY <1>2, <1>4, <2>1, EntriesTile
  <2>3. \/ r.item = FrameError /\ r.pcm = <<>> /\ r.it = [i EXCEPT !.next = Count]
        \/ /\ r.item = "Pcm" /\ r.pcm = Entries(at, at + n)
           /\ r.it = [i EXCEPT !.next = i.next + 1] /\ Aligned(i.next + 1)
    BY <1>4, <2>1, FrameTurn
  <2> HIDE DEF r, n
  <2>4. CASE r.item = FrameError /\ r.pcm = <<>> /\ r.it = [i EXCEPT !.next = Count]
    <3>1. r.it.next >= Count BY <1>2, <2>4 DEF Iterators
    <3>2. QED BY <1>1, <2>4, <3>1, EmptyAdvance DEF r
  <2>5. CASE /\ r.item = "Pcm" /\ r.pcm = Entries(at, at + n)
             /\ r.it = [i EXCEPT !.next = i.next + 1] /\ Aligned(i.next + 1)
    <3>1. at + n \in Nat /\ (at + n) - at = n /\ at <= at + n BY <2>2
    <3>2. Len(r.pcm) = n BY <2>5, <3>1, EntriesType
    <3>3. /\ r.it.next = i.next + 1 /\ r.it.skip = 0 /\ r.it.kind = "frames"
      BY <2>1, <2>5 DEF Iterators
    <3>4. i.next + 1 < Count => FrameSamples(file.h, i.next + 1) * Nch >= 0
      BY <1>2, EntriesTile
    <3>5. Continues(r.it, at + n, stop)
      BY <1>2, <2>1, <2>2, <2>5, <3>1, <3>3, <3>4 DEF Continues
    <3>6. QED BY <2>1, <2>2, <2>5, <3>2, <3>5 DEF Advances, r
  <2>6. QED BY <2>3, <2>4, <2>5
<1>5. QED BY <1>2, <1>3, <1>4

LEMMA SkipAdvance ==
  ASSUME TypeOK, TableInv, RightKey, Len(dec.frames) = Count, NEW i \in Iterators,
         NEW at \in Nat, NEW stop \in Nat, at <= stop,
         i.kind = "skip", Continues(i, at, stop)
  PROVE  Advances(SkipNext(i), at, stop)
<1> DEFINE r == SkipNext(i)
           n == FrameSamples(file.h, i.next) * Nch
           first == i.next * FrameEntries
<1>1. r \in Turns BY SkipNextType
<1>2. i.next \in Nat /\ i.skip \in Nat /\ Count \in Nat BY FileType DEF TypeOK, Iterators
<1>3. CASE i.next >= Count
  <2>1. FrameNext(i) = [it |-> i, item |-> "End", pcm |-> <<>>] BY <1>3, FrameTurn
  <2>2. r = [it |-> i, item |-> "End", pcm |-> <<>>] BY <2>1 DEF SkipNext
  <2> HIDE DEF r
  <2>3. r.pcm = <<>> /\ r.it.next >= Count BY <1>3, <2>2
  <2>4. QED BY <1>1, <2>3, EmptyAdvance DEF r
<1>4. CASE i.next < Count
  <2>1. Aligned(i.next) /\ first + i.skip = at /\ stop = TotalEntries /\ i.skip <= n
    BY <1>4 DEF Continues
  <2>2. /\ n \in Nat /\ first \in Nat /\ first + n <= TotalEntries
        /\ i.next + 1 < Count => (i.next + 1) * FrameEntries = first + n
    BY <1>2, <1>4, EntriesTile
  <2>3. \/ r.item = FrameError /\ r.pcm = <<>> /\ r.it = [i EXCEPT !.next = Count, !.skip = 0]
        \/ /\ r.item = "Pcm" /\ r.pcm = Entries(first + i.skip, first + n)
           /\ r.it = [i EXCEPT !.next = i.next + 1, !.skip = 0] /\ Aligned(i.next + 1)
    BY <1>4, <2>1, SkipTurn
  <2>4. i.next + 1 < Count => FrameSamples(file.h, i.next + 1) * Nch >= 0
    BY <1>2, EntriesTile
  <2> HIDE DEF r, n, first
  <2>5. CASE r.item = FrameError /\ r.pcm = <<>> /\ r.it = [i EXCEPT !.next = Count, !.skip = 0]
    <3>1. r.it.next >= Count BY <1>2, <2>5 DEF Iterators
    <3>2. QED BY <1>1, <2>5, <3>1, EmptyAdvance DEF r
  <2>6. CASE /\ r.item = "Pcm" /\ r.pcm = Entries(first + i.skip, first + n)
             /\ r.it = [i EXCEPT !.next = i.next + 1, !.skip = 0] /\ Aligned(i.next + 1)
    <3>1. at \in Nat /\ first + n \in Nat /\ at <= first + n BY <1>2, <2>1, <2>2
    <3>2. Len(r.pcm) = (first + n) - at BY <2>1, <2>6, <3>1, EntriesType
    <3>3. at + Len(r.pcm) = first + n BY <3>1, <3>2
    <3>4. r.it.next = i.next + 1 /\ r.it.skip = 0 /\ r.it.kind = "skip"
      BY <2>6 DEF Iterators
    <3>5. Continues(r.it, first + n, stop)
      BY <1>2, <2>1, <2>2, <2>4, <2>6, <3>1, <3>4 DEF Continues
    <3>6. QED BY <2>1, <2>2, <2>6, <3>3, <3>5 DEF Advances, r
  <2>7. QED BY <2>3, <2>5, <2>6
<1>5. QED BY <1>2, <1>3, <1>4

LEMMA RangeAdvance ==
  ASSUME TypeOK, TableInv, RightKey, Len(dec.frames) = Count, NEW i \in Iterators,
         NEW at \in Nat, NEW stop \in Nat, at <= stop,
         i.kind = "range", Continues(i, at, stop)
  PROVE  Advances(RangeNext(i), at, stop)
<1> DEFINE r == RangeNext(i)
           s == SkipNext(i)
           n == FrameSamples(file.h, i.next) * Nch
           first == i.next * FrameEntries
           k == Least(i.left, Len(s.pcm))
           kept == Truncate(s.pcm, k)
<1>1. r \in Turns BY RangeNextType
<1>2. /\ i.next \in Nat /\ i.skip \in Nat /\ i.left \in Nat /\ Count \in Nat
  BY FileType DEF TypeOK, Iterators
<1>3. r = IF i.left = 0 THEN [it |-> i, item |-> "End", pcm |-> <<>>]
          ELSE IF s.item = "End" THEN s
          ELSE IF s.item = FrameError
          THEN [it |-> [s.it EXCEPT !.left = 0], item |-> FrameError, pcm |-> <<>>]
          ELSE [it |-> [s.it EXCEPT !.left = i.left - Len(kept)], item |-> "Pcm",
                pcm |-> kept]
  BY DEF RangeNext
<1>4. CASE i.left = 0
  <2> HIDE DEF r
  <2>1. r.pcm = <<>> /\ r.it = i BY <1>3, <1>4
  <2>2. QED BY <1>1, <1>4, <2>1, EmptyAdvance DEF r
<1>5. CASE i.left > 0 /\ i.next >= Count
  <2>1. FrameNext(i) = [it |-> i, item |-> "End", pcm |-> <<>>] BY <1>5, FrameTurn
  <2>2. s = [it |-> i, item |-> "End", pcm |-> <<>>] BY <2>1 DEF SkipNext
  <2> HIDE DEF r, s
  <2>3. r.pcm = <<>> /\ r.it.next >= Count BY <1>3, <1>5, <2>2
  <2>4. QED BY <1>1, <2>3, EmptyAdvance DEF r
<1>6. CASE i.left > 0 /\ i.next < Count
  <2>1. Aligned(i.next) /\ first + i.skip = at /\ at + i.left = stop /\ i.skip <= n
    BY <1>6 DEF Continues
  <2>2. /\ n \in Nat /\ first \in Nat /\ first + n <= TotalEntries
        /\ i.next + 1 < Count => (i.next + 1) * FrameEntries = first + n
    BY <1>2, <1>6, EntriesTile
  <2>3. \/ s.item = FrameError /\ s.pcm = <<>> /\ s.it = [i EXCEPT !.next = Count, !.skip = 0]
        \/ /\ s.item = "Pcm" /\ s.pcm = Entries(first + i.skip, first + n)
           /\ s.it = [i EXCEPT !.next = i.next + 1, !.skip = 0] /\ Aligned(i.next + 1)
    BY <1>6, <2>1, SkipTurn
  <2>4. i.next + 1 < Count => FrameSamples(file.h, i.next + 1) * Nch >= 0
    BY <1>2, EntriesTile
  <2> HIDE DEF r, s, n, first, kept, k
  <2>5. CASE s.item = FrameError /\ s.pcm = <<>> /\ s.it = [i EXCEPT !.next = Count, !.skip = 0]
    <3>1. r = [it |-> [s.it EXCEPT !.left = 0], item |-> FrameError, pcm |-> <<>>]
      BY <1>2, <1>3, <1>6, <2>5 DEF FrameError
    <3>2. s.it = [i EXCEPT !.next = Count, !.skip = 0] BY <2>5
    <3>3. r.it = [s.it EXCEPT !.left = 0] /\ r.pcm = <<>> BY <3>1
    <3>4. r.it = [i EXCEPT !.next = Count, !.skip = 0, !.left = 0] BY <3>2, <3>3
    <3>5. r.it.next = Count BY <3>4 DEF Iterators
    <3>6. r.it.next >= Count BY <1>2, <3>5
    <3>7. r \in Turns BY <1>1 DEF r
    <3>8. Advances(r, at, stop) BY <3>3, <3>6, <3>7, EmptyAdvance
    <3>9. QED BY <3>8 DEF r
  <2>6. CASE /\ s.item = "Pcm" /\ s.pcm = Entries(first + i.skip, first + n)
             /\ s.it = [i EXCEPT !.next = i.next + 1, !.skip = 0] /\ Aligned(i.next + 1)
    <3>1. at \in Nat /\ first + n \in Nat /\ at <= first + n BY <1>2, <2>1, <2>2
    <3>2. Len(s.pcm) = (first + n) - at BY <2>1, <2>6, <3>1, EntriesType
    <3>3. k \in Nat /\ k <= i.left /\ at + k <= first + n /\ (k = i.left \/ at + k = first + n)
      BY <1>2, <3>1, <3>2 DEF k, Least
    <3>4. kept = Entries(at, at + k)
      <4>1. s.pcm = Entries(at, first + n) BY <2>1, <2>6
      <4>2. Truncate(Entries(at, first + n), k) = Entries(at, at + k)
        BY <3>1, <3>3, TruncateEntries
      <4>3. QED BY <4>1, <4>2 DEF kept
    <3>5. Len(kept) = k
      <4>1. at + k \in Nat /\ at <= at + k /\ (at + k) - at = k BY <3>3
      <4>2. QED BY <3>4, <4>1, EntriesType
    <3>6. r = [it |-> [s.it EXCEPT !.left = i.left - k], item |-> "Pcm", pcm |-> kept]
      BY <1>3, <1>6, <2>6, <3>5 DEF FrameError
    <3>7. /\ r.it.next = i.next + 1 /\ r.it.skip = 0 /\ r.it.kind = "range"
          /\ r.it.left = i.left - k /\ r.pcm = kept
      BY <2>6, <3>6 DEF Iterators
    <3>8. r.it.left > 0 => at + k = first + n BY <1>2, <3>3, <3>7
    <3>9. (at + k) + r.it.left = stop BY <1>2, <2>1, <3>3, <3>7
    <3>10. Continues(r.it, at + k, stop)
      BY <1>2, <2>2, <2>4, <2>6, <3>1, <3>3, <3>7, <3>8, <3>9 DEF Continues
    <3>11. at + k <= stop BY <1>2, <2>1, <3>3
    <3>12. QED BY <3>4, <3>5, <3>7, <3>10, <3>11 DEF Advances, r
  <2>7. QED BY <2>3, <2>5, <2>6
<1>7. QED BY <1>2, <1>4, <1>5, <1>6

LEMMA IterAdvance ==
  ASSUME Typed, TableInv, WalkInv, Trusted, pc \in {"lazy", "eager"}, Reached <= call.stop
  PROVE  Advances(IterNext(it), Reached, call.stop)
<1>1. it \in Iterators /\ it.kind \in {"frames", "skip", "range"}
  BY DEF Typed, TypeOK, HasIterator, Iterators, IterKinds
<1>2. Reached \in Nat /\ call.stop \in Nat BY DEF Typed, TypeOK, Reached
<1>3. Len(dec.frames) = Count BY DEF TableInv
<1>4. Continues(it, Reached, call.stop) BY DEF WalkInv
<1>5. RightKey /\ TypeOK BY DEF Trusted, Sound, Typed
<1>6. QED BY <1>1, <1>2, <1>3, <1>4, <1>5, FramesAdvance, SkipAdvance, RangeAdvance
          DEF IterNext

-----------------------------------------------------------------------------
\* Calls leave the table alone.
LEMMA TableKept ==
  ASSUME TableInv, UNCHANGED <<file, dec>>, pc \in {"idle", "lazy", "eager", "returned"},
         pc' \in {"idle", "lazy", "eager", "returned"}
  PROVE  TableInv'
  BY DEF TableInv, Aligned, Count, Nch, TableIntact, DataStart

LEMMA StartStep ==
  ASSUME AudioInv, pc = "idle", NEW mode \in {"lazy", "eager"}, NEW iter \in Iterators,
         iter.kind # "none", NEW start \in Nat, NEW stop \in Nat, start <= stop,
         Iterate(mode, iter, start, stop),
         Sound(start, iter.kind) => Continues(iter, start, stop)
  PROVE  AudioInv'
<1>1. /\ it' = iter /\ call' = [start |-> start, stop |-> stop] /\ pc' = mode
      /\ collected' = <<>> /\ file' = file /\ dec' = dec
  BY DEF Iterate, Reset
<1>2. Typed' BY IterateTypes DEF AudioInv
<1>3. TableInv' BY <1>1, TableKept DEF AudioInv
<1>4. Reached' = start BY <1>1 DEF Reached
<1>5. Trusted' => Continues(iter, start, stop)
  BY <1>1 DEF Trusted, Sound, RightKey, Forged, TableIntact
<1>6. WalkInv'
  <2>1. Trusted' => Continues(iter, start, stop)' 
    BY <1>1, <1>5 DEF Continues, Aligned, Count, FrameEntries, Nch, TotalEntries
  <2>2. QED BY <1>1, <1>4, <2>1 DEF WalkInv, Continues, Aligned, Count, FrameEntries, Nch, TotalEntries
<1>7. SliceInv'
  <2>1. Entries(start, start) = <<>> BY DEF Entries
  <2>2. QED BY <1>1, <1>4, <2>1 DEF SliceInv, IsSlice
<1>8. QED BY <1>2, <1>3, <1>6, <1>7 DEF AudioInv

LEMMA AnswerStep ==
  ASSUME AudioInv, pc = "idle", NEW answer \in Answers, NEW pcm \in Seq(Int),
         NEW start \in Nat, NEW stop \in Nat, start <= stop,
         Answer(answer, pcm, start, stop),
         RightKey /\ (TableIntact(file) \/ start = 0)
           => pcm = Entries(start, start + Len(pcm)) /\ start + Len(pcm) <= stop
  PROVE  AudioInv'
<1>1. /\ it' = NoIter /\ call' = [start |-> start, stop |-> stop] /\ pc' = "returned"
      /\ collected' = pcm /\ file' = file /\ dec' = dec
  BY DEF Answer
<1>2. Typed' BY AnswerTypes DEF AudioInv
<1>3. TableInv' BY <1>1, TableKept DEF AudioInv
<1>4. WalkInv' BY <1>1 DEF WalkInv
<1>5. Trusted' => RightKey /\ (TableIntact(file) \/ start = 0)
  BY <1>1 DEF Trusted, Sound, RightKey, Forged, TableIntact, NoIter
<1>6. SliceInv' BY <1>1, <1>5 DEF SliceInv, IsSlice, Reached
<1>7. QED BY <1>2, <1>3, <1>4, <1>6 DEF AudioInv

\* An answer without audio keeps every promise about audio.
LEMMA RefuseStep ==
  ASSUME AudioInv, pc = "idle", NEW answer \in Answers, NEW start \in Nat, NEW stop \in Nat,
         start <= stop, Answer(answer, <<>>, start, stop)
  PROVE  AudioInv'
<1>1. <<>> \in Seq(Int) /\ Len(<<>>) = 0 OBVIOUS
<1>2. start + Len(<<>>) = start BY <1>1
<1>3. Entries(start, start) = <<>> BY DEF Entries
<1>4. <<>> = Entries(start, start + Len(<<>>)) /\ start + Len(<<>>) <= stop BY <1>2, <1>3
<1>5. QED BY <1>1, <1>4, AnswerStep

\* Seeking from a sample lands on the frame that holds it, inside that frame.
LEMMA SeekLands ==
  ASSUME TypeOK, TableInv, pc = "idle", NEW s \in Nat, SeekError(s) = NoError
  PROVE  LET k == SeekFrame(file.h, s)
             n == SeekOffset(file.h, s) * Nch
         IN  /\ file.tableCrc /\ s < file.h.total
             /\ TableIntact(file) \/ s * Nch = 0 => Aligned(k)
             /\ k \in Nat /\ n \in Nat /\ k < Count
             /\ k * FrameEntries + n = s * Nch
             /\ n <= FrameSamples(file.h, k) * Nch
             /\ SkipFrom(s) = [kind |-> "skip", next |-> k, skip |-> n, left |-> 0]
<1> DEFINE R == RegularFrameSamples(file.h)
           T == file.h.total
           q == s \div R
           r == s % R
           c == FrameSamples(file.h, q)
<1>1. /\ dec.crcOk /\ ~(s >= T) /\ R # 0 /\ ~(q >= Len(dec.frames))
  BY DEF SeekError, NoError, SeekFrame
<1>2. R \in Nat /\ T \in Nat /\ Nch \in Nat /\ file.h \in HeaderRecords
  BY FileType, GeometryType DEF TypeOK, HeaderRecords
<1>3. Len(dec.frames) = Count /\ Count \in Nat BY FileType DEF TableInv, TypeOK
<1>4. SeekFrame(file.h, s) = q /\ SeekOffset(file.h, s) = r BY DEF SeekFrame, SeekOffset
<1>5. FrameEntries = R * Nch BY DEF FrameEntries
<1> HIDE DEF R, T
<1>6. q \in Nat /\ r \in Nat /\ r < R /\ s = R * q + r BY <1>1, <1>2, DivMod
<1> HIDE DEF q, r
<1>7. s < T /\ q < Count BY <1>1, <1>2, <1>3, <1>6
<1>8. c \in Nat BY <1>6, FileType DEF TypeOK
<1>9. r <= c
  <2>1. /\ q + 1 < Count => c = R
        /\ q + 1 = Count => q * R + c = T
    BY <1>2, <1>6, <1>7, GeometryTiles DEF Count, R, T
  <2>2. q + 1 < Count \/ q + 1 = Count BY <1>3, <1>6, <1>7
  <2>3. R * q = q * R /\ q * R \in Nat BY <1>2, <1>6, ProductInNat
  <2>4. QED BY <1>2, <1>6, <1>7, <1>8, <2>1, <2>2, <2>3
<1> HIDE DEF c
<1>10. r * Nch <= c * Nch /\ r * Nch \in Nat
  <2>1. \A x, y, z \in Nat : x <= y => x * z <= y * z OBVIOUS
  <2>2. QED BY <1>2, <1>6, <1>8, <1>9, <2>1, ProductInNat
<1>11. q * (R * Nch) + r * Nch = s * Nch
  <2>1. (R * q + r) * Nch = q * (R * Nch) + r * Nch BY <1>2, <1>6
  <2>2. QED BY <1>6, <2>1
<1>12. SkipFrom(s) = [kind |-> "skip", next |-> q, skip |-> r * Nch, left |-> 0]
  <2>1. Least(q, Len(dec.frames)) = q BY <1>3, <1>7 DEF Least
  <2>2. FramesFrom(q) = [NoIter EXCEPT !.kind = "frames", !.next = q]
    BY <2>1 DEF FramesFrom
  <2>3. SkipFrom(s) = [FramesFrom(q) EXCEPT !.kind = "skip", !.skip = r * Nch]
    BY <1>4 DEF SkipFrom
  <2>4. QED BY <2>2, <2>3 DEF NoIter
<1>13. file.tableCrc BY <1>1 DEF TableInv
<1>14. TableIntact(file) \/ s * Nch = 0 => Aligned(q)
  <2>1. CASE TableIntact(file) BY <1>3, <1>6, <1>7, <2>1 DEF Aligned, TableIntact
  <2>2. CASE s * Nch = 0
    <3>1. Nch > 0 BY DEF TableInv
    <3>2. \A x, y \in Nat : y > 0 /\ x * y = 0 => x = 0 OBVIOUS
    <3>3. s = 0 BY <1>2, <2>2, <3>1, <3>2
    <3>4. \A x, y, z \in Nat : x * y + z = 0 /\ x > 0 => y = 0 OBVIOUS
    <3>5. q = 0 BY <1>1, <1>2, <1>6, <3>3, <3>4
    <3>6. QED BY <3>5 DEF Aligned
  <2>3. QED BY <2>1, <2>2
<1>15. QED BY <1>4, <1>5, <1>6, <1>7, <1>10, <1>11, <1>12, <1>13, <1>14 DEF c, T

-----------------------------------------------------------------------------
LEMMA InitAudio == Init => AudioInv
<1> SUFFICES ASSUME Init PROVE AudioInv OBVIOUS
<1>1. Typed BY InitTyped
<1>2. /\ pc = "closed" /\ dec = NoTable /\ it = NoIter /\ call = NoCall /\ collected = <<>>
  BY DEF Init
<1>3. TableInv BY <1>2 DEF TableInv, NoTable
<1>4. WalkInv BY <1>2 DEF WalkInv
<1>5. SliceInv
  <2>1. Entries(0, 0) = <<>> BY DEF Entries
  <2>2. QED BY <1>2, <2>1 DEF SliceInv, IsSlice, Reached, NoCall
<1>6. QED BY <1>1, <1>3, <1>4, <1>5 DEF AudioInv

\* The table's sizes and places as the file's layout gives them.
LEMMA FileLayout ==
  ASSUME TypeOK
  PROVE  /\ \A w \in 0 .. Count - 1 :
              /\ file.table[w] \in Nat /\ file.size[w] \in Nat /\ file.place[w] \in Nat
              /\ w = 0 => file.place[w] = DataStart(file)
              /\ w > 0 => file.place[w] = file.place[w - 1] + file.size[w - 1]
<1>1. WellFormed(file) BY FileType DEF TypeOK
<1>2. FrameIds(file) = 0 .. Count - 1 BY DEF FrameIds, Count
<1>3. QED BY <1>1, <1>2, Layout, Zenon

\* The loop of parse_seek_table places frame n right behind the frames before it.
LEMMA PushTable == ASSUME AudioInv, PushDescriptor PROVE TableInv'
<1> DEFINE n == Len(dec.frames)
           d == [offset |-> dec.offset, disk |-> file.table[n],
                 samples |-> FrameSamples(file.h, n)]
<1>1. /\ TypeOK /\ TableInv BY DEF AudioInv, Typed
<1>2. n \in Nat /\ Count \in Nat /\ n < Count
  BY <1>1, FileType DEF PushDescriptor, TypeOK
<1>3. n \in 0 .. Count - 1 BY <1>2
<1>4. /\ file' = file /\ pc = "parsing" /\ pc' = pc
      /\ dec' = [dec EXCEPT !.frames = Append(dec.frames, d),
                            !.offset = dec.offset + file.table[n]]
  BY DEF PushDescriptor, Descriptor
<1>5. file.table[n] \in Nat /\ FrameSamples(file.h, n) \in Nat
  BY <1>1, <1>2, <1>3, FileLayout, FileType DEF TypeOK
<1>6. d \in Descriptors BY <1>1, <1>5 DEF Descriptors, TypeOK
<1>7. d.offset = dec.offset /\ d.disk = file.table[n] /\ d.samples = FrameSamples(file.h, n)
  OBVIOUS
<1>8. Aligned(n) => d.offset = file.place[n]
  <2>1. Aligned(n) => dec.offset = IF n = 0 THEN DataStart(file)
                                   ELSE file.place[n - 1] + file.size[n - 1]
    BY <1>1, <1>4 DEF TableInv
  <2>2. QED BY <1>1, <1>2, <1>3, <1>7, <2>1, FileLayout
<1>9. Aligned(n + 1) => Aligned(n) /\ file.table[n] = file.size[n]
  <2>1. n \in 0 .. (n + 1) - 1 /\ \A w \in 0 .. n - 1 : w \in 0 .. (n + 1) - 1 BY <1>2
  <2>2. QED BY <2>1 DEF Aligned
<1>10. /\ dec'.frames = Append(dec.frames, d) /\ dec'.offset = dec.offset + file.table[n]
       /\ dec'.crcOk = dec.crcOk /\ dec'.qm = dec.qm
  BY <1>1, <1>4 DEF TypeOK
<1> HIDE DEF d
<1>11. /\ Len(dec'.frames) = n + 1
       /\ \A j \in 1 .. n + 1 : dec'.frames[j] = IF j = n + 1 THEN d ELSE dec.frames[j]
  BY <1>1, <1>6, <1>10 DEF TypeOK
<1> HIDE DEF n
<1>12. ASSUME NEW j \in 1 .. n + 1
       PROVE  /\ dec'.frames[j].disk = file.table[j - 1]
              /\ dec'.frames[j].samples = FrameSamples(file.h, j - 1)
              /\ Aligned(j - 1) => dec'.frames[j].offset = file.place[j - 1]
  <2>1. CASE j = n + 1
    <3>1. dec'.frames[j] = d /\ j - 1 = n BY <1>2, <1>11, <2>1
    <3>2. QED BY <1>7, <1>8, <3>1
  <2>2. CASE j # n + 1
    <3>1. j \in 1 .. Len(dec.frames) BY <1>2, <2>2 DEF n
    <3>2. dec'.frames[j] = dec.frames[j] BY <1>11, <2>2
    <3>3. QED BY <1>1, <3>1, <3>2 DEF TableInv
  <2>3. QED BY <2>1, <2>2
<1>13. Aligned(n + 1) => dec'.offset = file.place[n] + file.size[n]
  BY <1>7, <1>8, <1>9, <1>10
<1>14. (n + 1) - 1 = n /\ n + 1 # 0 BY <1>2
<1>15. /\ Nch > 0 /\ (dec.crcOk => file.tableCrc)
       /\ file.h.format = 1 => dec.qm = ZeroDigest
  BY <1>1, <1>4 DEF TableInv
<1>16. QED
  BY <1>4, <1>10, <1>11, <1>12, <1>13, <1>14, <1>15
  DEF TableInv, Aligned, Count, Nch, TableIntact, DataStart
LEMMA StepAudio == AudioInv /\ [Next]_vars => AudioInv'
<1> SUFFICES ASSUME AudioInv, [Next]_vars PROVE AudioInv' OBVIOUS
<1>0. Typed /\ TypeOK /\ TableInv /\ WalkInv /\ SliceInv BY DEF AudioInv, Typed
<1>t. Typed' BY <1>0, StepTyped
<1>n. /\ Count \in Nat /\ Nch \in Nat /\ TotalEntries \in Nat /\ file.h.total \in Nat
      /\ \A i \in Nat : FrameStart(i) \in Nat
      /\ \A i \in Nat : FrameStart(i) <= TotalEntries
  <2>1. /\ Count \in Nat /\ Nch \in Nat /\ TotalEntries \in Nat /\ file.h.total \in Nat
        /\ FrameEntries \in Nat /\ \A i \in Nat : FrameStart(i) \in Nat
    BY <1>0, FileType DEF TypeOK, HeaderRecords
  <2>2. \A i \in Nat : i * FrameEntries \in Nat BY <2>1, ProductInNat
  <2>3. \A i \in Nat : FrameStart(i) <= TotalEntries
    BY <2>1, <2>2 DEF FrameStart, Least
  <2>4. QED BY <2>1, <2>3
<1>e. <<>> \in Seq(Int) /\ Len(<<>>) = 0 /\ \A x \in Nat : Entries(x, x + 0) = <<>>
  BY DEF Entries
<1>m. \A x, y, z \in Nat : x <= y => x * z <= y * z OBVIOUS
<1>1. ASSUME NEW p \in Digests \cup {NoPassword}, OpenRefused(p) PROVE AudioInv'
  <2>1. /\ pc \in {"closed", "refused"} /\ pc' = "refused"
        /\ UNCHANGED <<file, dec, it, call, collected>>
    BY <1>1 DEF OpenRefused
  <2>2. TableInv' BY <1>0, <2>1 DEF TableInv, Aligned, Count, Nch, TableIntact, DataStart
  <2>3. WalkInv' BY <2>1 DEF WalkInv
  <2>4. SliceInv'
    BY <1>0, <2>1 DEF SliceInv, Trusted, Sound, RightKey, Forged, TableIntact, IsSlice, Reached
  <2>5. QED BY <1>t, <2>2, <2>3, <2>4 DEF AudioInv
<1>2. ASSUME NEW p \in Digests \cup {NoPassword}, Open(p) PROVE AudioInv'
  <2>1. /\ OpenError(p) = NoError /\ pc' = "parsing" /\ pc \in {"closed", "refused"}
        /\ dec' = [NoTable EXCEPT !.offset = DataStart(file), !.qm = Priming(p)]
        /\ UNCHANGED <<file, it, call, collected>>
    BY <1>2 DEF Open
  <2>2. /\ dec'.frames = <<>> /\ dec'.offset = DataStart(file)
        /\ dec'.qm = Priming(p) /\ dec'.crcOk = FALSE
    BY <2>1 DEF NoTable
  <2>3. Nch > 0
    <3>1. HeaderError(file.len - file.id3, file.h) = NoError
      BY <2>1 DEF OpenError, NoError
    <3>2. file.h.channels \in 1 .. MAX_NCH BY <3>1 DEF HeaderError, NoError
    <3>3. QED BY <3>2 DEF Nch, MAX_NCH
  <2>4. file.h.format = 1 => Priming(p) = ZeroDigest BY DEF Priming
  <2>5. TableInv'
    BY <2>1, <2>2, <2>3, <2>4 DEF TableInv, Aligned, Count, Nch, TableIntact, DataStart
  <2>6. WalkInv' BY <2>1 DEF WalkInv
  <2>7. collected = <<>> /\ call = NoCall BY <1>0, <2>1 DEF SliceInv
  <2>8. SliceInv'
    <3>1. collected' = <<>> /\ call' = [start |-> 0, stop |-> 0] BY <2>1, <2>7 DEF NoCall
    <3>2. Reached' = 0 BY <3>1 DEF Reached
    <3>3. Entries(0, 0) = <<>> BY DEF Entries
    <3>4. QED BY <2>1, <3>1, <3>2, <3>3 DEF SliceInv, IsSlice
  <2>9. QED BY <1>t, <2>5, <2>6, <2>8 DEF AudioInv
<1>3. CASE PushDescriptor
  <2>1. TableInv' BY <1>3, PushTable
  <2>2. /\ pc = "parsing" /\ pc' = pc /\ dec'.qm = dec.qm
        /\ UNCHANGED <<file, it, call, collected>>
    BY <1>0, <1>3 DEF PushDescriptor, TypeOK
  <2>3. WalkInv' BY <2>2 DEF WalkInv
  <2>4. SliceInv'
    BY <1>0, <2>2 DEF SliceInv, Trusted, Sound, RightKey, Forged, TableIntact, IsSlice, Reached
  <2>5. QED BY <1>t, <2>1, <2>3, <2>4 DEF AudioInv
<1>4. CASE FinishTable
  <2>1. /\ pc = "parsing" /\ pc' = "idle" /\ Len(dec.frames) = Count
        /\ dec' = [dec EXCEPT !.crcOk = file.tableCrc]
        /\ UNCHANGED <<file, it, call, collected>>
    BY <1>4 DEF FinishTable
  <2>2. /\ dec'.frames = dec.frames /\ dec'.offset = dec.offset /\ dec'.qm = dec.qm
        /\ dec'.crcOk = file.tableCrc
    BY <1>0, <2>1 DEF TypeOK
  <2>4. TableInv'
    BY <1>0, <2>1, <2>2 DEF TableInv, Aligned, Count, Nch, TableIntact, DataStart
  <2>5. WalkInv' BY <2>1 DEF WalkInv
  <2>6. SliceInv'
    BY <1>0, <2>1, <2>2 DEF SliceInv, Trusted, Sound, RightKey, Forged, TableIntact, IsSlice, Reached
  <2>7. QED BY <1>t, <2>4, <2>5, <2>6 DEF AudioInv
\* A walk from frame k starts where frame k does; from entry 0 only at frame 0.
<1>5. ASSUME NEW k \in Nat, NEW mode \in {"lazy", "eager"}, pc = "idle",
             Iterate(mode, FramesFrom(k), FrameStart(k), TotalEntries)
      PROVE AudioInv'
  <2>1. FramesFrom(k) \in Iterators /\ FramesFrom(k).kind = "frames"
    BY <1>0, FramesFromType
  <2>2. Len(dec.frames) = Count /\ Nch > 0 BY <1>0, <1>5 DEF TableInv
  <2>3. ASSUME k < Count, TableIntact(file) \/ FrameStart(k) = 0
        PROVE Continues(FramesFrom(k), FrameStart(k), TotalEntries)
    <3>1. FramesFrom(k) = [kind |-> "frames", next |-> k, skip |-> 0, left |-> 0]
      <4>1. Least(k, Len(dec.frames)) = k BY <1>n, <2>2, <2>3 DEF Least
      <4>2. FramesFrom(k) = [NoIter EXCEPT !.kind = "frames", !.next = k]
        BY <4>1 DEF FramesFrom
      <4>3. QED BY <4>2 DEF NoIter
    <3>2. /\ k * FrameEntries \in Nat /\ FrameStart(k) = k * FrameEntries
          /\ FrameSamples(file.h, k) * Nch \in Nat
          /\ FrameStart(k) = 0 => k = 0
      BY <1>0, <2>2, <2>3, EntriesTile
    <3>3. Aligned(k) BY <1>n, <2>3, <3>2 DEF Aligned, TableIntact
    <3>4. QED BY <3>1, <3>2, <3>3 DEF Continues
  <2>4. k >= Count => FramesFrom(k).next = Count
    <3>1. k >= Count => Least(k, Len(dec.frames)) = Count BY <1>n, <2>2 DEF Least
    <3>2. QED BY <3>1 DEF FramesFrom, NoIter
  <2>5. k >= Count => Continues(FramesFrom(k), FrameStart(k), TotalEntries)
    BY <1>n, <2>4 DEF Continues
  <2>6. FrameStart(k) \in Nat /\ FrameStart(k) <= TotalEntries BY <1>n
  <2>7. Sound(FrameStart(k), "frames") => TableIntact(file) \/ FrameStart(k) = 0 BY DEF Sound
  <2>8. k < Count \/ k >= Count BY <1>n
  <2>9. Sound(FrameStart(k), FramesFrom(k).kind)
          => Continues(FramesFrom(k), FrameStart(k), TotalEntries)
    BY <2>1, <2>3, <2>5, <2>7, <2>8
  <2>10. QED BY <1>n, <1>5, <2>1, <2>6, <2>9, StartStep
<1>6. ASSUME NEW k \in FrameArgs, FrameIterFrom(k) PROVE AudioInv'
  <2>1. k \in Nat BY <1>n DEF FrameArgs
  <2>2. QED BY <1>5, <1>6, <2>1 DEF FrameIterFrom
<1>7. CASE DecodeAll
  <2>1. FrameStart(0) = 0
    <3>1. 0 * FrameEntries = 0 BY <1>0, FileType DEF TypeOK
    <3>2. QED BY <1>n, <3>1 DEF FrameStart, Least
  <2>2. QED BY <1>5, <1>7, <2>1 DEF DecodeAll
<1>8. ASSUME NEW k \in FrameArgs, DecodeFrameAt(k) PROVE AudioInv'
  <2>1. k \in Nat /\ k + 1 \in Nat /\ pc = "idle"
    <3>1. k \in Nat BY <1>n DEF FrameArgs
    <3>2. QED BY <1>8, <3>1 DEF DecodeFrameAt
  <2>2. Len(dec.frames) = Count /\ Nch > 0 BY <1>0, <2>1 DEF TableInv
  <2>3. CASE k >= Count
    <3>1. Answer("FrameIndexOutOfRange", <<>>, 0, 0) BY <1>8, <2>2, <2>3 DEF DecodeFrameAt
    <3>2. "FrameIndexOutOfRange" \in Answers BY DEF Answers
    <3>3. QED BY <2>1, <3>1, <3>2, RefuseStep
  <2>4. CASE k < Count
    <3> DEFINE first == k * FrameEntries
               n == FrameSamples(file.h, k) * Nch
               pcm == DecodeFrame(dec.frames[k + 1])
               start == FrameStart(k)
               stop == FrameStart(k + 1)
    <3>1. /\ n \in Nat /\ first \in Nat /\ start = first /\ first + n <= stop
          /\ start = 0 => k = 0
      BY <1>0, <2>1, <2>2, <2>4, EntriesTile
    <3>2. start \in Nat /\ stop \in Nat BY <1>n, <2>1
    <3>3. CASE Undecodable(file, dec.frames[k + 1])
      <4>1. Answer(FrameError, <<>>, start, stop)
        BY <1>n, <1>8, <2>1, <2>2, <2>4, <3>3 DEF DecodeFrameAt
      <4>2. FrameError \in Answers BY DEF Answers
      <4> HIDE DEF start, stop, first, n
      <4>3. start <= stop BY <3>1, <3>2
      <4>4. QED BY <2>1, <3>2, <4>1, <4>2, <4>3, RefuseStep
    <3>4. CASE ~Undecodable(file, dec.frames[k + 1])
      <4>1. Answer("Ok", pcm, start, stop)
        BY <1>n, <1>8, <2>1, <2>2, <2>4, <3>4 DEF DecodeFrameAt
      <4>2. dec.frames[k + 1] \in Descriptors BY <1>0, <2>1, <2>2, <2>4 DEF TypeOK
      <4>3. pcm \in Seq(Int) BY <1>0, <3>4, <4>2, DecodeFrameType
      <4>4. RightKey /\ (TableIntact(file) \/ start = 0) => pcm = Entries(first, first + n)
        <5>1. SUFFICES ASSUME RightKey, TableIntact(file) \/ start = 0
                       PROVE pcm = Entries(first, first + n)
          OBVIOUS
        <5>2. Aligned(k) BY <1>n, <2>4, <3>1, <5>1 DEF Aligned, TableIntact
        <5>3. QED BY <1>0, <2>1, <2>2, <2>4, <3>4, <5>1, <5>2, DecodeAligned
      <4> HIDE DEF start, stop, first, n, pcm
      <4>5. Entries(first, first + n) = pcm => Len(pcm) = n
        <5>1. first + n \in Nat /\ first <= first + n /\ (first + n) - first = n BY <3>1
        <5>2. QED BY <3>1, <5>1, EntriesType
      <4>6. "Ok" \in Answers BY DEF Answers
      <4>7. start <= stop BY <3>1, <3>2
      <4>8. QED BY <2>1, <3>1, <3>2, <4>1, <4>3, <4>4, <4>5, <4>6, <4>7, AnswerStep
    <3>5. QED BY <3>3, <3>4
  <2>5. QED BY <1>n, <2>1, <2>3, <2>4
\* An error answers with nothing.
<1>9. ASSUME NEW answer \in Answers, pc = "idle", Answer(answer, <<>>, 0, 0) PROVE AudioInv'
  BY <1>9, RefuseStep
<1>10. ASSUME NEW mode \in {"lazy", "eager"}, NEW s \in Nat, FromSample(mode, s)
       PROVE AudioInv'
  <2>1. s \in Nat /\ pc = "idle" BY <1>10 DEF FromSample
  <2>2. CASE SeekError(s) # NoError
    BY <1>9, <1>10, <2>1, <2>2, SeekErrorType DEF FromSample
  <2>3. CASE SeekError(s) = NoError
    <3> DEFINE k == SeekFrame(file.h, s)
               n == SeekOffset(file.h, s) * Nch
    <3>1. /\ file.tableCrc /\ s < file.h.total /\ k \in Nat /\ n \in Nat /\ k < Count
          /\ TableIntact(file) \/ s * Nch = 0 => Aligned(k)
          /\ k * FrameEntries + n = s * Nch /\ n <= FrameSamples(file.h, k) * Nch
          /\ SkipFrom(s) = [kind |-> "skip", next |-> k, skip |-> n, left |-> 0]
      BY <1>0, <2>1, <2>3, SeekLands
    <3>2. SkipFrom(s) \in Iterators /\ SkipFrom(s).kind = "skip" BY <1>0, <2>1, <2>3, SkipFromType
    <3>3. s * Nch \in Nat /\ s * Nch <= TotalEntries
      BY <1>n, <1>m, <2>1, <3>1, ProductInNat DEF TotalEntries
    <3>4. Iterate(mode, SkipFrom(s), s * Nch, TotalEntries)
      BY <1>10, <2>3 DEF FromSample
    <3> HIDE DEF k, n
    <3>5. Sound(s * Nch, "skip") => Aligned(k) BY <3>1 DEF Sound, Forged
    <3>6. Sound(s * Nch, "skip") => Continues(SkipFrom(s), s * Nch, TotalEntries)
      BY <3>1, <3>5 DEF Continues
    <3>7. QED BY <1>n, <2>1, <3>2, <3>3, <3>4, <3>6, StartStep
  <2>4. QED BY <2>2, <2>3
<1>11. ASSUME NEW mode \in {"lazy", "eager"}, NEW a \in Nat, NEW b \in Nat,
              SampleRange(mode, a, b)
       PROVE AudioInv'
  <2>1. a \in Nat /\ b \in Nat /\ pc = "idle" BY <1>11 DEF SampleRange
  <2>2. a * Nch \in Nat /\ b * Nch \in Nat BY <1>n, <2>1, ProductInNat
  <2>3. CASE a > b \/ b > file.h.total
    <3>1. Answer("SampleIndexOutOfRange", <<>>, 0, 0) BY <1>11, <2>3 DEF SampleRange
    <3>2. "SampleIndexOutOfRange" \in Answers BY DEF Answers
    <3>3. QED BY <1>9, <2>1, <3>1, <3>2
  <2>4. CASE a = b /\ ~(a > b \/ b > file.h.total)
    <3> DEFINE i == [FramesFrom(Len(dec.frames)) EXCEPT !.kind = "range"]
    <3>1. Iterate(mode, i, a * Nch, b * Nch) BY <1>11, <2>4 DEF SampleRange
    <3>2. Len(dec.frames) = Count BY <1>0, <2>1 DEF TableInv
    <3>3. FramesFrom(Count) \in Iterators BY <1>0, <1>n, FramesFromType
    <3>4. FramesFrom(Count).next = Count BY <1>n, <3>2 DEF FramesFrom, NoIter, Least
    <3>5. i \in Iterators /\ i.kind = "range" /\ i.next = Count
      BY <3>2, <3>3, <3>4 DEF Iterators, IterKinds
    <3> HIDE DEF i
    <3>6. Continues(i, a * Nch, b * Nch) BY <1>n, <3>5 DEF Continues
    <3>7. a * Nch <= b * Nch BY <2>2, <2>4
    <3>8. QED BY <2>1, <2>2, <3>1, <3>5, <3>6, <3>7, StartStep
  <2>5. CASE a # b /\ ~(a > b \/ b > file.h.total) /\ SeekError(a) # NoError
    <3>1. Answer(SeekError(a), <<>>, 0, 0) BY <1>11, <2>5 DEF SampleRange
    <3>2. QED BY <1>9, <2>1, <2>5, <3>1, SeekErrorType
  <2>6. CASE a # b /\ ~(a > b \/ b > file.h.total) /\ SeekError(a) = NoError
    <3> DEFINE k == SeekFrame(file.h, a)
               n == SeekOffset(file.h, a) * Nch
               left == (b - a) * Nch
               i == [SkipFrom(a) EXCEPT !.kind = "range", !.left = left]
    <3>1. /\ file.tableCrc /\ k \in Nat /\ n \in Nat /\ k < Count
          /\ TableIntact(file) \/ a * Nch = 0 => Aligned(k)
          /\ k * FrameEntries + n = a * Nch /\ n <= FrameSamples(file.h, k) * Nch
          /\ SkipFrom(a) = [kind |-> "skip", next |-> k, skip |-> n, left |-> 0]
      BY <1>0, <2>1, <2>6, SeekLands
    <3>2. Iterate(mode, i, a * Nch, b * Nch) BY <1>11, <2>6 DEF SampleRange
    <3> HIDE DEF k, n
    <3>3. i = [kind |-> "range", next |-> k, skip |-> n, left |-> left]
      <4>1. i = [[kind |-> "skip", next |-> k, skip |-> n, left |-> 0]
                  EXCEPT !.kind = "range", !.left = left]
        BY <3>1
      <4> HIDE DEF i, left
      <4>2. QED BY <4>1
    <3>4. b - a \in Nat /\ a <= b BY <2>1, <2>6
    <3>5. left \in Nat BY <1>n, <3>4, ProductInNat
    <3>6. a * Nch + left = b * Nch
      <4>1. \A x, y, z \in Nat : x * z + (y - x) * z = y * z OBVIOUS
      <4>2. QED BY <1>n, <2>1, <4>1
    <3> HIDE DEF i, left
    <3>7. i \in Iterators /\ i.kind = "range" BY <3>1, <3>3, <3>5 DEF Iterators, IterKinds
    <3>8. Sound(a * Nch, "range") => Aligned(k) BY <3>1 DEF Sound, Forged
    <3>9. Sound(a * Nch, "range") => Continues(i, a * Nch, b * Nch)
      BY <3>1, <3>3, <3>6, <3>8 DEF Continues
    <3>10. a * Nch <= b * Nch BY <2>2, <3>5, <3>6
    <3>11. QED BY <2>1, <2>2, <3>2, <3>7, <3>9, <3>10, StartStep
  <2>7. QED BY <2>3, <2>4, <2>5, <2>6
\* A turn of the iterator in use, whoever holds it.
<1>12. ASSUME pc \in {"lazy", "eager"}, NEW r, r = IterNext(it), it' = r.it,
              UNCHANGED <<file, dec, call>>,
              \/ pc' = pc /\ collected' = collected \o r.pcm
              \/ pc' = "returned" /\ (collected' = <<>> \/ collected' = collected \o r.pcm)
       PROVE AudioInv'
  <2>1. r \in Turns /\ r.it.kind = it.kind
    BY <1>0, <1>12, IterNextType, IterNextKind DEF Typed, HasIterator
  <2>2. TableInv' BY <1>0, <1>12, TableKept
  <2>3. Trusted' = Trusted BY <1>12, <2>1 DEF Trusted, Sound, RightKey, Forged, TableIntact
  <2>4. call.start \in Nat /\ call.stop \in Nat /\ Reached \in Nat /\ collected \in Seq(Int)
    BY <1>0 DEF TypeOK, Reached
  <2>5. CASE Trusted
    <3>1. collected = Entries(call.start, Reached) /\ Reached <= call.stop
      BY <1>0, <2>5 DEF SliceInv, IsSlice
    <3>2. Advances(r, Reached, call.stop) BY <1>0, <1>12, <2>5, <3>1, IterAdvance
    <3> DEFINE m == Reached + Len(r.pcm)
    <3>3. /\ r.pcm = Entries(Reached, m) /\ m <= call.stop
          /\ Continues(r.it, m, call.stop)
      BY <3>2 DEF Advances
    <3>4. Len(r.pcm) \in Nat /\ m \in Nat /\ Reached <= m BY <2>1, <2>4 DEF Turns
    <3>5. collected \o r.pcm = Entries(call.start, m)
      <4>1. call.start <= Reached BY <2>4 DEF Reached
      <4>2. Entries(call.start, Reached) \o Entries(Reached, m) = Entries(call.start, m)
        BY <2>4, <3>4, <4>1, EntriesConcat
      <4>3. collected \o r.pcm = Entries(call.start, Reached) \o Entries(Reached, m)
        BY <3>1, <3>3
      <4>4. QED BY <4>2, <4>3
    <3>6. call.start + Len(collected \o r.pcm) = m
      BY <2>1, <2>4 DEF Turns, Reached
    <3> HIDE DEF m
    <3>7. collected' = collected \o r.pcm => Reached' = m BY <1>12, <3>6 DEF Reached
    <3>8. collected' = <<>> => Reached' = call.start BY <1>12, <2>4 DEF Reached
    <3>9. SliceInv'
      <4>1. Entries(call.start, call.start) = <<>> /\ call.start <= call.stop
        BY <1>0, <2>4 DEF Entries, SliceInv
      <4>2. CASE collected' = collected \o r.pcm
        BY <1>12, <3>3, <3>5, <3>7, <4>1, <4>2 DEF SliceInv, IsSlice
      <4>3. CASE collected' = <<>> BY <1>12, <3>8, <4>1, <4>3 DEF SliceInv, IsSlice
      <4>4. QED BY <1>12, <4>2, <4>3
    <3>10. WalkInv'
      BY <1>12, <3>3, <3>7
      DEF WalkInv, Continues, Aligned, Count, FrameEntries, Nch, TotalEntries
    <3>11. QED BY <1>t, <2>2, <3>9, <3>10 DEF AudioInv
  <2>6. CASE ~Trusted
    <3>1. WalkInv' BY <2>3, <2>6 DEF WalkInv
    <3>2. SliceInv' BY <1>0, <1>12, <2>3, <2>6 DEF SliceInv
    <3>3. QED BY <1>t, <2>2, <3>1, <3>2 DEF AudioInv
  <2>7. QED BY <2>5, <2>6
<1>13. CASE Poll BY <1>12, <1>13 DEF Poll
<1>14. CASE Collect
  <2> DEFINE r == IterNext(it)
  <2>1. /\ pc = "eager" /\ it' = r.it /\ UNCHANGED <<file, dec, call>>
        /\ collected' = IF r.item = FrameError THEN <<>> ELSE collected \o r.pcm
        /\ pc' = IF r.item = "Pcm" THEN "eager" ELSE "returned"
    BY <1>14 DEF Collect
  <2> HIDE DEF r
  <2>2. \/ pc' = pc /\ collected' = collected \o r.pcm
        \/ pc' = "returned" /\ (collected' = <<>> \/ collected' = collected \o r.pcm)
    BY <2>1 DEF FrameError
  <2>3. QED BY <1>12, <2>1, <2>2 DEF r
<1>15. CASE Release
  <2>1. /\ pc \in {"lazy", "returned"} /\ pc' = "idle" /\ call' = NoCall
        /\ collected' = <<>> /\ UNCHANGED <<file, dec>>
    BY <1>15 DEF Release, Reset
  <2>2. TableInv' BY <1>0, <2>1, TableKept
  <2>3. WalkInv' BY <2>1 DEF WalkInv
  <2>4. SliceInv' BY <1>e, <2>1 DEF SliceInv, IsSlice, Reached, NoCall
  <2>5. QED BY <1>t, <2>2, <2>3, <2>4 DEF AudioInv
<1>16. CASE UNCHANGED vars
  BY <1>0, <1>t, <1>16
  DEF vars, AudioInv, TableInv, Aligned, Count, Nch, TableIntact, DataStart, WalkInv,
      Continues, FrameEntries, TotalEntries, Trusted, Sound, Forged, RightKey, Reached, SliceInv, IsSlice
<1>a. SampleArgs \subseteq Nat /\ \A t \in TimeArgs : SampleAt(t, file.h.rate) \in Nat
  BY <1>0, ArgsType DEF Typed
<1>17. ASSUME NEW mode \in {"lazy", "eager"}, NEW t \in TimeArgs, FromTime(mode, t)
       PROVE AudioInv'
  BY <1>10, <1>17, <1>a DEF FromTime
<1>18. ASSUME NEW mode \in {"lazy", "eager"}, NEW t \in TimeArgs, NEW u \in TimeArgs,
              TimeRange(mode, t, u)
       PROVE AudioInv'
  BY <1>11, <1>18, <1>a DEF TimeRange
<1>19. ASSUME NEW mode \in {"lazy", "eager"}, NEW s \in SampleArgs, FromSample(mode, s)
       PROVE AudioInv'
  BY <1>10, <1>19, <1>a
<1>20. ASSUME NEW mode \in {"lazy", "eager"}, NEW a \in SampleArgs, NEW b \in SampleArgs,
              SampleRange(mode, a, b)
       PROVE AudioInv'
  BY <1>11, <1>20, <1>a
<1>21. ASSUME NEW s \in SampleArgs, SeekToSample(s) PROVE AudioInv'
  <2>1. "Ok" \in Answers /\ pc = "idle" BY <1>21 DEF Answers, SeekToSample
  <2>2. PICK answer \in Answers : Answer(answer, <<>>, 0, 0)
    BY <1>21, <2>1, SeekErrorType DEF SeekToSample
  <2>3. QED BY <1>9, <2>1, <2>2
<1>22. QED
  BY <1>1, <1>2, <1>3, <1>4, <1>6, <1>7, <1>8, <1>13, <1>14, <1>15, <1>16, <1>17, <1>18,
     <1>19, <1>20, <1>21
  DEF Next

\* Every read of a file with an intact seek table is the exact slice asked for.
THEOREM ExactSliceCorrect == Spec => []ExactSlice
<1>1. AudioInv => ExactSlice BY DEF AudioInv, SliceInv, ExactSlice, Trusted, Sound
<1>2. QED BY <1>1, InitAudio, StepAudio, PTL DEF Spec

\* Whatever became of the table, a walk from the first frame and every
\* sample-addressed read hand out the right audio or none.
THEOREM NeverWrongAudioCorrect == Spec => []NeverWrongAudio
<1>1. AudioInv => NeverWrongAudio BY DEF AudioInv, SliceInv, NeverWrongAudio, Trusted, Sound
<1>2. QED BY <1>1, InitAudio, StepAudio, PTL DEF Spec

-----------------------------------------------------------------------------
(***************************************************************************)
(* After the error.  An iterator that has answered its end or an error is  *)
(* exhausted: its cursor is behind the last frame or its count is used up, *)
(* and a turn of an exhausted iterator changes nothing.                    *)
(***************************************************************************)
Exhausted(i) == i.next >= Len(dec.frames) \/ (i.kind = "range" /\ i.left = 0)

SpentInv == pc = "lazy" /\ item \in {"End", FrameError} => Exhausted(it)

\* Whatever the iterator, a turn without audio exhausts it.
LEMMA TurnExhausts ==
  ASSUME TypeOK, it.kind # "none", IterNext(it).item # "Pcm"
  PROVE  Exhausted(IterNext(it).it)
<1>0. /\ it \in Iterators /\ Len(dec.frames) \in Nat
      /\ it.kind \in {"frames", "skip", "range"} /\ it.next \in Nat
  BY DEF TypeOK, Iterators, IterKinds
<1>1. FrameNext(it).item # "Pcm" => FrameNext(it).it.next >= Len(dec.frames)
  BY <1>0 DEF FrameNext, Iterators
<1>2. SkipNext(it).item = FrameNext(it).item
  BY DEF SkipNext
<1>3. SkipNext(it).item # "Pcm" => SkipNext(it).it.next >= Len(dec.frames)
  BY <1>0, <1>1 DEF SkipNext, FrameNext, Iterators
<1>4. CASE it.kind = "frames" BY <1>1, <1>4 DEF IterNext, Exhausted
<1>5. CASE it.kind = "skip" BY <1>3, <1>5 DEF IterNext, Exhausted
<1>6. CASE it.kind = "range"
  <2>1. IterNext(it) = RangeNext(it) BY <1>6 DEF IterNext
  <2>2. CASE it.left = 0 BY <1>6, <2>1, <2>2 DEF RangeNext, Exhausted
  <2>3. CASE it.left # 0
    <3>1. SkipNext(it).item # "Pcm" BY <2>1, <2>3 DEF RangeNext
    <3>2. SkipNext(it).it.next >= Len(dec.frames) BY <1>3, <3>1
    <3>3. RangeNext(it).it.next >= Len(dec.frames)
      BY <1>0, <2>3, <3>1, <3>2 DEF RangeNext, SkipNext, FrameNext, Iterators, FrameError
    <3>4. QED BY <2>1, <3>3 DEF Exhausted
  <2>4. QED BY <2>2, <2>3
<1>7. QED BY <1>0, <1>4, <1>5, <1>6

\* An exhausted iterator answers the end, hands out nothing and stays exhausted.
LEMMA ExhaustedStays ==
  ASSUME TypeOK, it.kind # "none", Exhausted(it)
  PROVE  IterNext(it).item = "End" /\ IterNext(it).pcm = <<>>
<1>0. it.kind \in {"frames", "skip", "range"} /\ it.next \in Nat /\ Len(dec.frames) \in Nat
  BY DEF TypeOK, IterKinds
<1>1. it.next >= Len(dec.frames) =>
        /\ FrameNext(it).item = "End" /\ FrameNext(it).pcm = <<>>
        /\ SkipNext(it).item = "End" /\ SkipNext(it).pcm = <<>>
        /\ RangeNext(it).item = "End" /\ RangeNext(it).pcm = <<>>
  BY DEF FrameNext, SkipNext, RangeNext
<1>2. it.left = 0 => RangeNext(it).item = "End" /\ RangeNext(it).pcm = <<>>
  BY DEF RangeNext
<1>3. QED BY <1>0, <1>1, <1>2 DEF IterNext, Exhausted

LEMMA InitSpent == Init => SpentInv
  BY DEF Init, SpentInv

LEMMA StepSpent == Typed /\ SpentInv /\ [Next]_vars => SpentInv'
<1> SUFFICES ASSUME Typed, SpentInv, [Next]_vars, pc' = "lazy", item' \in {"End", FrameError}
             PROVE Exhausted(it)'
  BY DEF SpentInv
<1>1. CASE Poll
  <2>1. /\ pc = "lazy" /\ it' = IterNext(it).it /\ item' = IterNext(it).item
        /\ dec' = dec
    BY <1>1 DEF Poll
  <2>2. it.kind # "none" BY <2>1 DEF Typed, HasIterator
  <2>3. Exhausted(IterNext(it).it) BY <2>1, <2>2, TurnExhausts DEF Typed, FrameError
  <2>4. QED BY <2>1, <2>3 DEF Exhausted
<1>2. CASE UNCHANGED vars BY <1>2 DEF vars, SpentInv, Exhausted
\* Every other step that leaves the caller with an iterator has just handed it out.
<1>3. CASE ~Poll /\ ~UNCHANGED vars
  <2>1. \A mode, iter, start, stop : Iterate(mode, iter, start, stop) => item' = "None"
    BY DEF Iterate, Reset
  <2>2. \A answer, pcm, start, stop : Answer(answer, pcm, start, stop) => pc' # "lazy"
    BY DEF Answer
  <2>3. ASSUME NEW mode, NEW s, FromSample(mode, s) PROVE item' = "None" \/ pc' # "lazy"
    BY <2>1, <2>2, <2>3 DEF FromSample
  <2>4. ASSUME NEW mode, NEW a, NEW b, SampleRange(mode, a, b)
        PROVE item' = "None" \/ pc' # "lazy"
    BY <2>1, <2>2, <2>4 DEF SampleRange
  <2>5. ASSUME NEW k, DecodeFrameAt(k) PROVE pc' # "lazy" BY <2>2, <2>5 DEF DecodeFrameAt
  <2>6. ASSUME NEW k, FrameIterFrom(k) PROVE item' = "None" BY <2>1, <2>6 DEF FrameIterFrom
  <2>7. DecodeAll => pc' # "lazy" BY DEF DecodeAll, Iterate, Reset
  <2>8. ASSUME NEW p, OpenRefused(p) \/ Open(p) PROVE pc' # "lazy"
    BY <2>8 DEF OpenRefused, Open
  <2>9. PushDescriptor \/ FinishTable \/ Collect \/ Release => pc' # "lazy"
    BY DEF PushDescriptor, FinishTable, Collect, Release, Reset
  <2>10. ASSUME NEW s, SeekToSample(s) PROVE pc' # "lazy" BY <2>2, <2>10 DEF SeekToSample
  <2>11. QED BY <1>3, <2>3, <2>4, <2>5, <2>6, <2>7, <2>8, <2>9, <2>10
             DEF Next, FromTime, TimeRange, FrameError
<1>4. QED BY <1>1, <1>2, <1>3

\* The only step a caller holding an iterator can take with it is to poll it.
LEMMA LazyPolls ==
  ASSUME [Next]_vars, pc = "lazy", pc' = "lazy"
  PROVE  Poll \/ UNCHANGED vars
<1>1. CASE UNCHANGED vars BY <1>1
<1>2. CASE Next
  <2>1. ~Release BY DEF Release, Reset
  <2>2. QED BY <1>2, <2>1
            DEF Next, OpenRefused, Open, PushDescriptor, FinishTable, FrameIterFrom,
                DecodeFrameAt, DecodeAll, SeekToSample, FromSample, SampleRange, FromTime,
                TimeRange, Collect
<1>3. QED BY <1>1, <1>2

\* After an error or the end every further next() answers the end, hands out
\* nothing, and announces nothing.
THEOREM ErrorOnceCorrect == Spec => ErrorOnce
<1>1. Typed /\ SpentInv /\ [Next]_vars
        => (pc = "lazy" /\ pc' = "lazy" /\ item \in {"End", FrameError}
              => /\ item' = "End" /\ collected' = collected
                 /\ it.kind # "range" => SizeHint(it) = 0) \/ UNCHANGED vars
  <2> SUFFICES ASSUME Typed, SpentInv, [Next]_vars, pc = "lazy", pc' = "lazy",
                      item \in {"End", FrameError}, ~UNCHANGED vars
               PROVE  /\ item' = "End" /\ collected' = collected
                      /\ it.kind # "range" => SizeHint(it) = 0
    OBVIOUS
  <2>1. /\ item' = IterNext(it).item /\ collected' = collected \o IterNext(it).pcm
    BY LazyPolls DEF Poll
  <2>2. it.kind # "none" /\ TypeOK /\ collected \in Seq(Int) BY DEF Typed, HasIterator, TypeOK
  <2>3. Exhausted(it) BY DEF SpentInv
  <2>4. IterNext(it).item = "End" /\ IterNext(it).pcm = <<>>
    BY <2>2, <2>3, ExhaustedStays
  <2>5. collected \o <<>> = collected BY <2>2
  <2>6. it.kind # "range" => SizeHint(it) = 0 BY <2>3 DEF Exhausted, SizeHint
  <2>7. QED BY <2>1, <2>4, <2>5, <2>6
<1>2. QED BY <1>1, InitTyped, StepTyped, InitSpent, StepSpent, PTL DEF Spec, ErrorOnce

-----------------------------------------------------------------------------
(***************************************************************************)
(* Refusals.  What a refused caller was told is the answer to one of the   *)
(* passwords, and no check but the format gate looks at the password.      *)
(***************************************************************************)
RefusedInv ==
  pc = "refused" =>
    \E p \in Digests \cup {NoPassword} : item = OpenError(p) /\ OpenError(p) # NoError

LEMMA InitRefused == Init => RefusedInv
  BY DEF Init, RefusedInv

LEMMA StepRefused == RefusedInv /\ [Next]_vars => RefusedInv'
<1> SUFFICES ASSUME RefusedInv, [Next]_vars, pc' = "refused" PROVE RefusedInv'
  BY DEF RefusedInv
<1>1. ASSUME NEW p \in Digests \cup {NoPassword}, OpenRefused(p) PROVE RefusedInv'
  BY <1>1 DEF OpenRefused, OpenError, RefusedInv
<1>2. CASE UNCHANGED vars BY <1>2 DEF vars, RefusedInv, OpenError
<1>3. ASSUME NEW p, Open(p) PROVE FALSE BY <1>3 DEF Open
<1>4. \A mode, iter, start, stop : mode \in {"lazy", "eager"} =>
        ~Iterate(mode, iter, start, stop)
  BY DEF Iterate, Reset
<1>5. \A answer, pcm, start, stop : ~Answer(answer, pcm, start, stop) BY DEF Answer
<1>6. ASSUME NEW mode \in {"lazy", "eager"}, NEW s, FromSample(mode, s) PROVE FALSE
  BY <1>4, <1>5, <1>6 DEF FromSample
<1>7. ASSUME NEW mode \in {"lazy", "eager"}, NEW a, NEW b, SampleRange(mode, a, b) PROVE FALSE
  BY <1>4, <1>5, <1>7 DEF SampleRange
<1>8. ASSUME NEW k, FrameIterFrom(k) \/ DecodeFrameAt(k) PROVE FALSE
  BY <1>4, <1>5, <1>8 DEF FrameIterFrom, DecodeFrameAt
<1>9. ~(DecodeAll \/ PushDescriptor \/ FinishTable \/ Poll \/ Collect \/ Release)
  BY <1>4 DEF DecodeAll, PushDescriptor, FinishTable, Poll, Collect, Release, Reset
<1>10. ASSUME NEW s, SeekToSample(s) PROVE FALSE BY <1>5, <1>10 DEF SeekToSample
<1>11. QED
  BY <1>1, <1>2, <1>3, <1>6, <1>7, <1>8, <1>9, <1>10 DEF Next, FromTime, TimeRange

\* The answer to another password is the same, or asks for one.
LEMMA SameRefusal ==
  ASSUME NEW p, NEW q, OpenError(p) # NoError, OpenError(p) # "PasswordRequired"
  PROVE  OpenError(q) \in {OpenError(p), "PasswordRequired"}
  BY DEF OpenError, NoError

\* A stream refused for anything but a missing password is refused for good.
THEOREM RefusalStandsCorrect == Spec => RefusalStands
<1>1. RefusedInv /\ [Next]_vars
        => (pc = "refused" /\ item # "PasswordRequired"
              => pc' = "refused" /\ item' \in {item, "PasswordRequired"}) \/ UNCHANGED vars
  <2> SUFFICES ASSUME RefusedInv, Next, pc = "refused", item # "PasswordRequired"
               PROVE  pc' = "refused" /\ item' \in {item, "PasswordRequired"}
    OBVIOUS
  <2>1. PICK p \in Digests \cup {NoPassword} : item = OpenError(p) /\ OpenError(p) # NoError
    BY DEF RefusedInv
  <2>2. PICK q \in Digests \cup {NoPassword} : OpenRefused(q) \/ Open(q)
    BY DEF Next, PushDescriptor, FinishTable, FrameIterFrom, DecodeFrameAt, DecodeAll,
           SeekToSample, FromSample, SampleRange, FromTime, TimeRange, Poll, Collect, Release
  <2>3. OpenError(q) \in {item, "PasswordRequired"} BY <2>1, SameRefusal
  <2>4. OpenError(q) # NoError BY <2>1, <2>3 DEF NoError
  <2>5. QED BY <2>2, <2>3, <2>4 DEF OpenRefused, Open
<1>2. QED BY <1>1, InitRefused, StepRefused, PTL DEF Spec, RefusalStands

-----------------------------------------------------------------------------
(***************************************************************************)
(* Time.  A stream that opened has a rate no faster than the clock, so the *)
(* rounding of a sample's duration loses less than one sample on the way   *)
(* back; every sample of it lies in a frame of the table.                  *)
(***************************************************************************)
OpenedInv ==
  pc \notin {"closed", "refused"} =>
    /\ file.h.format \in {1, 2}
    /\ file.h.channels \in 1 .. MAX_NCH
    /\ file.h.bps \in 16 .. 24
    /\ file.h.rate \in 1 .. MAX_SAMPLE_RATE

LEMMA InitOpened == Init => OpenedInv
  BY DEF Init, OpenedInv

LEMMA StepOpened == OpenedInv /\ [Next]_vars => OpenedInv'
<1> SUFFICES ASSUME OpenedInv, [Next]_vars PROVE OpenedInv' OBVIOUS
<1>1. file' = file
  BY DEF Next, vars, OpenRefused, Open, PushDescriptor, FinishTable, FrameIterFrom,
         DecodeFrameAt, DecodeAll, SeekToSample, FromSample, SampleRange, FromTime,
         TimeRange, Poll, Collect, Release, Iterate, Answer, Reset
<1>2. ASSUME NEW p, Open(p) PROVE OpenedInv'
  BY <1>1, <1>2 DEF Open, OpenError, HeaderError, NoError, OpenedInv
<1>3. CASE pc \notin {"closed", "refused"} BY <1>1, <1>3 DEF OpenedInv
<1>4. CASE pc \in {"closed", "refused"} /\ pc' \notin {"closed", "refused"}
  <2>1. \E p : Open(p)
    BY <1>4 DEF Next, vars, OpenRefused, PushDescriptor, FinishTable, FrameIterFrom,
         DecodeFrameAt, DecodeAll, SeekToSample, FromSample, SampleRange, FromTime,
         TimeRange, Poll, Collect, Release
  <2>2. QED BY <1>2, <2>1
<1>5. CASE pc' \in {"closed", "refused"} BY <1>5 DEF OpenedInv
<1>6. QED BY <1>3, <1>4, <1>5

\* Down to a tick and back down to a sample: the same one, or the one before.
LEMMA RoundTrip ==
  ASSUME NEW n \in Nat, NEW rate \in Nat, rate > 0, rate <= TicksPerSecond
  PROVE  /\ SampleAt(DurationAt(n, rate), rate) =
              IF (n * TicksPerSecond) % rate = 0 THEN n ELSE n - 1
         /\ (n * TicksPerSecond) % rate # 0 => n > 0
<1> DEFINE T == TicksPerSecond
           q == n \div rate
           m == n % rate
           d == (m * T) \div rate
           s == (m * T) % rate
<1>1. T \in Nat /\ T > 0 /\ rate <= T BY ClockAssumption
<1>2. q \in Nat /\ m \in Nat /\ m < rate /\ n = rate * q + m BY DivMod
<1>3. DurationAt(n, rate) = q * T + d BY DEF DurationAt
<1>4. SampleAt(DurationAt(n, rate), rate) = (DurationAt(n, rate) * rate) \div T
  BY DEF SampleAt
<1> HIDE DEF T, q, m
<1>5. m * T \in Nat BY <1>1, <1>2, ProductInNat
<1>6. d \in Nat /\ s \in Nat /\ s < rate /\ m * T = rate * d + s BY <1>5, DivMod
<1> HIDE DEF d, s
<1>7. n * T = rate * (q * T + d) + s
  <2>1. n * T = (rate * q) * T + m * T BY <1>1, <1>2
  <2>2. (rate * q) * T + rate * d = rate * (q * T + d) BY <1>1, <1>2, <1>6
  <2>3. rate * (q * T + d) \in Nat /\ (rate * q) * T \in Nat /\ rate * d \in Nat
    BY <1>1, <1>2, <1>6, ProductInNat
  <2>4. QED BY <1>5, <1>6, <2>1, <2>2, <2>3
<1> DEFINE D == q * T + d
<1>8. D \in Nat BY <1>1, <1>2, <1>6, ProductInNat
<1>9. n * T = rate * D + s BY <1>7
<1> HIDE DEF D
<1>10. n * T \in Nat /\ rate * D \in Nat /\ D * rate = rate * D
  BY <1>1, <1>8, ProductInNat
<1>11. (n * T) % rate = s BY <1>6, <1>8, <1>9, ModOf
<1>12. CASE s = 0
  <2>1. D * rate = T * n + 0 BY <1>1, <1>9, <1>10, <1>12
  <2>2. (D * rate) \div T = n BY <1>1, <2>1, DivOf
  <2>3. QED BY <1>3, <1>4, <1>11, <1>12, <2>2 DEF D, T
<1>13. CASE s # 0
  <2>1. n > 0
    <3>1. n = 0 => n * T = 0 BY <1>1
    <3>2. QED BY <1>6, <1>9, <1>10, <1>13, <3>1
  <2>2. n - 1 \in Nat /\ T - s \in Nat /\ T - s < T BY <1>1, <1>6, <1>13, <2>1
  <2>3. T * (n - 1) + (T - s) = n * T - s BY <1>1, <1>6
  <2>4. D * rate = T * (n - 1) + (T - s) BY <1>6, <1>9, <1>10, <2>3
  <2>5. (D * rate) \div T = n - 1 BY <1>1, <2>2, <2>4, DivOf
  <2>6. QED BY <1>3, <1>4, <1>11, <1>13, <2>1, <2>5 DEF D, T
<1>14. QED BY <1>12, <1>13

LEMMA PlaceType ==
  ASSUME Typed, OpenedInv, pc = "idle", NEW n \in 0 .. file.h.total
  PROVE  /\ Place(n) \in 0 .. n
         /\ n - 1 <= Place(n)
         /\ SampleAt(DurationAt(n, file.h.rate), file.h.rate) = Place(n)
<1>1. file \in Files /\ file.h.total \in Nat /\ file.h.rate \in Nat
  BY FileType DEF Typed, TypeOK, HeaderRecords
<1>2. file.h.rate > 0 /\ file.h.rate <= TicksPerSecond
  BY <1>1, RatesAssumption DEF OpenedInv
<1>3. n \in Nat BY <1>1
<1>4. QED BY <1>1, <1>2, <1>3, RoundTrip DEF Place

\* A range in the order of the stream is refused for its table only.
LEMMA RangeAnswers ==
  ASSUME AudioInv, OpenedInv, NEW mode \in {"lazy", "eager"}, NEW a \in Nat, NEW b \in Nat,
         a <= b, b <= file.h.total, SampleRange(mode, a, b)
  PROVE  IF pc' = "returned" THEN item' = "SeekTableUnreliable"
         ELSE call' = [start |-> a * Nch, stop |-> b * Nch]
<1>0. TypeOK /\ TableInv /\ pc = "idle" BY DEF AudioInv, Typed, SampleRange
<1>1. file.h \in HeaderRecords /\ file.h.total \in Nat
  BY <1>0, FileType DEF TypeOK, HeaderRecords
<1>2. file.h.rate > 0 BY <1>0 DEF OpenedInv
<1>3. \A iter : Iterate(mode, iter, a * Nch, b * Nch) =>
        pc' # "returned" /\ call' = [start |-> a * Nch, stop |-> b * Nch]
  BY DEF Iterate, Reset
<1>4. CASE a = b BY <1>1, <1>3, <1>4 DEF SampleRange
<1>5. CASE a # b
  <2>1. a < file.h.total BY <1>1, <1>5
  <2>2. RegularFrameSamples(file.h) # 0 /\ SeekFrame(file.h, a) < Count
    <3>1. RegularFrameSamples(file.h) > 0 BY <1>1, <1>2, <2>1, SampleHasFrame
    <3>2. RegularFrameSamples(file.h) \in Nat BY <1>1, GeometryType
    <3>3. QED BY <1>1, <1>2, <2>1, <3>1, <3>2, SampleHasFrame DEF Count
  <2>3. SeekFrame(file.h, a) \in Nat /\ Count \in Nat
    BY <1>1, <2>2, DivMod, GeometryType DEF SeekFrame, Count
  <2>4. Len(dec.frames) = Count BY <1>0 DEF TableInv
  <2>5. SeekError(a) \in {NoError, "SeekTableUnreliable"}
    BY <1>1, <2>1, <2>2, <2>3, <2>4 DEF SeekError
  <2>6. \/ Answer(SeekError(a), <<>>, 0, 0) /\ SeekError(a) # NoError
        \/ \E iter : Iterate(mode, iter, a * Nch, b * Nch)
    BY <1>1, <1>5 DEF SampleRange
  <2>7. QED BY <1>3, <2>5, <2>6 DEF Answer
<1>6. QED BY <1>4, <1>5

\* A range between two samples' durations begins and ends at those samples, or
\* one before where the clock cannot hold the moment.
THEOREM TimeKeepsItsPlaceCorrect == Spec => TimeKeepsItsPlace
<1> DEFINE Kept ==
      pc = "idle" => \A mode \in {"lazy", "eager"} : \A a, b \in 0 .. file.h.total :
        a <= b /\ TimeRange(mode, DurationAt(a, file.h.rate), DurationAt(b, file.h.rate))
          => IF pc' = "returned" THEN item' = "SeekTableUnreliable"
             ELSE call' = [start |-> Place(a) * Nch, stop |-> Place(b) * Nch]
<1>1. AudioInv /\ OpenedInv => Kept
  <2> SUFFICES ASSUME AudioInv, OpenedInv, NEW mode \in {"lazy", "eager"},
                      NEW a \in 0 .. file.h.total, NEW b \in 0 .. file.h.total, a <= b,
                      TimeRange(mode, DurationAt(a, file.h.rate), DurationAt(b, file.h.rate))
               PROVE  IF pc' = "returned" THEN item' = "SeekTableUnreliable"
                      ELSE call' = [start |-> Place(a) * Nch, stop |-> Place(b) * Nch]
    OBVIOUS
  <2>1. pc = "idle" BY DEF TimeRange, SampleRange
  <2>2. Typed BY DEF AudioInv
  <2>3. /\ Place(a) \in 0 .. a /\ Place(b) \in 0 .. b /\ b - 1 <= Place(b)
        /\ SampleRange(mode, Place(a), Place(b))
    BY <2>1, <2>2, PlaceType DEF TimeRange
  <2>4. file.h.total \in Nat BY <2>2, FileType DEF Typed, TypeOK, HeaderRecords
  <2>5. Place(a) <= Place(b) /\ Place(b) <= file.h.total /\ Place(a) \in Nat /\ Place(b) \in Nat
    <3>1. CASE a = b BY <2>3, <2>4, <3>1
    <3>2. CASE a # b BY <2>3, <2>4, <3>2
    <3>3. QED BY <3>1, <3>2
  <2>6. QED BY <2>3, <2>5, RangeAnswers
<1>2. QED
  BY <1>1, InitAudio, StepAudio, InitOpened, StepOpened, PTL DEF Spec, TimeKeepsItsPlace

-----------------------------------------------------------------------------
(***************************************************************************)
(* The typed views.  They recompute what the parser and the decoder know:  *)
(* each lemma is one of the places where the two computations meet.        *)
(***************************************************************************)
LEMMA FirstOfFour ==
  ASSUME NEW a, NEW b, NEW c, NEW d
  PROVE  FirstError(<<a, b, c, d>>) =
           IF a # NoError THEN a ELSE IF b # NoError THEN b
           ELSE IF c # NoError THEN c ELSE d
<1> DEFINE e == <<a, b, c, d>>
           First(i) == e[i] # NoError /\ \A j \in 1 .. i - 1 : e[j] = NoError
           k == CHOOSE i \in DOMAIN e : First(i)
<1>1. DOMAIN e = 1 .. 4 /\ e[1] = a /\ e[2] = b /\ e[3] = c /\ e[4] = d OBVIOUS
<1>2. FirstError(e) = IF \A i \in DOMAIN e : e[i] = NoError THEN NoError ELSE e[k]
  BY DEF FirstError
<1>3. \A i, j \in 1 .. 4 : First(i) /\ First(j) => i = j
  <2>1. \A i, j \in 1 .. 4 : First(i) /\ First(j) => ~(i < j) OBVIOUS
  <2>2. QED BY <2>1
<1>4. ASSUME NEW i \in 1 .. 4, First(i) PROVE k = i
  <2>1. First(k) /\ k \in 1 .. 4 BY <1>1, <1>4
  <2>2. QED BY <1>3, <1>4, <2>1
<1> HIDE DEF k
<1>5. CASE a # NoError
  <2>1. First(1) BY <1>1, <1>5
  <2>2. k = 1 BY <1>4, <2>1
  <2>3. QED BY <1>1, <1>2, <1>5, <2>2
<1>6. CASE a = NoError /\ b # NoError
  <2>1. First(2) BY <1>1, <1>6
  <2>2. k = 2 BY <1>4, <2>1
  <2>3. QED BY <1>1, <1>2, <1>6, <2>2
<1>7. CASE a = NoError /\ b = NoError /\ c # NoError
  <2>1. First(3) BY <1>1, <1>7
  <2>2. k = 3 BY <1>4, <2>1
  <2>3. QED BY <1>1, <1>2, <1>7, <2>2
<1>8. CASE a = NoError /\ b = NoError /\ c = NoError /\ d # NoError
  <2>1. First(4) BY <1>1, <1>8
  <2>2. k = 4 BY <1>4, <2>1
  <2>3. QED BY <1>1, <1>2, <1>8, <2>2
<1>9. CASE a = NoError /\ b = NoError /\ c = NoError /\ d = NoError
  BY <1>1, <1>2, <1>9
<1>10. QED BY <1>5, <1>6, <1>7, <1>8, <1>9

LEMMA MaxRateType == MAX_SAMPLE_RATE \in Nat
  BY SMT DEF MAX_SAMPLE_RATE

\* Lifting a header fails exactly where, and as, parsing it does.
LEMMA HeaderLifts == ASSUME TypeOK PROVE HeaderViewAgrees
<1>1. file.h \in HeaderRecords BY FileType DEF TypeOK
<1> DEFINE h == file.h
           g == [file.h EXCEPT !.magic = TRUE, !.crc = TRUE]
<1>2. /\ g.magic /\ g.crc /\ g.format = h.format /\ g.channels = h.channels
      /\ g.bps = h.bps /\ g.rate = h.rate
  BY <1>1 DEF HeaderRecords
<1>3. h.format \in Nat /\ h.channels \in Nat /\ h.bps \in Nat /\ h.rate \in Nat
  BY <1>1 DEF HeaderRecords
<1>4. HeaderError(HEADER_LEN, g) =
        IF h.format \notin {1, 2} THEN "UnsupportedFormat"
        ELSE IF h.channels \notin 1 .. MAX_NCH THEN "UnsupportedChannelCount"
        ELSE IF h.bps \notin 16 .. 24 THEN "UnsupportedBitDepth"
        ELSE IF h.rate \notin 1 .. MAX_SAMPLE_RATE THEN "UnsupportedSampleRate"
        ELSE NoError
  <2> HIDE DEF g
  <2>1. QED BY <1>2 DEF HeaderError, HEADER_LEN
<1>5. /\ FormatError(h.format) = IF h.format \notin {1, 2} THEN "UnsupportedFormat" ELSE NoError
      /\ ChannelCountError(h.channels) =
           IF h.channels \notin 1 .. MAX_NCH THEN "UnsupportedChannelCount" ELSE NoError
      /\ BitsPerSampleError(h.bps) =
           IF h.bps \notin 16 .. 24 THEN "UnsupportedBitDepth" ELSE NoError
      /\ SampleRateError(h.rate) =
           IF h.rate \notin 1 .. MAX_SAMPLE_RATE THEN "UnsupportedSampleRate" ELSE NoError
  BY <1>3, MaxRateType DEF FormatError, ChannelCountError, BitsPerSampleError, SampleRateError
<1>6. FromHeaderError(h) =
        IF FormatError(h.format) # NoError THEN FormatError(h.format)
        ELSE IF ChannelCountError(h.channels) # NoError THEN ChannelCountError(h.channels)
        ELSE IF BitsPerSampleError(h.bps) # NoError THEN BitsPerSampleError(h.bps)
        ELSE SampleRateError(h.rate)
  BY FirstOfFour DEF FromHeaderError
<1> HIDE DEF g, h
<1>7. FromHeaderError(h) = HeaderError(HEADER_LEN, g) BY <1>4, <1>5, <1>6 DEF NoError
<1>8. QED BY <1>7 DEF HeaderViewAgrees, g, h

\* The geometry's triple sums up to the stream, and no frame of it is empty.
LEMMA GeometrySums ==
  ASSUME NEW h \in HeaderRecords, h.rate > 0
  PROVE  /\ GeometryTotal(frame_geometry_typed(h)) = h.total
         /\ SeekTableSizeBytes(frame_geometry_typed(h)) = SeekTableLen(h)
         /\ \A i \in Nat : i < FrameCount(h) =>
              /\ FrameSamplesAt(frame_geometry_typed(h), i) = FrameSamples(h, i)
              /\ FrameSamples(h, i) > 0
<1> DEFINE R == RegularFrameSamples(h)
           g == frame_geometry_typed(h)
           c == FrameCount(h)
           l == LastFrameSamples(h)
<1>1. R \in Nat /\ h.total \in Nat /\ c \in Nat /\ l \in Nat
  BY GeometryType DEF HeaderRecords
<1>2. g = [frame_count |-> c, regular |-> R, last |-> l] BY DEF frame_geometry_typed
<1>3. \A i : FrameSamplesAt(g, i) = FrameSamples(h, i)
  BY <1>2 DEF FrameSamplesAt, FrameSamples
<1>4. SeekTableSizeBytes(g) = SeekTableLen(h)
  <2>1. c * 4 + 4 = 4 * c + 4 BY <1>1
  <2>2. QED BY <1>2, <2>1 DEF SeekTableSizeBytes, SeekTableLen
<1>5. GeometryTotal(g) = h.total
  <2>1. CASE c = 0
    <3>1. ~(0 < h.total)
      <4>1. 0 < h.total => SeekFrame(h, 0) < c /\ SeekFrame(h, 0) = 0 \div R /\ R > 0
        BY SampleHasFrame DEF SeekFrame
      <4>2. 0 < h.total => 0 \div R \in Nat BY <1>1, <4>1, DivMod
      <4>3. QED BY <1>1, <2>1, <4>1, <4>2
    <3>2. QED BY <1>1, <1>2, <2>1, <3>1 DEF GeometryTotal
  <2>2. CASE c # 0
    <3>1. c - 1 \in Nat /\ (c - 1) + 1 = c /\ c - 1 < c BY <1>1, <2>2
    <3>2. (c - 1) * R + FrameSamples(h, c - 1) = h.total BY <3>1, GeometryTiles
    <3>3. FrameSamples(h, c - 1) = l BY <3>1 DEF FrameSamples
    <3>4. QED BY <1>2, <2>2, <3>2, <3>3 DEF GeometryTotal
  <2>3. QED BY <2>1, <2>2
<1>6. ASSUME NEW i \in Nat, i < c PROVE FrameSamples(h, i) > 0
  <2>1. R > 0 BY <1>6, GeometryTiles
  <2>2. h.total # 0 BY <1>6 DEF FrameCount, FrameGeometry
  <2>3. h.total % R \in Nat BY <1>1, <2>1, DivMod
  <2>4. l > 0
    BY <1>1, <2>1, <2>2, <2>3 DEF LastFrameSamples, FrameGeometry
  <2>5. QED BY <2>1, <2>4 DEF FrameSamples
<1>7. QED BY <1>3, <1>4, <1>5, <1>6

\* The entries of frame i end where those of frame i + 1 start, the last ones
\* with the stream.
LEMMA FrameStartNext ==
  ASSUME TypeOK, NEW i \in Nat, i < Count
  PROVE  FrameStart(i) + FrameSamples(file.h, i) * Nch = FrameStart(i + 1)
         /\ (i + 1 = Count => FrameStart(i + 1) = TotalEntries)
<1> DEFINE R == RegularFrameSamples(file.h)
           s == FrameSamples(file.h, i)
           n == s * Nch
<1>0. i + 1 \in Nat /\ file \in Files BY DEF TypeOK
<1>1. /\ R \in Nat /\ s \in Nat /\ Nch \in Nat /\ file.h \in HeaderRecords /\ Count \in Nat
      /\ TotalEntries \in Nat /\ file.h.total \in Nat /\ FrameStart(i + 1) \in Nat
  <2>1. /\ s \in Nat /\ Nch \in Nat /\ file.h \in HeaderRecords /\ Count \in Nat
        /\ TotalEntries \in Nat /\ FrameStart(i + 1) \in Nat
    BY <1>0, FileType
  <2>2. R \in Nat BY <2>1, GeometryType
  <2>3. file.h.total \in Nat BY <2>1 DEF HeaderRecords
  <2>4. QED BY <2>1, <2>2, <2>3
<1>2. /\ n \in Nat /\ i * FrameEntries \in Nat
      /\ i + 1 < Count => (i + 1) * FrameEntries = i * FrameEntries + n
      /\ FrameStart(i) = i * FrameEntries
      /\ i * FrameEntries + n <= FrameStart(i + 1)
  BY EntriesTile
<1>3. CASE i + 1 < Count
  <2>1. i + 1 \in Nat OBVIOUS
  <2>2. FrameStart(i + 1) = (i + 1) * FrameEntries BY <1>3, <2>1, EntriesTile
  <2> HIDE DEF n
  <2>3. FrameStart(i) + n = FrameStart(i + 1) BY <1>2, <1>3, <2>2
  <2>4. QED BY <1>3, <2>3 DEF n, s
<1>4. CASE i + 1 = Count
  <2>1. i * R + s = file.h.total BY <1>1, <1>4, GeometryTiles DEF Count
  <2>2. FrameEntries = R * Nch /\ TotalEntries = file.h.total * Nch
    BY DEF FrameEntries, TotalEntries
  <2> HIDE DEF R, s
  <2>3. (i * R + s) * Nch = i * (R * Nch) + s * Nch BY <1>1
  <2>4. i * FrameEntries + n = TotalEntries BY <2>1, <2>2, <2>3
  <2>5. FrameStart(i + 1) <= TotalEntries
    <3>1. (i + 1) * FrameEntries \in Nat
      <4>1. FrameEntries \in Nat BY <1>1, <2>2, ProductInNat
      <4>2. QED BY <4>1, ProductInNat
    <3>2. QED BY <1>1, <3>1 DEF FrameStart, Least
  <2> HIDE DEF n
  <2>6. FrameStart(i + 1) = TotalEntries BY <1>1, <1>2, <2>4, <2>5
  <2>7. QED BY <1>2, <2>4, <2>6 DEF n, s
<1>5. QED BY <1>1, <1>3, <1>4

LEMMA FrameStartEnd ==
  ASSUME TypeOK, file.h.rate > 0
  PROVE  FrameStart(Count) = TotalEntries /\ FrameStart(0) = 0
<1>1. /\ file.h \in HeaderRecords /\ Count \in Nat /\ TotalEntries \in Nat
      /\ FrameEntries \in Nat /\ Nch \in Nat
  BY FileType, ProductInNat DEF TypeOK
<1>2. 0 * FrameEntries = 0 BY <1>1
<1>3. FrameStart(0) = 0 BY <1>1, <1>2 DEF FrameStart, Least
<1>4. CASE Count = 0
  <2>1. GeometryTotal(frame_geometry_typed(file.h)) = file.h.total BY <1>1, GeometrySums
  <2>2. file.h.total = 0 BY <1>4, <2>1 DEF GeometryTotal, frame_geometry_typed, Count
  <2>3. TotalEntries = 0 BY <1>1, <2>2 DEF TotalEntries
  <2>4. QED BY <1>3, <1>4, <2>3
<1>5. CASE Count # 0
  <2>1. Count - 1 \in Nat /\ Count - 1 < Count /\ (Count - 1) + 1 = Count BY <1>1, <1>5
  <2> DEFINE i == Count - 1
  <2>2. i + 1 = Count => FrameStart(i + 1) = TotalEntries BY <2>1, FrameStartNext
  <2>3. QED BY <1>3, <2>1, <2>2
<1>6. QED BY <1>4, <1>5

\* How much decode_all has gathered when its cursor stands on a frame.
CountInv ==
  /\ item = "Ok" => pc = "returned"
  /\ pc = "eager" /\ it.kind = "frames" =>
       it.next <= Count /\ Len(collected) = FrameStart(it.next)
  /\ pc = "returned" /\ it.kind = "frames" /\ item = "Ok" => Len(collected) = TotalEntries

LEMMA InitCount == Init => CountInv
  BY DEF Init, CountInv

\* A turn of decode_all gathers the frame under the cursor, or ends.
LEMMA CollectCounts == ASSUME AudioInv, OpenedInv, CountInv, Collect PROVE CountInv'
<1> DEFINE r == FrameNext(it)
<1>0. /\ TypeOK /\ Typed /\ TableInv /\ pc = "eager" BY DEF AudioInv, Typed, Collect
<1>1. /\ it' = IterNext(it).it
      /\ item' = IF IterNext(it).item = "End" THEN "Ok" ELSE IterNext(it).item
      /\ collected' = IF IterNext(it).item = FrameError THEN <<>>
                      ELSE collected \o IterNext(it).pcm
      /\ pc' = IF IterNext(it).item = "Pcm" THEN "eager" ELSE "returned"
      /\ file' = file /\ dec' = dec
  BY DEF Collect
<1>2. it.kind # "none" BY <1>0 DEF Typed, HasIterator
<1>3. IterNext(it).item \in {"End", "Pcm", FrameError} /\ it'.kind = it.kind
  BY <1>0, <1>1, <1>2, IterNextType, IterNextKind DEF Turns
<1>4. item' = "Ok" => pc' = "returned" /\ IterNext(it).item = "End"
  BY <1>1, <1>3 DEF FrameError
<1>5. CASE it.kind # "frames" BY <1>1, <1>3, <1>4, <1>5 DEF CountInv
<1>6. CASE it.kind = "frames"
  <2>1. IterNext(it) = r BY <1>6 DEF IterNext
  <2>2. /\ it.next \in Nat /\ it.next <= Count /\ Len(collected) = FrameStart(it.next)
        /\ collected \in Seq(Int) /\ Len(dec.frames) = Count /\ it \in Iterators
    BY <1>0, <1>6 DEF CountInv, TypeOK, TableInv, Iterators
  <2>3. /\ Count \in Nat /\ Nch \in Nat /\ TotalEntries \in Nat
        /\ Count' = Count /\ TotalEntries' = TotalEntries
        /\ \A i : FrameStart(i)' = FrameStart(i)
    BY <1>0, <1>1, FileType DEF TypeOK, Count, TotalEntries, Nch, FrameStart, FrameEntries
  <2>4. CASE it.next = Count
    <3>1. r.item = "End" /\ r.pcm = <<>> BY <2>2, <2>3, <2>4 DEF FrameNext
    <3>2. collected' = collected /\ pc' = "returned"
      BY <1>1, <2>1, <2>2, <3>1 DEF FrameError
    <3>3. FrameStart(Count) = TotalEntries BY <1>0, FrameStartEnd DEF OpenedInv
    <3>4. QED BY <1>4, <2>2, <2>3, <2>4, <3>2, <3>3 DEF CountInv
  <2>5. CASE it.next < Count
    <3> DEFINE i == it.next
               d == dec.frames[i + 1]
    <3>1. d \in Descriptors /\ d.samples = FrameSamples(file.h, i)
      <4>1. i + 1 \in 1 .. Len(dec.frames) /\ (i + 1) - 1 = i BY <2>2, <2>3, <2>5
      <4>2. QED BY <1>0, <4>1 DEF TypeOK, TableInv
    <3>2. CASE Undecodable(file, d)
      <4>1. r.item = FrameError BY <2>2, <2>3, <2>5, <3>2 DEF FrameNext
      <4>2. pc' = "returned" /\ item' # "Ok" BY <1>1, <2>1, <4>1 DEF FrameError
      <4>3. QED BY <4>2 DEF CountInv
    <3>3. CASE ~Undecodable(file, d)
      <4>1. r.item = "Pcm" /\ r.pcm = DecodeFrame(d) /\ r.it.next = i + 1
        BY <2>2, <2>3, <2>5, <3>3 DEF FrameNext, Iterators
      <4>2. DecodeFrame(d) \in Seq(Int) /\ Len(DecodeFrame(d)) = FrameSamples(file.h, i) * Nch
        BY <1>0, <3>1, <3>3, DecodeFrameType
      <4>3. FrameStart(i) + FrameSamples(file.h, i) * Nch = FrameStart(i + 1)
        BY <1>0, <2>2, <2>5, FrameStartNext
      <4>4. /\ collected' = collected \o DecodeFrame(d) /\ pc' = "eager" /\ item' = "Pcm"
            /\ it'.next = i + 1
        BY <1>1, <2>1, <4>1 DEF FrameError
      <4> HIDE DEF d
      <4>5. Len(collected') = FrameStart(i + 1)
        <5>1. \A a, b \in Seq(Int) : Len(a \o b) = Len(a) + Len(b) OBVIOUS
        <5>2. Len(collected \o DecodeFrame(d)) = Len(collected) + Len(DecodeFrame(d))
          BY <2>2, <4>2, <5>1
        <5>3. QED BY <2>2, <4>2, <4>3, <4>4, <5>2
      <4>6. QED BY <2>2, <2>3, <2>5, <4>4, <4>5 DEF CountInv
    <3>4. QED BY <3>2, <3>3
  <2>6. QED BY <2>2, <2>3, <2>4, <2>5
<1>7. QED BY <1>5, <1>6

LEMMA StepCount == AudioInv /\ OpenedInv /\ CountInv /\ [Next]_vars => CountInv'
<1> SUFFICES ASSUME AudioInv, OpenedInv, CountInv, [Next]_vars PROVE CountInv' OBVIOUS
<1>0. TypeOK /\ Typed BY DEF AudioInv, Typed
<1>1. CASE Collect BY <1>1, CollectCounts
<1>2. CASE Poll
  <2>1. pc' = "lazy" /\ item' = IterNext(it).item BY <1>2 DEF Poll
  <2>2. it.kind # "none" BY <1>0, <1>2 DEF Poll, Typed, HasIterator
  <2>3. item' # "Ok" BY <1>0, <2>1, <2>2, IterNextType DEF Turns, FrameError
  <2>4. QED BY <2>1, <2>3 DEF CountInv
<1>3. CASE DecodeAll
  <2>1. pc' = "eager" /\ item' = "None" /\ collected' = <<>> /\ it' = FramesFrom(0)
        /\ file' = file /\ dec' = dec /\ pc = "idle"
    BY <1>3 DEF DecodeAll, Iterate, Reset
  <2>2. Len(dec.frames) \in Nat /\ Count \in Nat BY <1>0, FileType DEF TypeOK
  <2>3. it'.next = 0 BY <2>1, <2>2 DEF FramesFrom, NoIter, Least
  <2>4. FrameStart(0)' = 0 /\ Count' = Count
    <3>1. FrameStart(0) = 0 BY <1>0, <2>1, FrameStartEnd DEF OpenedInv
    <3>2. QED BY <2>1, <3>1 DEF FrameStart, FrameEntries, TotalEntries, Nch, Count
  <2>5. Len(<<>>) = 0 OBVIOUS
  <2>6. QED BY <2>1, <2>2, <2>3, <2>4, <2>5 DEF CountInv
\* Any other call hands out an iterator of another kind, or to the caller.
<1>4. \A mode, iter, start, stop :
        Iterate(mode, iter, start, stop) /\ (mode = "lazy" \/ iter.kind # "frames")
          /\ mode \in {"lazy", "eager"} => CountInv'
  BY DEF Iterate, Reset, CountInv
<1>5. \A answer, pcm, start, stop : Answer(answer, pcm, start, stop) => CountInv'
  BY DEF Answer, CountInv, NoIter
<1>6. ASSUME NEW k, FrameIterFrom(k) PROVE CountInv' BY <1>4, <1>6 DEF FrameIterFrom
<1>7. ASSUME NEW k, DecodeFrameAt(k) PROVE CountInv' BY <1>5, <1>7 DEF DecodeFrameAt
<1>8. ASSUME NEW mode \in {"lazy", "eager"}, NEW s \in Nat, FromSample(mode, s) PROVE CountInv'
  <2>1. CASE SeekError(s) # NoError BY <1>5, <1>8, <2>1 DEF FromSample
  <2>2. CASE SeekError(s) = NoError
    <3>1. SkipFrom(s).kind = "skip" BY <1>0, <2>2, SkipFromType
    <3>2. QED BY <1>4, <1>8, <2>2, <3>1 DEF FromSample
  <2>3. QED BY <2>1, <2>2
<1>9. ASSUME NEW mode \in {"lazy", "eager"}, NEW a \in Nat, NEW b \in Nat, SampleRange(mode, a, b)
      PROVE CountInv'
  <2>1. FramesFrom(Len(dec.frames)) \in Iterators BY <1>0, FramesFromType DEF TypeOK
  <2>2. [FramesFrom(Len(dec.frames)) EXCEPT !.kind = "range"].kind = "range"
    BY <2>1 DEF Iterators
  <2>3. SeekError(a) = NoError => SkipFrom(a) \in Iterators BY <1>0, SkipFromType
  <2>4. SeekError(a) = NoError =>
          [SkipFrom(a) EXCEPT !.kind = "range", !.left = (b - a) * Nch].kind = "range"
    BY <2>3 DEF Iterators
  <2>5. QED BY <1>4, <1>5, <1>9, <2>2, <2>4 DEF SampleRange
<1>10. CASE Release BY <1>10 DEF Release, Reset, CountInv
<1>11. ASSUME NEW p, OpenRefused(p) \/ Open(p) PROVE CountInv'
  <2>1. OpenError(p) # "Ok" BY DEF OpenError, HeaderError, NoError
  <2>2. QED BY <1>11, <2>1 DEF OpenRefused, Open, CountInv
<1>12. CASE PushDescriptor \/ FinishTable
  BY <1>12 DEF PushDescriptor, FinishTable, CountInv
<1>13. CASE UNCHANGED vars
  BY <1>13 DEF vars, CountInv, Count, FrameStart, FrameEntries, TotalEntries, Nch
<1>14. SampleArgs \subseteq Nat /\ \A t \in TimeArgs : SampleAt(t, file.h.rate) \in Nat
  BY <1>0, ArgsType
<1>15. ASSUME NEW s, SeekToSample(s) PROVE CountInv' BY <1>5, <1>15 DEF SeekToSample
<1>16. QED
  BY <1>1, <1>2, <1>3, <1>6, <1>7, <1>8, <1>9, <1>10, <1>11, <1>12, <1>13, <1>14, <1>15
  DEF Next, FromTime, TimeRange

\* The views agree with the parser and the decoder, on every stream.
THEOREM ViewsAgreeCorrect == Spec => []ViewsAgree
<1>1. AudioInv /\ OpenedInv /\ CountInv => ViewsAgree
  <2> SUFFICES ASSUME AudioInv, OpenedInv, CountInv PROVE ViewsAgree OBVIOUS
  <2> DEFINE g == frame_geometry_typed(file.h)
  <2>0. TypeOK /\ TableInv /\ file.h \in HeaderRecords
    BY FileType DEF AudioInv, Typed, TypeOK
  <2>1. HeaderViewAgrees BY <2>0, HeaderLifts
  <2>2. ASSUME pc \notin {"closed", "refused"}
        PROVE  /\ GeometryTotal(g) = file.h.total
               /\ DataStart(file) = file.id3 + HEADER_LEN + SeekTableSizeBytes(g)
               /\ \A j \in DOMAIN dec.frames : FrameViewAgrees(g, j)
    <3>1. file.h.rate > 0 BY <2>2 DEF OpenedInv
    <3>2. GeometryTotal(g) = file.h.total /\ SeekTableSizeBytes(g) = SeekTableLen(file.h)
      BY <2>0, <3>1, GeometrySums
    <3>3. ASSUME NEW j \in DOMAIN dec.frames PROVE FrameViewAgrees(g, j)
      <4>1. j \in 1 .. Len(dec.frames) /\ j - 1 \in Nat /\ j - 1 < Count
        <5>1. dec.frames \in Seq(Descriptors) /\ Len(dec.frames) <= Count /\ file \in Files
          BY <2>0 DEF TypeOK
        <5>2. Count \in Nat BY <5>1, FileType
        <5>3. QED BY <5>1, <5>2
      <4>2. dec.frames[j].samples = FrameSamples(file.h, j - 1) BY <2>0, <4>1 DEF TableInv
      <4>3. FrameSamplesAt(g, j - 1) = FrameSamples(file.h, j - 1)
            /\ FrameSamples(file.h, j - 1) > 0
        BY <2>0, <3>1, <4>1, GeometrySums DEF Count
      <4>4. FrameByteLengthError(dec.frames[j].disk) # NoError
              => Undecodable(file, dec.frames[j])
        BY DEF FrameByteLengthError, Undecodable
      <4>5. FrameSampleCountError(dec.frames[j].samples) = NoError
        BY <4>2, <4>3 DEF FrameSampleCountError
      <4> HIDE DEF g
      <4>6. QED BY <4>2, <4>3, <4>4, <4>5 DEF FrameViewAgrees
    <3>4. QED BY <3>2, <3>3 DEF DataStart
  <2>3. ASSUME pc = "idle", NEW s \in SampleArgs, SeekError(s) = NoError
        PROVE  SeekViewAgrees(g, s)
    <3>1. s \in Nat BY <2>0, ArgsType
    <3>2. file.h.rate > 0 BY <2>3 DEF OpenedInv
    <3> DEFINE k == SeekFrame(file.h, s)
               o == SeekOffset(file.h, s)
    <3>3. /\ s < file.h.total /\ k < Count
          /\ SkipFrom(s) = [kind |-> "skip", next |-> k, skip |-> o * Nch, left |-> 0]
      BY <2>0, <2>3, <3>1, SeekLands
    <3>4. /\ k \in Nat /\ o \in Nat /\ o < RegularFrameSamples(file.h)
          /\ o < FrameSamples(file.h, k) /\ k * RegularFrameSamples(file.h) + o = s
      BY <2>0, <3>1, <3>2, <3>3, SeekInside
    <3>5. FrameSamplesAt(g, k) = FrameSamples(file.h, k)
      BY <2>0, <3>2, <3>3, <3>4, GeometrySums DEF Count
    <3>6. g.regular = RegularFrameSamples(file.h) BY DEF frame_geometry_typed
    <3>7. Len(dec.frames) = Count /\ Count \in Nat /\ RegularFrameSamples(file.h) \in Nat
      BY <2>0, <2>3, FileType, GeometryType DEF TableInv, TypeOK
    <3> DEFINE p == SeekPointOf(file.h, s)
    <3>8. p = [frame |-> k, offset |-> o] BY DEF SeekPointOf
    <3> HIDE DEF k, o, g
    <3>9. p.frame = k /\ p.offset = o BY <3>8
    <3> HIDE DEF p
    <3>10. /\ FrameIndexError(p.frame, Len(dec.frames)) = NoError
           /\ InFrameSampleOffsetError(p.offset, g.regular) = NoError
      BY <3>3, <3>4, <3>6, <3>7, <3>9 DEF FrameIndexError, InFrameSampleOffsetError
    <3>11. SkipFrom(s).skip = interleaved_skip(p.offset, Nch)
      BY <3>3, <3>9 DEF interleaved_skip
    <3>12. QED BY <3>4, <3>5, <3>6, <3>9, <3>10, <3>11 DEF SeekViewAgrees, p
  <2>4. ASSUME it.kind = "frames", item = "Ok"
        PROVE  Len(collected) * byte_depth(file.h) = pcm_byte_len(file.h)
    <3>1. Len(collected) = TotalEntries BY <2>4 DEF CountInv
    <3>2. QED BY <3>1 DEF pcm_byte_len, TotalEntries, Nch
  <2> HIDE DEF g
  <2>5. QED BY <2>1, <2>2, <2>3, <2>4 DEF ViewsAgree, g
<1>2. QED
  BY <1>1, InitAudio, StepAudio, InitOpened, StepOpened, InitCount, StepCount, PTL DEF Spec

-----------------------------------------------------------------------------
(***************************************************************************)
(* Stopping.  Whatever the seek table and the key, a read comes up short   *)
(* only at a frame that does not decode: what is counted here is entries,  *)
(* not the audio in them.  With an intact table a window is the frame the  *)
(* writer placed there, so these frames are the damaged ones.  Ahead       *)
(* relates an iterator to the number of entries handed out so far: either  *)
(* it is about to decode the frame that holds the next requested entry, or *)
(* all of the request has been handed out.                                 *)
(***************************************************************************)
Ahead(i, at) ==
  IF i.next < Count /\ (i.kind = "range" => i.left > 0)
  THEN /\ FrameStart(i.next) + i.skip = at
       /\ i.skip < FrameSamples(file.h, i.next) * Nch
       /\ i.skip > 0 => at = call.start
       /\ i.kind = "frames" => i.skip = 0
       /\ IF i.kind = "range" THEN at + i.left = call.stop ELSE call.stop = TotalEntries
  ELSE at = call.stop

Good(w) == ~Undecodable(file, dec.frames[w + 1])
Failures == {w \in FrameIds(file) : ~Good(w) /\ Requested(w)}
AtFailure(at) == \E w \in Failures : at = FirstRequested(w)

\* What a turn does to an iterator that stands at entry `at'.
TurnStops(r, at) ==
  \/ r.item = "Pcm" /\ Ahead(r.it, at + Len(r.pcm))
  \/ r.item = "End" /\ r.pcm = <<>> /\ at = call.stop
  \/ r.item = FrameError /\ r.pcm = <<>> /\ AtFailure(at)

\* A healthy frame in its own window decodes, a damaged one does not.
LEMMA DamageDecides ==
  ASSUME TypeOK, TableInv, TableIntact(file), NEW w \in Nat, w < Len(dec.frames)
  PROVE  Undecodable(file, dec.frames[w + 1]) <=> Damaged(file, w)
<1> DEFINE d == dec.frames[w + 1]
<1>1. w + 1 \in 1 .. Len(dec.frames) /\ (w + 1) - 1 = w BY DEF TypeOK
<1>2. Count \in Nat /\ w \in 0 .. Count - 1 /\ WellFormed(file)
  <2>1. Count \in Nat /\ WellFormed(file) BY FileType DEF TypeOK
  <2>2. Len(dec.frames) \in Nat /\ Len(dec.frames) <= Count BY DEF TypeOK
  <2>3. QED BY <2>1, <2>2
<1>3. FrameIds(file) = 0 .. Count - 1 BY DEF FrameIds, Count
<1>4. Aligned(w)
  <2>1. file.table = file.size BY DEF TableIntact
  <2>2. QED BY <2>1 DEF Aligned
<1>5. /\ d.disk = file.size[w] /\ d.samples = FrameSamples(file.h, w)
      /\ d.offset = file.place[w]
  BY <1>1, <1>4 DEF TableInv, TableIntact
<1>6. /\ file.size[w] > 4 /\ FrameSamples(file.h, w) * Nch <= 8 * (file.size[w] - 4)
  BY <1>2, <1>3, Zenon DEF WellFormed, Nch
<1>7. file.size[w] \in Nat /\ file.place[w] \in Nat BY <1>2, FileLayout
<1> HIDE DEF d
<1>8. Matching(file, d) = {w}
  <2>1. w \in Matching(file, d) BY <1>2, <1>3, <1>5 DEF Matching
  <2>2. \A v \in Matching(file, d) : v = w
    BY <1>2, <1>3, <1>5, PlaceUnique DEF Matching
  <2>3. QED BY <2>1, <2>2
<1>9. FrameSamples(file.h, w) \in Nat /\ Nch \in Nat BY FileType DEF TypeOK
<1>10. FrameSamples(file.h, w) * Nch \in Nat BY <1>9, ProductInNat
<1>11. ~(d.disk < 4) /\ ~(d.samples * file.h.channels > 8 * (d.disk - 4))
  <2>1. d.samples * file.h.channels = FrameSamples(file.h, w) * Nch BY <1>5 DEF Nch
  <2>2. QED BY <1>5, <1>6, <1>7, <1>10, <2>1
<1>12. file.len \in Nat BY <1>2 DEF WellFormed
<1>13. Undecodable(file, d) <=> w \in file.bad \/ file.place[w] + file.size[w] > file.len
  BY <1>5, <1>7, <1>8, <1>9, <1>11, <1>12 DEF Undecodable
<1>14. QED BY <1>13 DEF Damaged, d

\* The frame under the cursor, as each of the three iterators hands it out.
LEMMA TurnLengths ==
  ASSUME TypeOK, TableInv, Len(dec.frames) = Count, NEW i \in Iterators, i.next < Count,
         i.skip <= FrameSamples(file.h, i.next) * Nch
  PROVE  LET d == dec.frames[i.next + 1]
             n == FrameSamples(file.h, i.next) * Nch
             f == FrameNext(i)
             s == SkipNext(i)
         IN  /\ Undecodable(file, d) => /\ f.item = FrameError /\ f.pcm = <<>>
                                        /\ s.item = FrameError /\ s.pcm = <<>>
             /\ ~Undecodable(file, d) =>
                  /\ f.item = "Pcm" /\ f.pcm \in Seq(Int) /\ Len(f.pcm) = n
                  /\ f.it = [i EXCEPT !.next = i.next + 1]
                  /\ f.pcm = DecodeFrame(d) /\ s.pcm = Drain(f.pcm, i.skip)
                  /\ s.item = "Pcm" /\ s.pcm \in Seq(Int) /\ Len(s.pcm) = n - i.skip
                  /\ s.it = [i EXCEPT !.next = i.next + 1, !.skip = 0]
<1> DEFINE d == dec.frames[i.next + 1]
           n == FrameSamples(file.h, i.next) * Nch
           f == FrameNext(i)
           s == SkipNext(i)
<1>1. i.next \in Nat /\ i.skip \in Nat /\ Count \in Nat /\ Nch \in Nat
  BY FileType DEF TypeOK, Iterators
<1>2. i.next + 1 \in 1 .. Len(dec.frames) /\ (i.next + 1) - 1 = i.next BY <1>1
<1>3. d \in Descriptors /\ d.samples = FrameSamples(file.h, i.next)
  BY <1>2 DEF TypeOK, TableInv
<1>4. n \in Nat BY <1>1, FileType, ProductInNat DEF TypeOK
<1>5. s = IF f.item = "End" THEN f
          ELSE [it |-> [f.it EXCEPT !.skip = 0], item |-> f.item,
                pcm |-> Drain(f.pcm, Least(i.skip, Len(f.pcm)))]
  BY DEF SkipNext
<1>6. CASE Undecodable(file, d)
  <2>1. f.item = FrameError /\ f.pcm = <<>> BY <1>1, <1>6 DEF FrameNext
  <2> HIDE DEF f, s
  <2>2. Least(i.skip, Len(f.pcm)) = 0
    <3>1. Len(f.pcm) = 0 BY <2>1
    <3>2. QED BY <1>1, <3>1 DEF Least
  <2>3. Drain(<<>>, 0) = <<>> BY DEF Drain
  <2>4. s.item = FrameError /\ s.pcm = <<>> BY <1>5, <2>1, <2>2, <2>3 DEF FrameError
  <2>5. QED BY <1>6, <2>1, <2>4 DEF f, s
<1>7. CASE ~Undecodable(file, d)
  <2>1. f = [it |-> [i EXCEPT !.next = i.next + 1], item |-> "Pcm", pcm |-> DecodeFrame(d)]
    BY <1>1, <1>7 DEF FrameNext
  <2>2. DecodeFrame(d) \in Seq(Int) /\ Len(DecodeFrame(d)) = n
    BY <1>3, <1>7, DecodeFrameType
  <2> HIDE DEF f, s, n, d
  <2>3. f.item = "Pcm" /\ f.pcm \in Seq(Int) /\ Len(f.pcm) = n
        /\ f.it = [i EXCEPT !.next = i.next + 1]
    BY <2>1, <2>2
  <2>4. Least(i.skip, Len(f.pcm)) = i.skip
    BY <1>1, <1>4, <2>3 DEF Least, n
  <2>5. Drain(f.pcm, i.skip) \in Seq(Int) /\ Len(Drain(f.pcm, i.skip)) = n - i.skip
    <3>1. i.skip <= Len(f.pcm) BY <2>3 DEF n
    <3>2. QED BY <1>1, <2>3, <3>1 DEF Drain
  <2>6. s = [it |-> [f.it EXCEPT !.skip = 0], item |-> "Pcm", pcm |-> Drain(f.pcm, i.skip)]
    BY <1>5, <2>3, <2>4
  <2>7. s.it = [i EXCEPT !.next = i.next + 1, !.skip = 0]
    <3>1. s.it = [f.it EXCEPT !.skip = 0] BY <2>6
    <3>2. QED BY <2>3, <3>1
  <2>8. f.pcm = DecodeFrame(d) /\ s.pcm = Drain(f.pcm, i.skip) BY <2>1, <2>6
  <2>9. QED BY <1>7, <2>3, <2>5, <2>6, <2>7, <2>8 DEF f, s, n, d
<1>8. QED BY <1>6, <1>7

\* Frame i holds at least one entry of a stream that opened.
LEMMA FrameHolds ==
  ASSUME TypeOK, Nch > 0, file.h.rate > 0, NEW i \in Nat, i < Count
  PROVE  FrameSamples(file.h, i) * Nch > 0 /\ FrameStart(i) < FrameStart(i + 1)
<1>1. /\ FrameSamples(file.h, i) \in Nat /\ Nch \in Nat /\ file.h \in HeaderRecords
      /\ FrameStart(i) \in Nat /\ file \in Files
  BY FileType DEF TypeOK
<1>2. FrameSamples(file.h, i) > 0 BY <1>1, GeometrySums DEF Count
<1>3. \A x, y \in Nat : x > 0 /\ y > 0 => x * y > 0 OBVIOUS
<1>4. FrameSamples(file.h, i) * Nch > 0 BY <1>1, <1>2, <1>3
<1>5. FrameSamples(file.h, i) * Nch \in Nat BY <1>1, ProductInNat
<1> DEFINE n == FrameSamples(file.h, i) * Nch
<1>6. FrameStart(i) + n = FrameStart(i + 1) BY FrameStartNext
<1> HIDE DEF n
<1>7. n > 0 /\ n \in Nat BY <1>4, <1>5 DEF n
<1>8. FrameStart(i) < FrameStart(i + 1) BY <1>1, <1>6, <1>7
<1>9. QED BY <1>4, <1>8

LEMMA TurnAhead ==
  ASSUME Typed, TableInv, Nch > 0, file.h.rate > 0,
         Len(dec.frames) = Count, it.kind # "none", NEW at \in Nat,
         call.start <= at, at <= call.stop, call.stop <= TotalEntries, Ahead(it, at)
  PROVE  TurnStops(IterNext(it), at) /\ at + Len(IterNext(it).pcm) <= call.stop
<1> DEFINE i == it
           r == IterNext(i)
           n == FrameSamples(file.h, i.next) * Nch
           d == dec.frames[i.next + 1]
<1>0. TypeOK BY DEF Typed
<1>1. /\ i \in Iterators /\ i.kind \in {"frames", "skip", "range"}
      /\ i.next \in Nat /\ i.skip \in Nat /\ i.left \in Nat
  BY <1>0 DEF TypeOK, Iterators, IterKinds
<1>2. /\ Count \in Nat /\ call.start \in Nat /\ call.stop \in Nat /\ TotalEntries \in Nat
      /\ file \in Files
  BY <1>0, FileType DEF TypeOK
<1>3. CASE ~(i.next < Count /\ (i.kind = "range" => i.left > 0))
  <2>1. at = call.stop BY <1>3 DEF Ahead
  <2>2. Exhausted(it) BY <1>1, <1>2, <1>3 DEF Exhausted
  <2>3. r.item = "End" /\ r.pcm = <<>> BY <1>0, <2>2, ExhaustedStays
  <2> HIDE DEF r
  <2>4. at + Len(r.pcm) = at BY <2>3
  <2>5. QED BY <1>2, <2>1, <2>3, <2>4 DEF TurnStops, r
<1>4. CASE i.next < Count /\ (i.kind = "range" => i.left > 0)
  <2>1. /\ FrameStart(i.next) + i.skip = at /\ i.skip < n
        /\ i.skip > 0 => at = call.start
        /\ i.kind = "frames" => i.skip = 0
        /\ IF i.kind = "range" THEN at + i.left = call.stop ELSE call.stop = TotalEntries
    BY <1>4 DEF Ahead
  <2>2. /\ n \in Nat /\ FrameStart(i.next) \in Nat /\ FrameStart(i.next + 1) \in Nat
        /\ FrameStart(i.next) + n = FrameStart(i.next + 1)
        /\ FrameStart(i.next + 1) <= TotalEntries
        /\ i.next + 1 = Count => FrameStart(i.next + 1) = TotalEntries
    <3>0. i.next + 1 \in Nat BY <1>1
    <3>1. FrameSamples(file.h, i.next) \in Nat /\ Nch \in Nat /\ i.next + 1 \in Nat
      <4>1. FrameSamples(file.h, i.next) \in Nat BY <1>1, <1>2, FileType
      <4>2. QED BY <1>2, <3>0, <4>1, FileType
    <3>2. n \in Nat BY <3>1, ProductInNat
    <3>3. FrameStart(i.next) \in Nat /\ FrameStart(i.next + 1) \in Nat
      BY <1>1, <1>2, <3>1, FileType
    <3>4. FrameStart(i.next + 1) <= TotalEntries
      <4>1. FrameEntries \in Nat BY <1>2, FileType
      <4>2. (i.next + 1) * FrameEntries \in Nat BY <3>1, <4>1, ProductInNat
      <4>3. QED BY <1>2, <4>2 DEF FrameStart, Least
    <3>5. QED BY <1>0, <1>1, <1>4, <3>2, <3>3, <3>4, FrameStartNext
  <2>3. i.skip <= n BY <1>1, <2>1, <2>2
  <2>4. /\ Undecodable(file, d) =>
             /\ FrameNext(i).item = FrameError /\ FrameNext(i).pcm = <<>>
             /\ SkipNext(i).item = FrameError /\ SkipNext(i).pcm = <<>>
        /\ ~Undecodable(file, d) =>
             /\ FrameNext(i).item = "Pcm" /\ Len(FrameNext(i).pcm) = n
             /\ FrameNext(i).it = [i EXCEPT !.next = i.next + 1]
             /\ SkipNext(i).item = "Pcm" /\ SkipNext(i).pcm \in Seq(Int)
             /\ Len(SkipNext(i).pcm) = n - i.skip
             /\ SkipNext(i).it = [i EXCEPT !.next = i.next + 1, !.skip = 0]
    BY <1>0, <1>1, <1>4, <2>3, TurnLengths
  <2>5. CASE Undecodable(file, d)
    <3>1. r.item = FrameError /\ r.pcm = <<>>
      <4>1. i.kind = "range" => RangeNext(i).item = FrameError /\ RangeNext(i).pcm = <<>>
        BY <1>1, <1>4, <2>4, <2>5 DEF RangeNext, FrameError
      <4>2. QED BY <1>1, <2>4, <2>5, <4>1 DEF IterNext
    <3>2. i.next \in Failures
      <4>1. ~Good(i.next) BY <2>5 DEF Good
      <4>3. i.next \in FrameIds(file) BY <1>1, <1>2, <1>4 DEF FrameIds, Count
      <4>4. FrameStart(i.next) < call.stop
        <5>1. CASE i.kind = "range" BY <1>1, <1>4, <2>1, <2>2, <5>1
        <5>2. CASE i.kind # "range"
          <6>1. FrameStart(i.next) < FrameStart(i.next + 1)
            BY <1>0, <1>1, <1>4, FrameHolds
          <6>2. QED BY <1>2, <2>1, <2>2, <5>2, <6>1
        <5>3. QED BY <5>1, <5>2
      <4>5. call.start < FrameStart(i.next + 1) BY <1>1, <1>2, <2>1, <2>2
      <4>6. QED BY <4>1, <4>3, <4>4, <4>5 DEF Failures, Requested
    <3>3. at = FirstRequested(i.next)
      BY <1>1, <1>2, <2>1, <2>2 DEF FirstRequested
    <3> HIDE DEF r
    <3>4. AtFailure(at) BY <3>2, <3>3 DEF AtFailure
    <3>5. at + Len(r.pcm) = at BY <3>1
    <3>6. QED BY <3>1, <3>4, <3>5 DEF TurnStops, r
  <2>6. CASE ~Undecodable(file, d)
    <3>1. i.next + 1 < Count =>
            /\ FrameSamples(file.h, i.next + 1) * Nch > 0 /\ i.next + 1 \in Nat
      BY <1>0, <1>1, FrameHolds
    \* The three iterators differ in how much of the frame they hand out.
    <3>2. ASSUME r.item = "Pcm", NEW m \in Nat, Len(r.pcm) = m,
                 r.it.next = i.next + 1, r.it.skip = 0, r.it.kind = i.kind,
                 at + m <= FrameStart(i.next + 1),
                 i.kind # "range" => at + m = FrameStart(i.next + 1),
                 i.kind = "range" => /\ r.it.left \in Nat /\ r.it.left + m = i.left
                                     /\ r.it.left > 0 => at + m = FrameStart(i.next + 1)
          PROVE  TurnStops(r, at) /\ at + Len(r.pcm) <= call.stop
      <4> HIDE DEF r, n, d
      <4>1. at + m \in Nat /\ at + m <= call.stop
        <5>1. at + m \in Nat OBVIOUS
        <5>2. CASE i.kind = "range"
          <6>1. r.it.left \in Nat /\ r.it.left + m = i.left BY <3>2, <5>2
          <6>2. at + i.left = call.stop BY <2>1, <5>2
          <6> HIDE DEF i
          <6>3. at + m <= call.stop BY <1>2, <6>1, <6>2
          <6>4. QED BY <5>1, <6>3
        <5>3. CASE i.kind # "range"
          <6>1. at + m = FrameStart(i.next + 1) BY <3>2, <5>3
          <6>2. call.stop = TotalEntries BY <2>1, <5>3
          <6>3. QED BY <2>2, <5>1, <6>1, <6>2
        <5>4. QED BY <5>2, <5>3
      <4>2. Ahead(r.it, at + m)
        <5>1. CASE r.it.next < Count /\ (r.it.kind = "range" => r.it.left > 0)
          <6>1. at + m = FrameStart(r.it.next) /\ r.it.skip = 0 BY <3>2, <5>1
          <6>2. 0 < FrameSamples(file.h, r.it.next) * Nch BY <3>1, <3>2, <5>1
          <6>3. IF r.it.kind = "range" THEN (at + m) + r.it.left = call.stop
                ELSE call.stop = TotalEntries
            BY <1>1, <1>2, <2>1, <3>2
          <6>4. FrameStart(r.it.next) + 0 = FrameStart(r.it.next) BY <2>2, <3>2
          <6>5. QED BY <5>1, <6>1, <6>2, <6>3, <6>4 DEF Ahead
        <5>2. CASE ~(r.it.next < Count /\ (r.it.kind = "range" => r.it.left > 0))
          <6>1. at + m = call.stop
            <7>1. CASE i.kind = "range" /\ r.it.left = 0 BY <1>1, <1>2, <2>1, <3>2, <7>1
            <7>2. CASE i.kind = "range" /\ r.it.left > 0
              <8>1. i.next + 1 = Count BY <1>1, <1>2, <1>4, <3>2, <5>2, <7>2
              <8>2. at + m = TotalEntries BY <2>2, <3>2, <7>2, <8>1
              <8>3. QED BY <1>2, <4>1, <8>2
            <7>3. CASE i.kind # "range"
              <8>1. i.next + 1 = Count BY <1>1, <1>2, <1>4, <3>2, <5>2, <7>3
              <8>2. QED BY <2>1, <2>2, <3>2, <7>3, <8>1
            <7>4. QED BY <3>2, <7>1, <7>2, <7>3
          <6>2. QED BY <5>2, <6>1 DEF Ahead
        <5>3. QED BY <5>1, <5>2
      <4>3. QED BY <3>2, <4>1, <4>2 DEF TurnStops
    <3>3. CASE i.kind = "frames"
      <4>1. r = FrameNext(i) BY <3>3 DEF IterNext
      <4>2. /\ r.item = "Pcm" /\ Len(r.pcm) = n /\ r.it = [i EXCEPT !.next = i.next + 1]
        BY <2>4, <2>6, <4>1
      <4> HIDE DEF r, n, d
      <4>3. r.it.next = i.next + 1 /\ r.it.skip = i.skip /\ r.it.kind = i.kind
        BY <1>1, <4>2 DEF Iterators
      <4>4. i.skip = 0 /\ at + n = FrameStart(i.next + 1) /\ n \in Nat
        BY <2>1, <2>2, <3>3
      <4>5. QED BY <2>2, <3>2, <3>3, <4>2, <4>3, <4>4 DEF r
    <3>4. CASE i.kind = "skip"
      <4>1. r = SkipNext(i) BY <3>4 DEF IterNext
      <4>2. /\ r.item = "Pcm" /\ Len(r.pcm) = n - i.skip
            /\ r.it = [i EXCEPT !.next = i.next + 1, !.skip = 0]
        BY <2>4, <2>6, <4>1
      <4> HIDE DEF r, n, d
      <4>3. r.it.next = i.next + 1 /\ r.it.skip = 0 /\ r.it.kind = i.kind
        BY <1>1, <4>2 DEF Iterators
      <4>4. n - i.skip \in Nat /\ at + (n - i.skip) = FrameStart(i.next + 1)
        BY <1>1, <2>1, <2>2, <2>3
      <4>5. QED BY <2>2, <3>2, <3>4, <4>2, <4>3, <4>4 DEF r
    <3>5. CASE i.kind = "range"
      <4> DEFINE s == SkipNext(i)
                 k == Least(i.left, Len(s.pcm))
                 kept == Truncate(s.pcm, k)
      <4>1. r = RangeNext(i) BY <3>5 DEF IterNext
      <4>2. /\ s.item = "Pcm" /\ s.pcm \in Seq(Int) /\ Len(s.pcm) = n - i.skip
            /\ s.it = [i EXCEPT !.next = i.next + 1, !.skip = 0]
        BY <2>4, <2>6
      <4>3. RangeNext(i) = [it |-> [s.it EXCEPT !.left = i.left - Len(kept)],
                            item |-> "Pcm", pcm |-> kept]
        BY <1>1, <1>4, <3>5, <4>2 DEF RangeNext, FrameError
      <4> HIDE DEF r, n, d, s
      <4>4. n - i.skip \in Nat /\ at + (n - i.skip) = FrameStart(i.next + 1)
        BY <1>1, <2>1, <2>2, <2>3
      <4>5. k \in Nat /\ k <= i.left /\ k <= n - i.skip /\ (k < i.left => k = n - i.skip)
        BY <1>1, <4>2, <4>4 DEF Least
      <4>6. Len(kept) = k
        <5>1. k <= Len(s.pcm) BY <4>2, <4>5
        <5> HIDE DEF k
        <5>2. QED BY <4>2, <4>5, <5>1, TruncateType
      <4> HIDE DEF k, kept
      <4>7. r.item = "Pcm" /\ r.pcm = kept /\ r.it = [s.it EXCEPT !.left = i.left - k]
        BY <4>1, <4>3, <4>6
      <4>8. /\ r.it.next = i.next + 1 /\ r.it.skip = 0 /\ r.it.kind = i.kind
            /\ r.it.left = i.left - k
        BY <1>1, <4>2, <4>7 DEF Iterators
      <4>9. /\ at + k <= FrameStart(i.next + 1)
            /\ r.it.left \in Nat /\ r.it.left + k = i.left
            /\ r.it.left > 0 => at + k = FrameStart(i.next + 1)
        <5> DEFINE m == n - i.skip
        <5>1. m \in Nat /\ at + m = FrameStart(i.next + 1) /\ k <= m /\ (k < i.left => k = m)
          BY <4>4, <4>5
        <5> HIDE DEF m
        <5>2. at + k <= FrameStart(i.next + 1) BY <4>5, <5>1
        <5>3. r.it.left \in Nat /\ r.it.left + k = i.left
          <6>1. i.left \in Nat BY <1>1 DEF Iterators
          <6>2. \A a, b \in Nat : b <= a => a - b \in Nat /\ (a - b) + b = a OBVIOUS
          <6>3. k \in Nat /\ k <= i.left /\ r.it.left = i.left - k BY <4>5, <4>8
          <6>4. i.left - k \in Nat /\ (i.left - k) + k = i.left BY <6>1, <6>2, <6>3
          <6>5. QED BY <6>3, <6>4
        <5>4. r.it.left > 0 => k < i.left BY <1>1, <4>5, <4>8
        <5>5. QED BY <5>1, <5>2, <5>3, <5>4
      <4>10. QED BY <3>2, <3>5, <4>5, <4>6, <4>7, <4>8, <4>9 DEF r
    <3>6. QED BY <1>1, <3>3, <3>4, <3>5
  <2>7. QED BY <2>5, <2>6
<1>5. QED BY <1>3, <1>4

StopInv ==
  /\ pc \in {"lazy", "eager"} => Reached <= call.stop /\ call.stop <= TotalEntries
  /\ pc \in {"lazy", "eager"} /\ item \notin {"End", FrameError} => Ahead(it, Reached)
  /\ pc = "eager" => item \notin {"End", FrameError}
  /\ item \in {"Ok", "End", FrameError} => pc \in {"lazy", "returned"}
  /\ item = "Ok" => Reached = call.stop
  /\ item = "End" => pc = "lazy" /\ (Reached = call.stop \/ AtFailure(Reached))
  /\ item = FrameError => Failures # {} /\ (pc = "lazy" => AtFailure(Reached))

LEMMA InitStop == Init => StopInv
  BY DEF Init, StopInv, FrameError

\* A call that hands out an iterator standing at the start of the request.
LEMMA StopStart ==
  ASSUME Typed, NEW mode \in {"lazy", "eager"}, NEW iter, NEW start \in Nat, NEW stop \in Nat,
         Iterate(mode, iter, start, stop), start <= stop, stop <= TotalEntries,
         IF iter.next < Count /\ (iter.kind = "range" => iter.left > 0)
         THEN /\ FrameStart(iter.next) + iter.skip = start
              /\ iter.skip < FrameSamples(file.h, iter.next) * Nch
              /\ iter.kind = "frames" => iter.skip = 0
              /\ IF iter.kind = "range" THEN start + iter.left = stop
                 ELSE stop = TotalEntries
         ELSE start = stop
  PROVE  StopInv'
<1>1. /\ it' = iter /\ call' = [start |-> start, stop |-> stop] /\ pc' = mode
      /\ item' = "None" /\ collected' = <<>> /\ file' = file /\ dec' = dec
  BY DEF Iterate, Reset
<1>2. Reached' = start /\ call'.start = start /\ call'.stop = stop
  BY <1>1 DEF Reached
<1>3. Ahead(it, Reached)'
  BY <1>1, <1>2 DEF Ahead, Count, FrameStart, FrameEntries, TotalEntries, Nch
<1>4. TotalEntries' = TotalEntries BY <1>1 DEF TotalEntries, Nch
<1>5. QED BY <1>1, <1>2, <1>3, <1>4 DEF StopInv, FrameError

\* A call that answers at once with something other than audio or a failing frame.
LEMMA StopAnswer ==
  ASSUME NEW answer, NEW pcm, NEW start, NEW stop, Answer(answer, pcm, start, stop),
         answer \notin {"Ok", "End", FrameError}
  PROVE  StopInv'
  BY DEF Answer, StopInv

\* Past the constructor, the stream has a channel and a rate.
LEMMA OpenedPositive ==
  ASSUME Typed, OpenedInv, pc \in {"idle", "lazy", "eager"}
  PROVE  Nch > 0 /\ file.h.rate > 0
<1>1. file.h.channels \in Nat /\ file.h.rate \in Nat
  BY FileType DEF Typed, TypeOK, HeaderRecords
<1>2. QED BY <1>1 DEF OpenedInv, Nch

\* A turn of the iterator in use, whoever holds it.
LEMMA StopTurn ==
  ASSUME AudioInv, OpenedInv, SpentInv, StopInv, pc \in {"lazy", "eager"}
  PROVE  LET r == IterNext(it) IN
         /\ r.item \in {"Pcm", "End", FrameError} /\ r.pcm \in Seq(Int)
         /\ Reached \in Nat /\ Reached + Len(r.pcm) <= call.stop
         /\ r.item = "Pcm" => Ahead(r.it, Reached + Len(r.pcm))
         /\ r.item # "Pcm" => r.pcm = <<>>
         /\ r.item = "End" => Reached = call.stop \/ (pc = "lazy" /\ AtFailure(Reached))
         /\ r.item = FrameError => AtFailure(Reached)
<1> DEFINE r == IterNext(it)
<1>0. /\ Typed /\ TypeOK /\ TableInv /\ it.kind # "none"
  BY DEF AudioInv, Typed, HasIterator
<1>1. r \in Turns BY <1>0, IterNextType
<1>2. /\ Reached \in Nat /\ call.start \in Nat /\ call.stop \in Nat /\ call.start <= Reached
      /\ Nch \in Nat /\ Nch > 0 /\ Len(dec.frames) = Count /\ file.h.rate > 0
  <2>1. /\ call.start \in Nat /\ call.stop \in Nat /\ Len(collected) \in Nat
    BY <1>0 DEF TypeOK
  <2>2. Reached \in Nat /\ call.start <= Reached BY <2>1 DEF Reached
  <2>3. Nch \in Nat BY <1>0, FileType DEF TypeOK
  <2>4. Len(dec.frames) = Count BY <1>0 DEF TableInv
  <2>5. Nch > 0 /\ file.h.rate > 0 BY <1>0, OpenedPositive
  <2>6. QED BY <2>1, <2>2, <2>3, <2>4, <2>5
<1>3. Reached <= call.stop /\ call.stop <= TotalEntries BY DEF StopInv
<1>4. CASE item \notin {"End", FrameError}
  <2>1. Ahead(it, Reached) BY <1>4 DEF StopInv
  <2>2. TurnStops(r, Reached) /\ Reached + Len(r.pcm) <= call.stop
    BY <1>0, <1>2, <1>3, <2>1, TurnAhead
  <2> HIDE DEF r
  <2>3. QED BY <1>1, <1>2, <2>2 DEF TurnStops, Turns, FrameError, r
<1>5. CASE item \in {"End", FrameError}
  <2>1. pc = "lazy" BY <1>5 DEF StopInv
  <2>2. Exhausted(it) BY <1>5, <2>1 DEF SpentInv
  <2>3. r.item = "End" /\ r.pcm = <<>> BY <1>0, <2>2, ExhaustedStays
  <2>4. Reached = call.stop \/ AtFailure(Reached) BY <1>5, <2>1 DEF StopInv
  <2> HIDE DEF r
  <2>5. Reached + Len(r.pcm) = Reached BY <1>2, <2>3
  <2>6. QED BY <1>1, <1>2, <1>3, <2>1, <2>3, <2>4, <2>5 DEF Turns, FrameError, r
<1>6. QED BY <1>4, <1>5

LEMMA StepStop ==
  AudioInv /\ OpenedInv /\ SpentInv /\ StopInv /\ [Next]_vars => StopInv'
<1> SUFFICES ASSUME AudioInv, OpenedInv, SpentInv, StopInv, [Next]_vars PROVE StopInv'
  OBVIOUS
<1>0. Typed /\ TypeOK /\ TableInv /\ file \in Files BY DEF AudioInv, Typed, TypeOK
<1>1. /\ Count \in Nat /\ Nch \in Nat /\ TotalEntries \in Nat /\ FrameEntries \in Nat
      /\ file.h \in HeaderRecords /\ \A i \in Nat : FrameStart(i) \in Nat
  BY <1>0, FileType
<1>2. pc = "idle" => Nch > 0 /\ file.h.rate > 0 /\ Len(dec.frames) = Count
  <2>1. pc = "idle" => Len(dec.frames) = Count BY <1>0 DEF TableInv
  <2>2. QED BY <1>0, <2>1, OpenedPositive
<1>3. file' = file => /\ TotalEntries' = TotalEntries
                      /\ \A i : FrameStart(i)' = FrameStart(i)
  BY DEF TotalEntries, Nch, FrameStart, FrameEntries
<1>4. UNCHANGED <<file, dec, call>> =>
        Failures' = Failures /\ \A w : FirstRequested(w)' = FirstRequested(w)
  BY DEF Failures, Good, Requested, FirstRequested, FrameStart, FrameEntries, TotalEntries,
         Nch
<1>5. UNCHANGED <<file, dec, call>> => \A at : AtFailure(at)' = AtFailure(at)
  BY <1>4 DEF AtFailure
\* The two ways to turn an iterator.
<1>6. CASE Poll
  <2> DEFINE r == IterNext(it)
  <2>1. /\ pc = "lazy" /\ pc' = "lazy" /\ it' = r.it /\ item' = r.item
        /\ collected' = collected \o r.pcm /\ UNCHANGED <<file, dec, call>>
    BY <1>6 DEF Poll
  <2>3. /\ r.item \in {"Pcm", "End", FrameError} /\ r.pcm \in Seq(Int)
        /\ Reached \in Nat /\ Reached + Len(r.pcm) <= call.stop
        /\ r.item = "Pcm" => Ahead(r.it, Reached + Len(r.pcm))
        /\ r.item # "Pcm" => r.pcm = <<>>
        /\ r.item = "End" => Reached = call.stop \/ (pc = "lazy" /\ AtFailure(Reached))
        /\ r.item = FrameError => AtFailure(Reached)
    BY <2>1, StopTurn
  <2> HIDE DEF r
  <2>4. Reached' = Reached + Len(r.pcm)
    BY <1>0, <2>1, <2>3 DEF Reached, TypeOK
  <2>5. r.item # "Pcm" => Reached' = Reached BY <2>3, <2>4
  <2>6. r.item = "Pcm" => Ahead(it, Reached)'
    BY <2>1, <2>3, <2>4 DEF Ahead, Count, FrameStart, FrameEntries, TotalEntries, Nch
  <2>7. AtFailure(Reached) => Failures # {} BY DEF AtFailure
  <2>8. call.stop <= TotalEntries BY <2>1 DEF StopInv
  <2>9. r.item # "Pcm" => AtFailure(Reached)' = AtFailure(Reached) BY <1>4, <2>1, <2>5 DEF AtFailure
  <2>10. QED
    BY <1>3, <1>4, <2>1, <2>3, <2>4, <2>5, <2>6, <2>7, <2>8, <2>9 DEF StopInv, FrameError
<1>7. CASE Collect
  <2> DEFINE r == IterNext(it)
  <2>1. /\ pc = "eager" /\ it' = r.it /\ item' = IF r.item = "End" THEN "Ok" ELSE r.item
        /\ collected' = IF r.item = FrameError THEN <<>> ELSE collected \o r.pcm
        /\ pc' = IF r.item = "Pcm" THEN "eager" ELSE "returned"
        /\ UNCHANGED <<file, dec, call>>
    BY <1>7 DEF Collect
  <2>3. /\ r.item \in {"Pcm", "End", FrameError} /\ r.pcm \in Seq(Int)
        /\ Reached \in Nat /\ Reached + Len(r.pcm) <= call.stop
        /\ r.item = "Pcm" => Ahead(r.it, Reached + Len(r.pcm))
        /\ r.item # "Pcm" => r.pcm = <<>>
        /\ r.item = "End" => Reached = call.stop \/ (pc = "lazy" /\ AtFailure(Reached))
        /\ r.item = FrameError => AtFailure(Reached)
    BY <2>1, StopTurn
  <2> HIDE DEF r
  <2>4. CASE r.item = "Pcm"
    <3>1. /\ pc' = "eager" /\ item' = "Pcm" /\ collected' = collected \o r.pcm
      BY <2>1, <2>4 DEF FrameError
    <3>2. Reached' = Reached + Len(r.pcm)
      BY <1>0, <2>1, <2>3, <3>1 DEF Reached, TypeOK
    <3>3. Ahead(it, Reached)'
      BY <2>1, <2>3, <2>4, <3>2 DEF Ahead, Count, FrameStart, FrameEntries, TotalEntries, Nch
    <3>4. call.stop <= TotalEntries BY <2>1 DEF StopInv
    <3>5. QED BY <1>3, <2>1, <2>3, <3>1, <3>2, <3>3, <3>4 DEF StopInv, FrameError
  <2>5. CASE r.item = "End"
    <3>1. pc' = "returned" /\ item' = "Ok" /\ collected' = collected \o <<>>
      BY <2>1, <2>3, <2>5 DEF FrameError
    <3>2. collected' = collected BY <1>0, <3>1 DEF TypeOK
    <3>3. Reached' = call.stop BY <2>1, <2>3, <2>5, <3>2 DEF Reached
    <3>4. QED BY <2>1, <3>1, <3>3 DEF StopInv, FrameError
  <2>6. CASE r.item = FrameError
    <3>1. pc' = "returned" /\ item' = FrameError BY <2>1, <2>6 DEF FrameError
    <3>2. Failures' # {} BY <1>4, <2>1, <2>3, <2>6 DEF AtFailure
    <3>3. QED BY <3>1, <3>2 DEF StopInv, FrameError
  <2>7. QED BY <2>3, <2>4, <2>5, <2>6
\* The calls.
<1>8. ASSUME NEW k \in Nat, pc = "idle", NEW mode \in {"lazy", "eager"},
             Iterate(mode, FramesFrom(k), FrameStart(k), TotalEntries)
      PROVE  StopInv'
  <2>1. FramesFrom(k) \in Iterators /\ FramesFrom(k).kind = "frames"
    BY <1>0, FramesFromType
  <2>2. FramesFrom(k).next = Least(k, Count) /\ FramesFrom(k).skip = 0
    BY <1>2, <1>8 DEF FramesFrom, NoIter
  <2>3. FrameStart(k) \in Nat /\ FrameStart(k) <= TotalEntries
    <3>1. k * FrameEntries \in Nat BY <1>1, ProductInNat
    <3>2. QED BY <1>1, <3>1 DEF FrameStart, Least
  <2>4. CASE k < Count
    <3>1. FramesFrom(k).next = k BY <1>1, <2>2, <2>4 DEF Least
    <3>2. 0 < FrameSamples(file.h, k) * Nch BY <1>0, <1>2, <1>8, <2>4, FrameHolds
    <3>3. FrameStart(k) + 0 = FrameStart(k) BY <2>3
    <3> DEFINE f == FramesFrom(k)
    <3>4. f.next = k /\ f.skip = 0 /\ f.kind = "frames" BY <2>1, <2>2, <3>1
    <3>5. Iterate(mode, f, FrameStart(k), TotalEntries) BY <1>8
    <3> HIDE DEF f
    <3>6. FrameStart(f.next) + f.skip = FrameStart(k) BY <3>3, <3>4
    <3>7. f.skip < FrameSamples(file.h, f.next) * Nch BY <3>2, <3>4
    <3>8. TotalEntries <= TotalEntries BY <1>1
    <3>9. f.kind # "range" BY <3>4
    <3> DEFINE m == FrameStart(k)
               n == TotalEntries
    <3>10. /\ m \in Nat /\ n \in Nat /\ m <= n /\ n <= TotalEntries /\ n = TotalEntries
           /\ Iterate(mode, f, m, n) /\ FrameStart(f.next) + f.skip = m
      BY <1>1, <2>3, <3>5, <3>6, <3>8
    <3>11. f.next < Count BY <2>4, <3>4
    <3>12. f.kind = "frames" => f.skip = 0 BY <3>4
    <3> HIDE DEF m, n
    <3>13. /\ m <= n /\ n <= TotalEntries
           /\ IF f.next < Count /\ (f.kind = "range" => f.left > 0)
              THEN /\ FrameStart(f.next) + f.skip = m
                   /\ f.skip < FrameSamples(file.h, f.next) * Nch
                   /\ f.kind = "frames" => f.skip = 0
                   /\ IF f.kind = "range" THEN m + f.left = n ELSE n = TotalEntries
              ELSE m = n
      BY <3>7, <3>9, <3>10, <3>11, <3>12
    <3>14. QED BY <1>0, <3>10, <3>13, StopStart
  <2>5. CASE k >= Count
    <3>1. FramesFrom(k).next = Count BY <1>1, <2>2, <2>5 DEF Least
    <3>2. FrameStart(k) = TotalEntries
      <4>1. FrameStart(Count) = TotalEntries BY <1>0, <1>2, <1>8, FrameStartEnd
      <4>2. \A x, y, z \in Nat : x <= y => x * z <= y * z OBVIOUS
      <4>3. Count * FrameEntries <= k * FrameEntries BY <1>1, <2>5, <4>2
      <4>4. Count * FrameEntries \in Nat /\ k * FrameEntries \in Nat BY <1>1, ProductInNat
      <4>5. QED BY <1>1, <4>1, <4>3, <4>4 DEF FrameStart, Least
    <3>3. ~(FramesFrom(k).next < Count) BY <1>1, <3>1
    <3>4. QED BY <1>0, <1>1, <1>8, <2>3, <3>2, <3>3, StopStart
  <2>6. QED BY <1>1, <2>4, <2>5
<1>9. ASSUME NEW k \in Nat, FrameIterFrom(k) PROVE StopInv'
  BY <1>8, <1>9 DEF FrameIterFrom
<1>10. CASE DecodeAll
  <2>1. pc = "idle" /\ Iterate("eager", FramesFrom(0), 0, TotalEntries) BY <1>10 DEF DecodeAll
  <2>2. FrameStart(0) = 0 BY <1>0, <1>2, <2>1, FrameStartEnd
  <2>3. QED BY <1>8, <2>1, <2>2
<1>11. ASSUME NEW k \in Nat, DecodeFrameAt(k) PROVE StopInv'
  <2>1. pc = "idle" /\ k + 1 \in Nat BY <1>11 DEF DecodeFrameAt
  <2>0. k \in Nat /\ Len(dec.frames) \in Nat
    <3>1. dec.frames \in Seq(Descriptors) BY <1>0 DEF TypeOK
    <3>2. QED BY <1>11, <3>1
  <2>2. CASE k >= Len(dec.frames)
    BY <1>11, <2>2, StopAnswer DEF DecodeFrameAt, FrameError
  <2>3. CASE k < Len(dec.frames)
    <3> DEFINE d == dec.frames[k + 1]
               n == FrameSamples(file.h, k) * Nch
    <3>1. k < Count BY <1>2, <2>1, <2>3
    <3>0. ~(k >= Len(dec.frames)) BY <2>0, <2>3
    <3>2. FrameStart(k) + n = FrameStart(k + 1) BY <1>0, <3>1, FrameStartNext
    <3>3. FrameStart(k) < FrameStart(k + 1) BY <1>0, <1>2, <2>1, <3>1, FrameHolds
    <3>4. CASE Undecodable(file, d)
      <4>1. Answer(FrameError, <<>>, FrameStart(k), FrameStart(k + 1))
        BY <1>11, <3>0, <3>4, Zenon DEF DecodeFrameAt
      <4>2. /\ pc' = "returned" /\ item' = FrameError /\ file' = file
            /\ call' = [start |-> FrameStart(k), stop |-> FrameStart(k + 1)]
        BY <4>1 DEF Answer
      <4>3. dec' = dec BY <4>1 DEF Answer
      <4>4. k \in FrameIds(file) BY <1>1, <3>1 DEF FrameIds, Count
      <4>5. k \in Failures'
        BY <1>3, <3>3, <3>4, <4>2, <4>3, <4>4 DEF Failures, Good, Requested
      <4>6. QED BY <1>3, <4>2, <4>5 DEF StopInv, FrameError
    <3>5. CASE ~Undecodable(file, d)
      <4>1. Answer("Ok", DecodeFrame(d), FrameStart(k), FrameStart(k + 1))
        BY <1>11, <3>0, <3>5, Zenon DEF DecodeFrameAt
      <4>2. /\ pc' = "returned" /\ item' = "Ok" /\ collected' = DecodeFrame(d)
            /\ call' = [start |-> FrameStart(k), stop |-> FrameStart(k + 1)]
        BY <4>1 DEF Answer
      <4>3. k + 1 \in 1 .. Len(dec.frames) /\ (k + 1) - 1 = k BY <2>0, <2>3
      <4>4. d \in Descriptors /\ d.samples = FrameSamples(file.h, k)
        <5>1. dec.frames \in Seq(Descriptors) BY <1>0 DEF TypeOK
        <5>2. \A j \in 1 .. Len(dec.frames) : dec.frames[j].samples = FrameSamples(file.h, j - 1)
          BY <1>0, <5>1 DEF TableInv
        <5>3. d.samples = FrameSamples(file.h, (k + 1) - 1) BY <4>3, <5>2
        <5>4. d \in Descriptors BY <4>3, <5>1
        <5>5. QED BY <4>3, <5>3, <5>4
      <4>5. Len(DecodeFrame(d)) = n BY <1>0, <3>5, <4>4, DecodeFrameType
      <4>6. Reached' = call'.stop BY <3>2, <4>2, <4>5 DEF Reached
      <4>7. QED BY <4>2, <4>6 DEF StopInv, FrameError
    <3>6. QED BY <3>4, <3>5
  <2>4. k >= Len(dec.frames) \/ k < Len(dec.frames) BY <2>0
  <2>5. QED BY <2>2, <2>3, <2>4, Zenon
<1>12. \A s : SeekError(s) # NoError => SeekError(s) \notin {"Ok", "End", FrameError}
  BY DEF SeekError, FrameError
\* Where a seek puts an iterator.
<1>13. ASSUME pc = "idle", NEW s \in Nat, SeekError(s) = NoError
       PROVE  LET k == SeekFrame(file.h, s)
                  n == SeekOffset(file.h, s) * Nch
              IN  /\ s < file.h.total /\ k \in Nat /\ n \in Nat /\ k < Count
                  /\ SkipFrom(s) = [kind |-> "skip", next |-> k, skip |-> n, left |-> 0]
                  /\ FrameStart(k) + n = s * Nch
                  /\ n < FrameSamples(file.h, k) * Nch
  <2> DEFINE k == SeekFrame(file.h, s)
             o == SeekOffset(file.h, s)
             n == o * Nch
  <2>1. /\ s < file.h.total /\ k \in Nat /\ n \in Nat /\ k < Count
        /\ k * FrameEntries + n = s * Nch
        /\ SkipFrom(s) = [kind |-> "skip", next |-> k, skip |-> n, left |-> 0]
    BY <1>0, <1>13, SeekLands
  <2>2. FrameStart(k) = k * FrameEntries BY <1>0, <2>1, EntriesTile
  <2>3. o \in Nat /\ o < FrameSamples(file.h, k)
    BY <1>1, <1>2, <1>13, <2>1, SeekInside
  <2>4. FrameSamples(file.h, k) \in Nat BY <1>0, <2>1, FileType
  <2>5. \A x, y, z \in Nat : x < y /\ z > 0 => x * z < y * z OBVIOUS
  <2>6. n < FrameSamples(file.h, k) * Nch BY <1>1, <1>2, <1>13, <2>3, <2>4, <2>5
  <2>7. QED BY <2>1, <2>2, <2>6
<1>14. \A x \in Nat : x <= file.h.total => x * Nch \in Nat /\ x * Nch <= TotalEntries
  <2>1. file.h.total \in Nat BY <1>1 DEF HeaderRecords
  <2>2. \A x, y, z \in Nat : x <= y => x * z <= y * z OBVIOUS
  <2>3. QED BY <1>1, <2>1, <2>2, ProductInNat DEF TotalEntries
<1>15. ASSUME NEW mode \in {"lazy", "eager"}, NEW s \in Nat, FromSample(mode, s) PROVE StopInv'
  <2>1. CASE SeekError(s) # NoError BY <1>12, <1>15, <2>1, StopAnswer DEF FromSample
  <2>2. CASE SeekError(s) = NoError
    <3> DEFINE k == SeekFrame(file.h, s)
               n == SeekOffset(file.h, s) * Nch
    <3>1. pc = "idle" /\ Iterate(mode, SkipFrom(s), s * Nch, TotalEntries)
      BY <1>15, <2>2 DEF FromSample
    <3>2. /\ s < file.h.total /\ k \in Nat /\ n \in Nat /\ k < Count
          /\ SkipFrom(s) = [kind |-> "skip", next |-> k, skip |-> n, left |-> 0]
          /\ FrameStart(k) + n = s * Nch
          /\ n < FrameSamples(file.h, k) * Nch
      BY <1>13, <2>2, <3>1
    <3>3. s * Nch \in Nat /\ s * Nch <= TotalEntries
      <4>1. s <= file.h.total BY <1>1, <3>2 DEF HeaderRecords
      <4>2. QED BY <1>14, <4>1
    <3> HIDE DEF k, n
    <3>4. /\ SkipFrom(s).next = k /\ SkipFrom(s).skip = n /\ SkipFrom(s).kind = "skip"
      BY <3>2
    <3>5. QED BY <1>0, <1>1, <3>1, <3>2, <3>3, <3>4, StopStart
  <2>3. QED BY <2>1, <2>2
<1>16. ASSUME NEW mode \in {"lazy", "eager"}, NEW a \in Nat, NEW b \in Nat,
              SampleRange(mode, a, b)
       PROVE  StopInv'
  <2>1. pc = "idle" /\ file.h.total \in Nat BY <1>1, <1>16 DEF SampleRange, HeaderRecords
  <2>2. CASE a > b \/ b > file.h.total
    BY <1>16, <2>2, StopAnswer DEF SampleRange, FrameError
  <2>3. CASE a = b /\ ~(a > b \/ b > file.h.total)
    <3> DEFINE i == [FramesFrom(Len(dec.frames)) EXCEPT !.kind = "range"]
    <3>1. Iterate(mode, i, a * Nch, b * Nch) BY <1>16, <2>3 DEF SampleRange
    <3>2. FramesFrom(Count) \in Iterators BY <1>0, <1>1, FramesFromType
    <3>3. FramesFrom(Count).next = Count BY <1>1, <1>2, <2>1 DEF FramesFrom, NoIter, Least
    <3>4. i.next = Count BY <1>2, <2>1, <3>2, <3>3 DEF Iterators
    <3> HIDE DEF i
    <3>5. b * Nch \in Nat /\ b * Nch <= TotalEntries BY <1>14, <2>1, <2>3
    <3>6. ~(i.next < Count) BY <1>1, <3>4
    <3>7. a * Nch = b * Nch /\ a * Nch \in Nat BY <2>3, <3>5
    <3> DEFINE m == a * Nch
               n == b * Nch
    <3>8. m = n /\ m \in Nat /\ n \in Nat /\ n <= TotalEntries /\ Iterate(mode, i, m, n)
      BY <3>1, <3>5, <3>7
    <3> HIDE DEF m, n
    <3>9. m <= n BY <3>8
    <3>10. QED BY <1>0, <3>6, <3>8, <3>9, StopStart
  <2>4. CASE a # b /\ ~(a > b \/ b > file.h.total) /\ SeekError(a) # NoError
    BY <1>12, <1>16, <2>4, StopAnswer DEF SampleRange
  <2>5. CASE a # b /\ ~(a > b \/ b > file.h.total) /\ SeekError(a) = NoError
    <3> DEFINE k == SeekFrame(file.h, a)
               n == SeekOffset(file.h, a) * Nch
               left == (b - a) * Nch
               i == [SkipFrom(a) EXCEPT !.kind = "range", !.left = left]
    <3>1. Iterate(mode, i, a * Nch, b * Nch) BY <1>16, <2>5 DEF SampleRange
    <3>2. /\ k \in Nat /\ n \in Nat /\ k < Count
          /\ SkipFrom(a) = [kind |-> "skip", next |-> k, skip |-> n, left |-> 0]
          /\ FrameStart(k) + n = a * Nch
          /\ n < FrameSamples(file.h, k) * Nch
      BY <1>13, <2>1, <2>5
    <3>3. b - a \in Nat BY <2>5
    <3>4. left \in Nat BY <1>1, <3>3, ProductInNat
    <3>5. a * Nch \in Nat /\ b * Nch \in Nat /\ b * Nch <= TotalEntries
      <4>1. a <= file.h.total /\ b <= file.h.total BY <2>1, <2>5
      <4>2. QED BY <1>14, <4>1
    <3>6. a * Nch + left = b * Nch
      <4>1. \A x, y, z \in Nat : x * z + (y - x) * z = y * z OBVIOUS
      <4>2. QED BY <1>1, <4>1
    <3> HIDE DEF k, n, left
    <3>7. /\ i.next = k /\ i.skip = n /\ i.kind = "range" /\ i.left = left
      BY <3>2
    <3> HIDE DEF i
    <3>8. a * Nch <= b * Nch BY <3>4, <3>5, <3>6
    <3>9. left = 0 => a * Nch = b * Nch BY <3>5, <3>6
    <3>10. CASE left > 0
      BY <1>0, <3>1, <3>2, <3>5, <3>6, <3>7, <3>8, <3>10, StopStart
    <3>11. CASE left = 0
      BY <1>0, <3>1, <3>2, <3>5, <3>7, <3>8, <3>9, <3>11, StopStart
    <3>12. QED BY <3>4, <3>10, <3>11
  <2>6. QED BY <2>2, <2>3, <2>4, <2>5
\* The rest leaves no answer of an iterator behind.
<1>17. CASE Release BY <1>17 DEF Release, Reset, StopInv, FrameError
<1>18. ASSUME NEW p, OpenRefused(p) \/ Open(p) PROVE StopInv'
  <2>1. OpenError(p) \notin {"Ok", "End", FrameError}
    BY DEF OpenError, HeaderError, NoError, FrameError
  <2>2. QED BY <1>18, <2>1 DEF OpenRefused, Open, StopInv, FrameError
<1>19. CASE PushDescriptor \/ FinishTable
  <2>1. item' = item /\ pc = "parsing" /\ pc' \notin {"lazy", "eager"}
    BY <1>19 DEF PushDescriptor, FinishTable
  <2>2. item \notin {"Ok", "End", FrameError} BY <2>1 DEF StopInv
  <2>3. QED BY <2>1, <2>2 DEF StopInv
<1>20. CASE UNCHANGED vars
  <2>1. Reached' = Reached /\ Ahead(it, Reached)' = Ahead(it, Reached)
    BY <1>20 DEF vars, Reached, Ahead, Count, FrameStart, FrameEntries, TotalEntries, Nch
  <2>2. AtFailure(Reached)' = AtFailure(Reached) BY <1>4, <1>20, <2>1 DEF vars, AtFailure
  <2>3. QED BY <1>3, <1>4, <1>20, <2>1, <2>2 DEF vars, StopInv
<1>21. SampleArgs \subseteq Nat /\ \A t \in TimeArgs : SampleAt(t, file.h.rate) \in Nat
  BY <1>0, ArgsType
<1>22. FrameArgs \subseteq Nat BY <1>1 DEF FrameArgs
\* A seek is an answer that asked for no audio.
<1>23. ASSUME NEW s, SeekToSample(s) PROVE StopInv'
  <2>1. CASE SeekError(s) # NoError BY <1>12, <1>23, <2>1, StopAnswer DEF SeekToSample
  <2>2. CASE SeekError(s) = NoError
    <3>1. /\ pc' = "returned" /\ item' = "Ok" /\ collected' = <<>>
          /\ call' = [start |-> 0, stop |-> 0]
      BY <1>23, <2>2 DEF SeekToSample, Answer
    <3>2. Reached' = call'.stop BY <3>1 DEF Reached
    <3>3. QED BY <3>1, <3>2 DEF StopInv, FrameError
  <2>3. QED BY <2>1, <2>2
<1>24. QED
  BY <1>6, <1>7, <1>9, <1>10, <1>11, <1>15, <1>16, <1>17, <1>18, <1>19, <1>20, <1>21, <1>22,
     <1>23
  DEF Next, FromTime, TimeRange

\* With an intact table a read falls short only at a damaged frame it asked for.
THEOREM StopsOnlyAtDamageCorrect == Spec => []StopsOnlyAtDamage
<1>1. AudioInv /\ StopInv => StopsOnlyAtDamage
  <2> SUFFICES ASSUME AudioInv, StopInv, TableIntact(file),
                      item \in {"Ok", "End", FrameError}
               PROVE  StopsOnlyAtDamage
    BY DEF StopsOnlyAtDamage, FrameError
  <2>1. TypeOK /\ TableInv BY DEF AudioInv, Typed
  <2>2. Len(dec.frames) = Count BY <2>1 DEF StopInv, TableInv
  <2>3. FrameIds(file) = 0 .. Count - 1 /\ Count \in Nat
    BY <2>1, FileType DEF FrameIds, Count, TypeOK
  <2>4. \A w \in FrameIds(file) : w \in Nat /\ w < Len(dec.frames) BY <2>2, <2>3
  <2>5. \A w \in FrameIds(file) : ~Good(w) <=> Damaged(file, w)
    BY <2>1, <2>4, DamageDecides DEF Good
  <2>6. Failures = DamageMet BY <2>5 DEF Failures, DamageMet
  <2>7. QED BY <2>6 DEF StopInv, StopsOnlyAtDamage, AtFailure, StoppedAtDamage
<1>2. QED
  BY <1>1, InitAudio, StepAudio, InitOpened, StepOpened, InitTyped, StepTyped, InitSpent,
     StepSpent, InitStop, StepStop, PTL DEF Spec

-----------------------------------------------------------------------------
(***************************************************************************)
(* What a file sounds like.  Once its table is parsed a stream has one     *)
(* sound, be it garbled, and every call hands out a piece of it: entry e   *)
(* of it is what the frame that holds e decodes to.  A call hands out      *)
(* nothing of a frame that does not decode, nor anything behind the first. *)
(***************************************************************************)
Heard(e) ==
  LET j == e \div FrameEntries
  IN  DecodeFrame(dec.frames[j + 1])[e - j * FrameEntries + 1]

Hears(pcm, at) == \A i \in 1 .. Len(pcm) : pcm[i] = Heard(at + (i - 1))

\* No frame that fails has been reached.
Safely(at) == \A w \in Failures : at <= FirstRequested(w)

HeardInv ==
  pc \in {"lazy", "eager", "returned"} => Hears(collected, call.start) /\ Safely(Reached)

LEMMA HearsNothing == ASSUME NEW at PROVE Hears(<<>>, at)
  BY DEF Hears

LEMMA HearsMore ==
  ASSUME NEW s \in Seq(Int), NEW t \in Seq(Int), NEW at \in Nat,
         Hears(s, at), Hears(t, at + Len(s))
  PROVE  Hears(s \o t, at)
<1>1. /\ Len(s \o t) = Len(s) + Len(t) /\ Len(s) \in Nat /\ Len(t) \in Nat
      /\ \A i \in 1 .. Len(s) + Len(t) :
           (s \o t)[i] = IF i <= Len(s) THEN s[i] ELSE t[i - Len(s)]
  BY ConcatProperties
<1>2. ASSUME NEW i \in 1 .. Len(s) + Len(t) PROVE (s \o t)[i] = Heard(at + (i - 1))
  <2>1. CASE i <= Len(s)
    <3>1. i \in 1 .. Len(s) BY <1>1, <2>1
    <3>2. QED BY <1>1, <2>1, <3>1 DEF Hears
  <2>2. CASE ~(i <= Len(s))
    <3> DEFINE k == i - Len(s)
    <3>1. k \in 1 .. Len(t) BY <1>1, <2>2
    <3>2. (s \o t)[i] = t[k] BY <1>1, <2>2
    <3>3. (at + Len(s)) + (k - 1) = at + (i - 1) BY <1>1
    <3> HIDE DEF k
    <3>4. t[k] = Heard((at + Len(s)) + (k - 1)) BY <3>1 DEF Hears
    <3>5. QED BY <3>2, <3>3, <3>4
  <2>3. QED BY <2>1, <2>2
<1>3. QED BY <1>1, <1>2 DEF Hears

LEMMA HearsSuffix ==
  ASSUME NEW s \in Seq(Int), NEW n \in Nat, n <= Len(s), NEW at \in Nat, Hears(s, at)
  PROVE  Hears(Drain(s, n), at + n)
<1>1. Len(Drain(s, n)) = Len(s) - n /\ Len(s) \in Nat BY DrainType
<1>2. ASSUME NEW i \in 1 .. Len(s) - n PROVE Drain(s, n)[i] = Heard((at + n) + (i - 1))
  <2>1. Drain(s, n)[i] = s[n + i] BY SuffixElement DEF Drain
  <2>2. n + i \in 1 .. Len(s) BY <1>1
  <2>3. at + ((n + i) - 1) = (at + n) + (i - 1) BY <1>1
  <2>4. s[n + i] = Heard(at + ((n + i) - 1)) BY <2>2 DEF Hears
  <2>5. QED BY <2>1, <2>3, <2>4
<1>3. QED BY <1>1, <1>2 DEF Hears

LEMMA HearsPrefix ==
  ASSUME NEW s \in Seq(Int), NEW n \in Nat, n <= Len(s), NEW at \in Nat, Hears(s, at)
  PROVE  Hears(Truncate(s, n), at)
<1>1. Len(Truncate(s, n)) = n /\ Len(s) \in Nat BY TruncateType
<1>2. \A i \in 1 .. n : i \in 1 .. Len(s) /\ Truncate(s, n)[i] = s[i] BY <1>1 DEF Truncate
<1>3. QED BY <1>1, <1>2 DEF Hears

\* Frame k lies before frame l.
LEMMA FrameOrder ==
  ASSUME TypeOK, NEW k \in Nat, NEW l \in Nat, k <= l
  PROVE  FrameStart(k) <= FrameStart(l)
<1>1. FrameEntries \in Nat /\ TotalEntries \in Nat BY FileType DEF TypeOK
<1>2. \A x, y, z \in Nat : x <= y => x * z <= y * z OBVIOUS
<1>3. k * FrameEntries <= l * FrameEntries BY <1>1, <1>2
<1>4. k * FrameEntries \in Nat /\ l * FrameEntries \in Nat BY <1>1, ProductInNat
<1>5. QED BY <1>1, <1>3, <1>4 DEF FrameStart, Least

\* A frame that decodes is the piece of the sound that starts where it does.
LEMMA FrameHeard ==
  ASSUME TypeOK, TableInv, NEW j \in Nat, j < Len(dec.frames), Good(j)
  PROVE  LET pcm == DecodeFrame(dec.frames[j + 1])
             n   == FrameSamples(file.h, j) * Nch
         IN  pcm \in Seq(Int) /\ Len(pcm) = n /\ Hears(pcm, FrameStart(j))
<1> DEFINE d   == dec.frames[j + 1]
           pcm == DecodeFrame(d)
           n   == FrameSamples(file.h, j) * Nch
           F   == FrameEntries
<1>1. /\ dec.frames \in Seq(Descriptors) /\ Len(dec.frames) \in Nat
      /\ Len(dec.frames) <= Count /\ Count \in Nat /\ F \in Nat /\ Nch \in Nat
      /\ FrameSamples(file.h, j) \in Nat /\ file.h \in HeaderRecords
  BY FileType DEF TypeOK
<1>2. j + 1 \in 1 .. Len(dec.frames) /\ (j + 1) - 1 = j /\ j < Count BY <1>1
<1>3. d \in Descriptors /\ d.samples = FrameSamples(file.h, j)
  <2>1. \A i \in 1 .. Len(dec.frames) : dec.frames[i].samples = FrameSamples(file.h, i - 1)
    BY DEF TableInv
  <2>2. d.samples = FrameSamples(file.h, (j + 1) - 1) BY <1>2, <2>1
  <2>3. d \in Descriptors BY <1>1, <1>2
  <2>4. QED BY <1>2, <2>2, <2>3
<1>4. pcm \in Seq(Int) /\ Len(pcm) = n BY <1>3, DecodeFrameType DEF Good
<1>5. FrameStart(j) = j * F /\ j * F \in Nat /\ n \in Nat BY <1>2, EntriesTile
<1>6. n <= F
  <2>1. FrameSamples(file.h, j) <= RegularFrameSamples(file.h) /\ RegularFrameSamples(file.h) \in Nat
    BY <1>1, <1>2, GeometryTiles, GeometryType DEF Count
  <2>2. \A x, y, z \in Nat : x <= y => x * z <= y * z OBVIOUS
  <2>3. QED BY <1>1, <2>1, <2>2 DEF FrameEntries
<1> HIDE DEF F, n, pcm, d
<1>7. ASSUME NEW i \in 1 .. n PROVE pcm[i] = Heard(FrameStart(j) + (i - 1))
  <2>1. i - 1 \in Nat /\ i - 1 < F /\ F > 0 BY <1>1, <1>5, <1>6
  <2> DEFINE k == i - 1
             e == FrameStart(j) + k
  <2> HIDE DEF k
  <2>2. k \in Nat /\ k < F /\ k + 1 = i BY <2>1 DEF k
  <2>3. F * j = j * F BY <1>1
  <2>4. (F * j + k) \div F = j BY <1>1, <2>1, <2>2, DivOf
  <2>5. e \div F = j BY <1>5, <2>3, <2>4
  <2>6. e - j * F + 1 = i BY <1>5, <2>2
  <2>7. Heard(e) = DecodeFrame(dec.frames[(e \div FrameEntries) + 1])[e - (e \div FrameEntries) * FrameEntries + 1]
    BY DEF Heard
  <2>8. QED BY <2>5, <2>6, <2>7 DEF F, pcm, d, k
<1>8. Hears(pcm, FrameStart(j)) BY <1>4, <1>7 DEF Hears
<1>9. QED BY <1>4, <1>8 DEF n, pcm, d

\* What one turn hands out is the sound at its place, and no failing frame is passed.
LEMMA SafelyPast ==
  ASSUME TypeOK, Nch > 0, file.h.rate > 0, NEW k \in Nat, k < Count, Good(k),
         NEW at \in Nat, NEW m \in Nat, Safely(at), FrameStart(k) <= at,
         m <= FrameStart(k + 1)
  PROVE  Safely(m)
<1> SUFFICES ASSUME NEW w \in Failures PROVE m <= FirstRequested(w) BY DEF Safely
<1>1. Count \in Nat /\ call.start \in Nat /\ call.stop \in Nat /\ file \in Files
  BY FileType DEF TypeOK
<1>2. w \in Nat /\ w < Count /\ ~Good(w) /\ Requested(w)
  BY <1>1 DEF Failures, FrameIds, Count
<1>3. w + 1 \in Nat /\ k + 1 \in Nat BY <1>2
<1>4. /\ FrameStart(w) \in Nat /\ FrameStart(w + 1) \in Nat
      /\ FrameStart(k) \in Nat /\ FrameStart(k + 1) \in Nat
  BY <1>1, <1>2, <1>3, FileType
<1>5. at <= FirstRequested(w) BY DEF Safely
<1>6. CASE w < k
  <2>1. FrameStart(w) < FrameStart(w + 1) BY <1>2, FrameHolds
  <2>2. FirstRequested(w) < FrameStart(w + 1) BY <1>2, <2>1 DEF Requested, FirstRequested
  <2>3. w + 1 <= k BY <1>2, <1>6
  <2>4. FrameStart(w + 1) <= FrameStart(k) BY <1>3, <2>3, FrameOrder
  <2>5. FirstRequested(w) \in Nat BY <1>1, <1>4 DEF FirstRequested
  <2>6. FALSE BY <1>4, <1>5, <2>2, <2>4, <2>5
  <2>7. QED BY <2>6
<1>7. CASE w > k
  <2>1. k + 1 <= w BY <1>2, <1>7
  <2>2. FrameStart(k + 1) <= FrameStart(w) BY <1>2, <1>3, <2>1, FrameOrder
  <2>3. FrameStart(w) <= FirstRequested(w) BY <1>1, <1>4 DEF FirstRequested
  <2>4. FirstRequested(w) \in Nat BY <1>1, <1>4 DEF FirstRequested
  <2>5. QED BY <1>4, <2>2, <2>3, <2>4
<1>8. w # k BY <1>2
<1>9. QED BY <1>2, <1>6, <1>7, <1>8

LEMMA TurnHears ==
  ASSUME Typed, TableInv, Nch > 0, file.h.rate > 0, Len(dec.frames) = Count,
         it.kind # "none", NEW at \in Nat, Ahead(it, at), Safely(at)
  PROVE  Hears(IterNext(it).pcm, at) /\ Safely(at + Len(IterNext(it).pcm))
<1> DEFINE i == it
           r == IterNext(i)
           n == FrameSamples(file.h, i.next) * Nch
           d == dec.frames[i.next + 1]
           D == DecodeFrame(d)
<1>0. TypeOK BY DEF Typed
<1>1. /\ i \in Iterators /\ i.kind \in {"frames", "skip", "range"}
      /\ i.next \in Nat /\ i.skip \in Nat /\ i.left \in Nat /\ Count \in Nat
  BY <1>0, FileType DEF TypeOK, Iterators, IterKinds
<1>2. CASE r.pcm = <<>>
  <2> HIDE DEF r
  <2>1. at + Len(r.pcm) = at BY <1>2
  <2>2. QED BY <1>2, <2>1, HearsNothing DEF r
<1>3. CASE ~(i.next < Count /\ (i.kind = "range" => i.left > 0))
  <2>1. Exhausted(it) BY <1>1, <1>3 DEF Exhausted
  <2>2. QED BY <1>0, <1>2, <2>1, ExhaustedStays
<1>4. CASE i.next < Count /\ (i.kind = "range" => i.left > 0)
  <2>1. /\ FrameStart(i.next) + i.skip = at /\ i.skip < n
        /\ i.kind = "frames" => i.skip = 0
    BY <1>4 DEF Ahead
  <2>2. n \in Nat /\ FrameStart(i.next) \in Nat /\ FrameStart(i.next) + n = FrameStart(i.next + 1)
    <3>1. FrameSamples(file.h, i.next) \in Nat /\ Nch \in Nat /\ FrameStart(i.next) \in Nat
      BY <1>0, <1>1, FileType DEF TypeOK
    <3>2. QED BY <1>0, <1>1, <1>4, <3>1, ProductInNat, FrameStartNext
  <2>3. i.skip <= n BY <1>1, <2>1, <2>2
  <2>4. /\ Undecodable(file, d) => /\ FrameNext(i).item = FrameError /\ FrameNext(i).pcm = <<>>
                                   /\ SkipNext(i).item = FrameError /\ SkipNext(i).pcm = <<>>
        /\ ~Undecodable(file, d) =>
             /\ FrameNext(i).pcm = D
             /\ SkipNext(i).item = "Pcm" /\ SkipNext(i).pcm = Drain(D, i.skip)
    BY <1>0, <1>1, <1>4, <2>3, TurnLengths
  <2>5. CASE Undecodable(file, d)
    <3>1. i.kind = "range" => RangeNext(i).pcm = <<>>
      BY <1>1, <1>4, <2>4, <2>5 DEF RangeNext, FrameError
    <3>2. r.pcm = <<>> BY <1>1, <2>4, <2>5, <3>1 DEF IterNext
    <3>3. QED BY <1>2, <3>2
  <2>6. CASE ~Undecodable(file, d)
    <3>1. Good(i.next) BY <2>6 DEF Good
    <3>2. D \in Seq(Int) /\ Len(D) = n /\ Hears(D, FrameStart(i.next))
      BY <1>0, <1>1, <1>4, <3>1, FrameHeard
    <3> DEFINE s == Drain(D, i.skip)
               k == Least(i.left, Len(s))
    <3>3. i.skip <= Len(D) BY <2>3, <3>2
    <3> HIDE DEF D, n
    <3>4. s \in Seq(Int) /\ Len(s) = n - i.skip BY <1>1, <3>2, <3>3, DrainType
    <3>5. Hears(s, at) BY <1>1, <2>1, <2>2, <3>2, <3>3, HearsSuffix
    <3>6. Len(s) \in Nat /\ at + Len(s) = FrameStart(i.next + 1)
      BY <1>1, <2>1, <2>2, <2>3, <3>4
    <3>7. k \in Nat /\ k <= Len(s) BY <1>1, <3>6 DEF Least
    <3>8. i.kind = "range" => RangeNext(i).pcm = Truncate(s, k)
      BY <1>1, <1>4, <2>4, <2>6 DEF RangeNext, FrameError
    <3> HIDE DEF s, k
    <3>9. Len(Truncate(s, k)) = k /\ Hears(Truncate(s, k), at)
      BY <3>4, <3>5, <3>7, TruncateType, HearsPrefix
    <3>10. /\ i.kind = "frames" => r.pcm = D
           /\ i.kind = "skip" => r.pcm = s
           /\ i.kind = "range" => r.pcm = Truncate(s, k)
      BY <1>1, <2>4, <2>6, <3>8 DEF IterNext, s
    <3>11. FrameStart(i.next) <= at BY <1>1, <2>1, <2>2
    <3>12. i.kind = "frames" => Hears(D, at) /\ at + Len(D) = FrameStart(i.next + 1)
      BY <2>1, <2>2, <3>2
    <3>13. /\ Hears(r.pcm, at) /\ Len(r.pcm) \in Nat
           /\ at + Len(r.pcm) <= FrameStart(i.next + 1)
      <4> HIDE DEF r
      <4>1. FrameStart(i.next + 1) \in Nat BY <2>2
      <4>2. CASE i.kind = "frames" BY <2>2, <3>2, <3>10, <3>12, <4>1, <4>2
      <4>3. CASE i.kind = "skip" BY <3>5, <3>6, <3>10, <4>1, <4>3
      <4>4. CASE i.kind = "range" BY <3>6, <3>7, <3>9, <3>10, <4>1, <4>4
      <4>5. QED BY <1>1, <4>2, <4>3, <4>4
    <3> HIDE DEF r
    <3>14. Safely(at + Len(r.pcm))
      <4>1. at + Len(r.pcm) \in Nat BY <3>13
      <4>2. QED BY <1>0, <1>1, <1>4, <3>1, <3>11, <3>13, <4>1, SafelyPast
    <3>15. QED BY <3>13, <3>14 DEF r
  <2>7. QED BY <2>5, <2>6
<1>5. QED BY <1>3, <1>4

LEMMA InitHeard == Init => HeardInv
  BY DEF Init, HeardInv

LEMMA SoundKept ==
  ASSUME UNCHANGED <<file, dec>>
  PROVE  /\ \A e : Heard(e)' = Heard(e)
         /\ \A w : Good(w)' = Good(w)
         /\ \A i : FrameStart(i)' = FrameStart(i)
<1>1. \A e : Heard(e)' = Heard(e)
  BY DEF Heard, DecodeFrame, FrameEntries, Nch
<1>2. (\A w : Good(w)' = Good(w)) /\ \A i : FrameStart(i)' = FrameStart(i)
  BY DEF Good, FrameStart, FrameEntries, TotalEntries, Nch
<1>3. QED BY <1>1, <1>2

\* A call that has handed out nothing has passed no failing frame.
LEMMA HeardEmpty == TypeOK /\ collected = <<>> => HeardInv
<1> SUFFICES ASSUME TypeOK, collected = <<>> PROVE HeardInv OBVIOUS
<1>1. call.start \in Nat /\ Reached = call.start BY DEF TypeOK, Reached
<1>2. ASSUME NEW w \in Failures PROVE Reached <= FirstRequested(w)
  <2>1. w \in Nat
    <3>1. Count \in Nat BY FileType DEF TypeOK
    <3>2. QED BY <3>1 DEF Failures, FrameIds, Count
  <2>2. FrameStart(w) \in Nat BY <2>1, FileType DEF TypeOK
  <2>3. QED BY <1>1, <2>2 DEF FirstRequested
<1>3. Safely(Reached) BY <1>2 DEF Safely
<1>4. QED BY <1>3, HearsNothing DEF HeardInv

\* A turn that goes on hands out the next piece.
LEMMA HeardTurn ==
  ASSUME AudioInv, OpenedInv, SpentInv, StopInv, HeardInv, pc \in {"lazy", "eager"}
  PROVE  LET pcm == IterNext(it).pcm IN
         /\ pcm \in Seq(Int) /\ collected \o pcm \in Seq(Int)
         /\ Len(collected \o pcm) = Len(collected) + Len(pcm)
         /\ Hears(collected \o pcm, call.start)
         /\ Safely(call.start + Len(collected \o pcm))
<1> DEFINE r == IterNext(it)
<1>0. /\ Typed /\ TypeOK /\ TableInv /\ it.kind # "none"
  BY DEF AudioInv, Typed, HasIterator
<1>1. /\ Len(dec.frames) = Count /\ Nch > 0 /\ file.h.rate > 0
  BY <1>0, OpenedPositive DEF TableInv
<1>2. /\ collected \in Seq(Int) /\ call.start \in Nat /\ Reached = call.start + Len(collected)
      /\ Reached \in Nat /\ Len(collected) \in Nat
  BY <1>0 DEF TypeOK, Reached
<1>3. Hears(collected, call.start) /\ Safely(Reached) BY DEF HeardInv
<1>4. r.pcm \in Seq(Int) BY <1>0, IterNextType DEF Turns
<1>5. Hears(r.pcm, Reached) /\ Safely(Reached + Len(r.pcm))
  <2>1. CASE item \notin {"End", FrameError}
    <3>1. Ahead(it, Reached) BY <2>1 DEF StopInv
    <3>2. QED BY <1>0, <1>1, <1>2, <1>3, <3>1, TurnHears
  <2>2. CASE item \in {"End", FrameError}
    <3>1. pc = "lazy" BY <2>2 DEF StopInv
    <3>2. Exhausted(it) BY <2>2, <3>1 DEF SpentInv
    <3>3. r.pcm = <<>> BY <1>0, <3>2, ExhaustedStays
    <3> HIDE DEF r
    <3>4. Reached + Len(r.pcm) = Reached BY <1>2, <3>3
    <3>5. QED BY <1>3, <3>3, <3>4, HearsNothing
  <2>3. QED BY <2>1, <2>2
<1> HIDE DEF r
<1>6. Hears(collected \o r.pcm, call.start) BY <1>2, <1>3, <1>4, <1>5, HearsMore
<1>7. /\ collected \o r.pcm \in Seq(Int)
      /\ Len(collected \o r.pcm) = Len(collected) + Len(r.pcm)
  BY <1>2, <1>4
<1>8. call.start + Len(collected \o r.pcm) = Reached + Len(r.pcm)
  <2>1. Len(r.pcm) \in Nat BY <1>4
  <2>2. QED BY <1>2, <1>7, <2>1
<1>9. QED BY <1>4, <1>5, <1>6, <1>7, <1>8 DEF r

LEMMA StepHeard ==
  AudioInv /\ OpenedInv /\ SpentInv /\ StopInv /\ HeardInv /\ [Next]_vars => HeardInv'
<1> SUFFICES ASSUME AudioInv, OpenedInv, SpentInv, StopInv, HeardInv, [Next]_vars
             PROVE  HeardInv'
  OBVIOUS
<1>0. Typed /\ TypeOK /\ TableInv BY DEF AudioInv, Typed
<1>1. TypeOK' BY <1>0, StepTyped DEF Typed
<1>2. collected' = <<>> => HeardInv'
  <2>1. TypeOK' /\ (collected = <<>>)' => HeardInv' BY HeardEmpty, PTL
  <2>2. QED BY <1>1, <2>1
<1>3. pc' \notin {"lazy", "eager", "returned"} => HeardInv' BY DEF HeardInv
\* The same audio further on, with the request and the file it came from.
<1>4. ASSUME UNCHANGED <<file, dec, call>>, Hears(collected', call.start),
             Safely(call.start + Len(collected'))
      PROVE  HeardInv'
  <2>1. Hears(collected, call.start)'
    BY <1>4, SoundKept DEF Hears
  <2>2. Failures' = Failures /\ \A w : FirstRequested(w)' = FirstRequested(w)
    BY <1>4, SoundKept DEF Failures, Requested, FirstRequested
  <2>3. Reached' = call.start + Len(collected') BY <1>4 DEF Reached
  <2>4. Safely(Reached)' BY <1>4, <2>2, <2>3 DEF Safely
  <2>5. QED BY <2>1, <2>4 DEF HeardInv
<1>5. CASE Poll
  <2>1. /\ pc = "lazy" /\ collected' = collected \o IterNext(it).pcm
        /\ UNCHANGED <<file, dec, call>>
    BY <1>5 DEF Poll
  <2>2. Hears(collected', call.start) /\ Safely(call.start + Len(collected'))
    BY <2>1, HeardTurn
  <2>3. QED BY <1>4, <2>1, <2>2
<1>6. CASE Collect
  <2>1. /\ pc = "eager" /\ UNCHANGED <<file, dec, call>>
        /\ collected' = IF IterNext(it).item = FrameError THEN <<>>
                        ELSE collected \o IterNext(it).pcm
    BY <1>6 DEF Collect
  <2>2. CASE IterNext(it).item = FrameError BY <1>2, <2>1, <2>2
  <2>3. CASE IterNext(it).item # FrameError
    <3>1. Hears(collected', call.start) /\ Safely(call.start + Len(collected'))
      BY <2>1, <2>3, HeardTurn
    <3>2. QED BY <1>4, <2>1, <3>1
  <2>4. QED BY <2>2, <2>3
<1>7. ASSUME NEW k \in Nat, DecodeFrameAt(k) PROVE HeardInv'
  <2>1. pc = "idle" /\ Len(dec.frames) = Count BY <1>0, <1>7 DEF DecodeFrameAt, TableInv
  <2>2. Nch > 0 /\ file.h.rate > 0 BY <1>0, <2>1, OpenedPositive
  <2>3. Count \in Nat BY <1>0, FileType DEF TypeOK
  <2>4. CASE k >= Len(dec.frames) \/ ~Good(k)
    <3>1. collected' = <<>> BY <1>7, <2>4 DEF DecodeFrameAt, Answer, Good
    <3>2. QED BY <1>2, <3>1
  <2>5. CASE k < Len(dec.frames) /\ Good(k)
    <3> DEFINE pcm == DecodeFrame(dec.frames[k + 1])
               n == FrameSamples(file.h, k) * Nch
               m == FrameStart(k + 1)
    <3>1. Answer("Ok", pcm, FrameStart(k), m)
      BY <1>7, <2>1, <2>3, <2>5 DEF DecodeFrameAt, Good
    <3>2. pcm \in Seq(Int) /\ Len(pcm) = n /\ Hears(pcm, FrameStart(k))
      BY <1>0, <2>5, FrameHeard
    <3>3. k < Count /\ FrameStart(k) + n = m BY <1>0, <2>1, <2>5, FrameStartNext
    <3> HIDE DEF pcm, n
    <3>4. /\ collected' = pcm /\ UNCHANGED <<file, dec>>
          /\ call' = [start |-> FrameStart(k), stop |-> m]
      BY <3>1 DEF Answer
    <3>5. call'.start = FrameStart(k) /\ call'.stop = m BY <3>4
    <3>6. Hears(collected, call.start)' BY <3>2, <3>4, <3>5, SoundKept DEF Hears
    <3>7. Reached' = m BY <3>2, <3>3, <3>4, <3>5 DEF Reached
    <3>8. ASSUME NEW w \in Failures' PROVE m <= FirstRequested(w)'
      <4>1. w \in FrameIds(file) /\ ~Good(w) /\ Requested(w)'
        BY <3>4, <3>8, SoundKept DEF Failures
      <4>2. w \in Nat /\ w < Count BY <2>3, <4>1 DEF FrameIds, Count
      <4>3. FrameStart(w) < m /\ FrameStart(k) < FrameStart(w + 1)
        BY <3>4, <3>5, <4>1, SoundKept DEF Requested
      <4>4. k + 1 \in Nat /\ w + 1 \in Nat BY <4>2
      <4>5. /\ FrameStart(w) \in Nat /\ FrameStart(w + 1) \in Nat
            /\ FrameStart(k) \in Nat /\ m \in Nat
        BY <1>0, <4>2, <4>4, FileType DEF TypeOK
      <4>6. ~(k + 1 <= w)
        <5>1. k + 1 <= w => m <= FrameStart(w) BY <1>0, <4>2, <4>4, FrameOrder
        <5>2. QED BY <4>3, <4>5, <5>1
      <4>7. ~(w + 1 <= k)
        <5>1. w + 1 <= k => FrameStart(w + 1) <= FrameStart(k)
          BY <1>0, <4>2, <4>4, FrameOrder
        <5>2. QED BY <4>3, <4>5, <5>1
      <4>8. w = k BY <4>2, <4>6, <4>7
      <4>9. QED BY <2>5, <4>1, <4>8
    <3>9. Safely(Reached)' BY <3>7, <3>8 DEF Safely
    <3>10. QED BY <3>6, <3>9 DEF HeardInv
  <2>6. QED BY <2>1, <2>3, <2>4, <2>5
\* Every other call starts with nothing, and nothing else is a call.
<1>8. ASSUME NEW p, OpenRefused(p) \/ Open(p) PROVE HeardInv'
  BY <1>3, <1>8 DEF OpenRefused, Open
<1>9. CASE PushDescriptor \/ FinishTable
  BY <1>3, <1>9 DEF PushDescriptor, FinishTable
<1>10. CASE Release BY <1>2, <1>10 DEF Release, Reset
<1>11. ASSUME NEW k, FrameIterFrom(k) PROVE HeardInv'
  BY <1>2, <1>11 DEF FrameIterFrom, Iterate, Reset
<1>12. CASE DecodeAll BY <1>2, <1>12 DEF DecodeAll, Iterate, Reset
<1>13. ASSUME NEW s, SeekToSample(s) PROVE HeardInv'
  BY <1>2, <1>13 DEF SeekToSample, Answer
<1>14. ASSUME NEW mode, NEW s, FromSample(mode, s) PROVE HeardInv'
  BY <1>2, <1>14 DEF FromSample, Iterate, Reset, Answer
<1>15. ASSUME NEW mode, NEW a, NEW b, SampleRange(mode, a, b) PROVE HeardInv'
  BY <1>2, <1>15 DEF SampleRange, Iterate, Reset, Answer
<1>16. CASE UNCHANGED vars
  <2>1. UNCHANGED <<file, dec, call, collected, pc>> BY <1>16 DEF vars
  <2>2. CASE pc \in {"lazy", "eager", "returned"}
    <3>1. Hears(collected', call.start) /\ Safely(call.start + Len(collected'))
      BY <2>1, <2>2 DEF HeardInv, Reached
    <3>2. QED BY <1>4, <2>1, <3>1
  <2>3. QED BY <1>3, <2>1, <2>2
<1>17. FrameArgs \subseteq Nat
  <2>1. Count \in Nat BY <1>0, FileType DEF TypeOK
  <2>2. QED BY <2>1 DEF FrameArgs
<1>18. QED
  BY <1>5, <1>6, <1>7, <1>8, <1>9, <1>10, <1>11, <1>12, <1>13, <1>14, <1>15, <1>16, <1>17
  DEF Next, FromTime, TimeRange

-----------------------------------------------------------------------------
(***************************************************************************)
(* The fuzz targets.  What a call answers is settled by the stream before  *)
(* the call is made: Gate is the error it is refused with, Slot the piece  *)
(* of the sound it hands out.  Noted says what an answer tells of the      *)
(* stream, and with AllGood, whether every frame decodes.                  *)
(***************************************************************************)
Started == pc \in {"idle", "lazy", "eager", "returned"}
Settled == TypeOK /\ TableInv /\ OpenedInv /\ Started

AllGood == \A w \in FrameIds(file) : Good(w)

Ops == {"all", "frames", "at", "from", "range", "time", "seek"}
Refusals == {"FrameIndexOutOfRange", "SampleIndexOutOfRange", "SeekTableUnreliable", FrameError}
Musts ==
  {"any", "whole", "slice", "suffix", "slice of whole", "twin", "verdict", "length", "lands",
   "accepted", "refused"} \cup Refusals
Steps == [op : Ops, mode : {"lazy", "eager"}, a : Nat, b : Nat, must : Musts]

\* The samples a range is asked for, by their numbers or by their times.
Lo(s) == IF s.op = "time" THEN SampleAt(s.a, file.h.rate) ELSE s.a
Hi(s) == IF s.op = "time" THEN SampleAt(s.b, file.h.rate) ELSE s.b

Gate(s) ==
  CASE s.op \in {"all", "frames"} -> NoError
    [] s.op = "at" -> IF s.a >= Count THEN "FrameIndexOutOfRange"
                      ELSE IF Good(s.a) THEN NoError ELSE FrameError
    [] s.op \in {"from", "seek"} -> SeekError(s.a)
    [] s.op \in {"range", "time"} ->
         IF Lo(s) > Hi(s) \/ Hi(s) > Total THEN "SampleIndexOutOfRange"
         ELSE IF Lo(s) = Hi(s) THEN NoError ELSE SeekError(Lo(s))

Slot(s) ==
  CASE s.op = "all" -> [start |-> 0, stop |-> TotalEntries]
    [] s.op = "frames" -> [start |-> FrameStart(s.a), stop |-> TotalEntries]
    [] s.op = "at" -> [start |-> FrameStart(s.a), stop |-> FrameStart(s.a + 1)]
    [] s.op = "from" -> [start |-> s.a * Nch, stop |-> TotalEntries]
    [] s.op \in {"range", "time"} -> [start |-> Lo(s) * Nch, stop |-> Hi(s) * Nch]
    [] s.op = "seek" -> NoCall

\* A step that decodes every frame, and one that is answered at once.
Walks(s) == s.op = "all" \/ (s.op = "frames" /\ s.a = 0)
AtOnce(s) == s.op \in {"at", "seek"}

\* The call of step s is being made or has just returned.
Underway(s) ==
  IF Gate(s) # NoError THEN pc = "returned" /\ item = Gate(s)
  ELSE /\ call = Slot(s)
       /\ item \in {"None", "Pcm", "Ok", "End", FrameError}
       /\ item = "End" => Reached = call.stop
       /\ pc = "returned" => item \in {"Ok", FrameError}
       /\ AtOnce(s) => pc = "returned" /\ item = "Ok"

NoteRecords == [ok : BOOLEAN, answer : Answers, pcm : Seq(Int)]

Noted(s, n) ==
  /\ ~n.ok => n.pcm = <<>>
  /\ Gate(s) # NoError => ~n.ok /\ n.answer = Gate(s)
  /\ Gate(s) = NoError =>
       /\ n.ok => /\ Len(n.pcm) = Slot(s).stop - Slot(s).start
                  /\ Hears(n.pcm, Slot(s).start)
                  /\ TableIntact(file) /\ RightKey =>
                       n.pcm = Entries(Slot(s).start, Slot(s).stop)
       /\ AtOnce(s) \/ AllGood => n.ok
       /\ Walks(s) => (n.ok <=> AllGood)

TargetInv ==
  /\ target \in {"free"} \cup TargetNames
  /\ seed \in Nat \X Nat \X Nat
  /\ notes \in Seq(NoteRecords)
  /\ target = "free" \/ ~Started => notes = <<>>
  /\ target # "free" =>
       /\ Suits(target)
       /\ Started /\ pc # "idle" =>
            Len(notes) < Len(Script) /\ \A s \in {Script[Len(notes) + 1]} : Underway(s)
       /\ \A i \in 1 .. Len(notes) :
            i <= Len(Script) /\ \A s \in {Script[i]}, n \in {notes[i]} : Noted(s, n)

\* password_corrupt.rs was asked for the password.
OpeningInv == target = "password_corrupt" /\ pc # "closed" => opening = "PasswordRequired"

-----------------------------------------------------------------------------
LEMMA SettledFacts ==
  ASSUME Settled
  PROVE  /\ Len(dec.frames) = Count /\ Count \in Nat
         /\ Total \in Nat /\ Nch \in Nat /\ Nch > 0 /\ file.h.rate \in Nat /\ file.h.rate > 0
         /\ file.h \in HeaderRecords /\ file \in Files
         /\ TotalEntries \in Nat /\ TotalEntries = Total * Nch /\ dec.crcOk \in BOOLEAN
<1>1. TypeOK /\ TableInv /\ OpenedInv /\ pc \in {"idle", "lazy", "eager", "returned"}
  BY DEF Settled, Started
<1>2. /\ Count \in Nat /\ file.h \in HeaderRecords /\ TotalEntries \in Nat /\ file \in Files
      /\ Nch \in Nat
  BY <1>1, FileType DEF TypeOK
<1>3. Total \in Nat /\ file.h.rate \in Nat BY <1>2 DEF HeaderRecords, Total
<1>4. Len(dec.frames) = Count /\ Nch > 0 BY <1>1 DEF TableInv
<1>5. file.h.rate > 0 BY <1>1, <1>3 DEF OpenedInv
<1>6. dec.crcOk \in BOOLEAN BY <1>1 DEF TypeOK
<1>7. QED BY <1>2, <1>3, <1>4, <1>5, <1>6 DEF Total, TotalEntries

\* Two pieces of the sound of the same place and length are the same.
LEMMA SameSound ==
  ASSUME NEW s \in Seq(Int), NEW t \in Seq(Int), NEW at, Hears(s, at), Hears(t, at),
         Len(s) = Len(t)
  PROVE  s = t
<1>1. \A i \in 1 .. Len(s) : s[i] = t[i] BY DEF Hears
<1>2. QED BY <1>1, SeqIntEqual

\* A piece is the slice of the whole.
LEMMA SoundSlice ==
  ASSUME NEW all \in Seq(Int), NEW s \in Seq(Int), NEW a \in Nat, NEW b \in Nat,
         a <= b, b <= Len(all), Hears(all, 0), Hears(s, a), Len(s) = b - a
  PROVE  s = SubSeq(all, a + 1, b)
<1> DEFINE t == SubSeq(all, a + 1, b)
<1>1. t \in Seq(Int) /\ Len(t) = b - a /\ \A i \in 1 .. b - a : t[i] = all[a + i]
  OBVIOUS
<1>2. ASSUME NEW i \in 1 .. b - a PROVE s[i] = all[a + i]
  <2>1. a + i \in 1 .. Len(all) OBVIOUS
  <2>2. all[a + i] = Heard(0 + ((a + i) - 1)) BY <2>1 DEF Hears
  <2>3. 0 + ((a + i) - 1) = a + (i - 1) OBVIOUS
  <2>4. s[i] = Heard(a + (i - 1)) BY DEF Hears
  <2>5. QED BY <2>2, <2>3, <2>4
<1> HIDE DEF t
<1>3. s = t BY <1>1, <1>2, SeqIntEqual
<1>4. QED BY <1>3 DEF t

\* Where a seek that is accepted lands.
LEMMA SeekTypes ==
  ASSUME Settled, NEW s \in Nat, SeekError(s) = NoError
  PROVE  s < Total /\ Lands(s)
<1>1. /\ Len(dec.frames) = Count /\ Count \in Nat /\ file.h.rate > 0 /\ file.h \in HeaderRecords
      /\ Total \in Nat
  BY SettledFacts
<1>2. s < Total /\ ~(SeekFrame(file.h, s) >= Len(dec.frames))
  <2>1. ~(s >= Total) /\ ~(SeekFrame(file.h, s) >= Len(dec.frames))
    BY DEF SeekError, NoError, Total
  <2>2. QED BY <1>1, <2>1
<1>3. /\ SeekFrame(file.h, s) \in Nat /\ SeekOffset(file.h, s) \in Nat
      /\ SeekOffset(file.h, s) < FrameSamples(file.h, SeekFrame(file.h, s))
      /\ SeekFrame(file.h, s) * RegularFrameSamples(file.h) + SeekOffset(file.h, s) = s
  BY <1>1, <1>2, SeekInside DEF Total
<1> DEFINE k == SeekFrame(file.h, s)
<1>4. k \in Nat /\ k < Len(dec.frames) BY <1>1, <1>2, <1>3
<1>5. dec.frames[k + 1].samples = FrameSamples(file.h, k)
  <2>1. k + 1 \in 1 .. Len(dec.frames) /\ (k + 1) - 1 = k BY <1>1, <1>4
  <2>2. \A j \in 1 .. Len(dec.frames) : dec.frames[j].samples = FrameSamples(file.h, j - 1)
    BY DEF Settled, TableInv
  <2> HIDE DEF k
  <2>3. QED BY <2>1, <2>2
<1>6. QED BY <1>2, <1>3, <1>4, <1>5 DEF Lands, SeekPointOf

\* A sample of a stream whose table's CRC holds can be sought.
LEMMA SeekAccepted ==
  ASSUME Settled, dec.crcOk, NEW s \in Nat, s < Total PROVE SeekError(s) = NoError
<1>1. /\ Len(dec.frames) = Count /\ Count \in Nat /\ file.h.rate > 0 /\ file.h \in HeaderRecords
      /\ Total \in Nat
  BY SettledFacts
<1>2. RegularFrameSamples(file.h) > 0 /\ SeekFrame(file.h, s) < FrameCount(file.h)
  BY <1>1, SampleHasFrame DEF Total
<1>3. SeekFrame(file.h, s) \in Nat BY <1>1, SeekInside DEF Total
<1>4. RegularFrameSamples(file.h) \in Nat BY <1>1, GeometryType
<1>5. QED BY <1>1, <1>2, <1>3, <1>4 DEF SeekError, Total, Count

LEMMA GateType == ASSUME NEW s \in Steps PROVE Gate(s) \in Refusals \cup {NoError}
<1>1. \A n : SeekError(n) \in Refusals \cup {NoError} BY DEF SeekError, Refusals
<1>2. QED BY <1>1 DEF Gate, Refusals, Steps, Ops

LEMMA RefusalsDiffer ==
  /\ \A r \in Refusals : r \in Answers /\ r \notin {"Ok", "End", "None", "Pcm"} /\ r # NoError
  /\ NoError \notin {"Ok", "End", "None", "Pcm", FrameError}
  BY DEF Refusals, Answers, FrameError, NoError

\* The samples before frame k, counted up from the descriptors.
Counted(f, k) ==
  \A n \in 0 .. k : f[n] = IF n = 0 THEN 0 ELSE f[n - 1] + dec.frames[n].samples

LEMMA CountedIsStart ==
  ASSUME Settled, NEW k \in Nat, k <= Count, NEW f, Counted(f, k)
  PROVE  f[k] * Nch = FrameStart(k)
<1>1. /\ Count \in Nat /\ Len(dec.frames) = Count /\ Nch \in Nat /\ file.h.rate > 0
      /\ file \in Files /\ TypeOK
  BY SettledFacts DEF Settled
<1>2. \A n \in Nat : n < Count => dec.frames[n + 1].samples = FrameSamples(file.h, n)
  <2> SUFFICES ASSUME NEW n \in Nat, n < Count
               PROVE  dec.frames[n + 1].samples = FrameSamples(file.h, n)
    OBVIOUS
  <2>1. n + 1 \in 1 .. Len(dec.frames) /\ (n + 1) - 1 = n BY <1>1
  <2>2. \A j \in 1 .. Len(dec.frames) : dec.frames[j].samples = FrameSamples(file.h, j - 1)
    BY DEF Settled, TableInv
  <2>3. dec.frames[n + 1].samples = FrameSamples(file.h, (n + 1) - 1) BY <2>1, <2>2
  <2>4. QED BY <2>1, <2>3
<1> DEFINE Known == {n \in Nat : n <= k => f[n] \in Nat /\ f[n] * Nch = FrameStart(n)}
<1>3. 0 \in Known
  <2>1. f[0] = 0
    <3>1. 0 \in 0 .. k OBVIOUS
    <3>2. f[0] = IF 0 = 0 THEN 0 ELSE f[0 - 1] + dec.frames[0].samples BY <3>1, Zenon DEF Counted
    <3>3. QED BY <3>2, Zenon
  <2>2. FrameStart(0) = 0 BY <1>1, FrameStartEnd
  <2>3. QED BY <1>1, <2>1, <2>2
<1>4. ASSUME NEW n \in Nat, n \in Known PROVE n + 1 \in Known
  <2> SUFFICES ASSUME n + 1 <= k PROVE f[n + 1] \in Nat /\ f[n + 1] * Nch = FrameStart(n + 1)
    OBVIOUS
  <2> DEFINE m == FrameSamples(file.h, n)
  <2>1. f[n] \in Nat /\ f[n] * Nch = FrameStart(n) /\ n < Count BY <1>1, <1>4
  <2>2. n + 1 \in 0 .. k /\ (n + 1) - 1 = n /\ n + 1 # 0 OBVIOUS
  <2>3. f[n + 1] = f[n] + dec.frames[n + 1].samples
    <3>1. f[n + 1] = IF n + 1 = 0 THEN 0 ELSE f[(n + 1) - 1] + dec.frames[n + 1].samples
      BY <2>2, Zenon DEF Counted
    <3>2. QED BY <2>2, <3>1, Zenon
  <2>4. f[n + 1] = f[n] + m BY <1>2, <2>1, <2>3
  <2>5. m \in Nat BY <1>1, FileType
  <2>6. FrameStart(n) + m * Nch = FrameStart(n + 1) BY <1>1, <2>1, FrameStartNext
  <2> HIDE DEF m
  <2>7. \A x, y, z \in Nat : (x + y) * z = x * z + y * z OBVIOUS
  <2>8. (f[n] + m) * Nch = f[n] * Nch + m * Nch BY <1>1, <2>1, <2>5, <2>7
  <2>9. QED BY <2>1, <2>4, <2>5, <2>6, <2>8
<1> HIDE DEF Known
<1>5. \A n \in Nat : n \in Known BY <1>3, <1>4, SetInduction
<1>6. QED BY <1>5 DEF Known

LEMMA BeforeIsStart ==
  ASSUME Settled, NEW k \in Nat, k <= Count
  PROVE  Before(k) = FrameStart(k)
<1>1. Count \in Nat /\ Len(dec.frames) = Count BY SettledFacts
<1> DEFINE t == [n \in 0 .. k - 1 |-> dec.frames[n + 1].samples]
<1>2. t \in [0 .. k - 1 -> Nat]
  <2> SUFFICES ASSUME NEW n \in 0 .. k - 1 PROVE dec.frames[n + 1].samples \in Nat OBVIOUS
  <2>1. dec.frames \in Seq(Descriptors) BY DEF Settled, TypeOK
  <2>2. n + 1 \in 1 .. Len(dec.frames) BY <1>1
  <2>3. dec.frames[n + 1] \in Descriptors BY <2>1, <2>2
  <2>4. QED BY <2>3 DEF Descriptors
<1> HIDE DEF t
<1>3. PICK g \in [0 .. k -> Nat] : Sums(g, 0, t, k) BY <1>2, SumsExist
<1>4. g = [n \in 0 .. k |-> IF n = 0 THEN 0 ELSE g[n - 1] + dec.frames[n].samples]
  <2>1. \A n \in 0 .. k : g[n] = IF n = 0 THEN 0 ELSE g[n - 1] + t[n - 1] BY <1>3 DEF Sums
  <2>2. \A n \in 0 .. k : n # 0 => t[n - 1] = dec.frames[n].samples
    <3> SUFFICES ASSUME NEW n \in 0 .. k, n # 0 PROVE t[n - 1] = dec.frames[n].samples
      OBVIOUS
    <3>1. n - 1 \in 0 .. k - 1 /\ (n - 1) + 1 = n OBVIOUS
    <3>2. t[n - 1] = dec.frames[(n - 1) + 1].samples BY <3>1 DEF t
    <3>3. QED BY <3>1, <3>2
  <2>3. QED BY <2>1, <2>2
<1> DEFINE samples == CHOOSE f : f = [n \in 0 .. k |->
                        IF n = 0 THEN 0 ELSE f[n - 1] + dec.frames[n].samples]
<1>5. samples = [n \in 0 .. k |->
                  IF n = 0 THEN 0 ELSE samples[n - 1] + dec.frames[n].samples]
  BY <1>4, Zenon
<1>6. Before(k) = samples[k] * Nch BY Zenon DEF Before
<1> HIDE DEF samples
<1>7. \A n \in 0 .. k : samples[n] = IF n = 0 THEN 0 ELSE samples[n - 1] + dec.frames[n].samples
  BY <1>5, Zenon
<1>8. Counted(samples, k) BY <1>7, Zenon DEF Counted
<1>9. QED BY <1>6, <1>8, CountedIsStart

LEMMA SlotType ==
  ASSUME Settled, NEW s \in Steps, Gate(s) = NoError
  PROVE  /\ Slot(s).start \in Nat /\ Slot(s).stop \in Nat
         /\ Slot(s).start <= Slot(s).stop /\ Slot(s).stop <= TotalEntries
<1>1. /\ Count \in Nat /\ Len(dec.frames) = Count /\ Nch \in Nat /\ file.h.rate \in Nat
      /\ file.h.rate > 0 /\ file \in Files /\ TypeOK /\ Total \in Nat /\ FrameEntries \in Nat
      /\ TotalEntries \in Nat /\ TotalEntries = Total * Nch
  BY SettledFacts, FileType DEF Settled
<1>2. s.a \in Nat /\ s.b \in Nat /\ s.op \in Ops BY DEF Steps
<1>3. \A k \in Nat : FrameStart(k) \in Nat /\ FrameStart(k) <= TotalEntries
  <2> SUFFICES ASSUME NEW k \in Nat
               PROVE  FrameStart(k) \in Nat /\ FrameStart(k) <= TotalEntries
    OBVIOUS
  <2>1. k * FrameEntries \in Nat BY <1>1, ProductInNat
  <2>2. QED BY <1>1, <2>1 DEF FrameStart, Least
<1>4. \A x, y \in Nat : x <= y => x * Nch \in Nat /\ y * Nch \in Nat /\ x * Nch <= y * Nch
  <2>1. \A x, y, z \in Nat : x <= y => x * z <= y * z OBVIOUS
  <2>2. QED BY <1>1, <2>1, ProductInNat
<1>5. CASE s.op = "all" BY <1>1, <1>5 DEF Slot
<1>6. CASE s.op = "frames" BY <1>1, <1>2, <1>3, <1>6 DEF Slot
<1>7. CASE s.op = "at"
  <2>1. s.a + 1 \in Nat /\ s.a <= s.a + 1 BY <1>2
  <2>2. FrameStart(s.a) <= FrameStart(s.a + 1) BY <1>1, <1>2, <2>1, FrameOrder
  <2>3. QED BY <1>2, <1>3, <1>7, <2>1, <2>2 DEF Slot
<1>8. CASE s.op = "from"
  <2>1. SeekError(s.a) = NoError BY <1>8 DEF Gate
  <2>2. s.a < Total BY <1>2, <2>1, SeekTypes
  <2>3. s.a <= Total BY <1>1, <1>2, <2>2
  <2>4. s.a * Nch \in Nat /\ s.a * Nch <= TotalEntries BY <1>1, <1>2, <1>4, <2>3
  <2>5. QED BY <1>1, <1>8, <2>4 DEF Slot
<1>9. CASE s.op \in {"range", "time"}
  <2>1. Lo(s) \in Nat /\ Hi(s) \in Nat BY <1>1, <1>2, ClockTypes DEF Lo, Hi
  <2>2. ~(Lo(s) > Hi(s)) /\ ~(Hi(s) > Total) BY <1>9 DEF Gate, NoError
  <2>3. Lo(s) <= Hi(s) /\ Hi(s) <= Total BY <1>1, <2>1, <2>2
  <2>4. /\ Lo(s) * Nch \in Nat /\ Hi(s) * Nch \in Nat
        /\ Lo(s) * Nch <= Hi(s) * Nch /\ Hi(s) * Nch <= TotalEntries
    BY <1>1, <1>4, <2>1, <2>3
  <2>5. Slot(s) = [start |-> Lo(s) * Nch, stop |-> Hi(s) * Nch] BY <1>9 DEF Slot
  <2>6. QED BY <2>4, <2>5
<1>10. CASE s.op = "seek" BY <1>1, <1>10 DEF Slot, NoCall
<1>11. QED BY <1>2, <1>5, <1>6, <1>7, <1>8, <1>9, <1>10 DEF Ops

-----------------------------------------------------------------------------
(***************************************************************************)
(* The scripts.  An assertion is fair when the stream settles it: by       *)
(* itself (Fit), or because of the step before (FitAfter).  Every script   *)
(* is made of fair steps, and where a slice is asserted it begins with     *)
(* decode_all.                                                             *)
(***************************************************************************)
Leading == ~(target = "seek_table" /\ ~dec.crcOk)

Asks(s) ==
  /\ s.op \in {"frames", "at"} => s.a \in FrameArgs
  /\ s.op \in {"from", "range"} => s.a \in SampleArgs /\ s.b \in SampleArgs
  /\ s.op = "time" => s.a \in TimeArgs /\ s.b \in TimeArgs

Alone(s) ==
  \/ s.must = "any"
  \/ s.must = "whole" /\ s.op = "all"
  \/ /\ s.must = "slice" /\ Leading
     /\ s.op \in {"at", "frames", "from", "range"}
     /\ s.op \in {"at", "frames"} => s.a <= Count
  \/ s.must = "suffix" /\ Leading /\ s.op = "from" /\ Gate(s) = NoError
  \/ s.must = "slice of whole" /\ Leading /\ s.op = "at" /\ s.a < Count
  \/ s.must = "length" /\ s.op = "at" /\ s.a < Count
  \/ s.must = "lands" /\ s.op = "seek"
  \/ s.must = "accepted" /\ s.op = "seek" /\ Gate(s) = NoError
  \/ s.must = "refused" /\ Gate(s) \notin {NoError, FrameError}
  \/ s.must = Gate(s) /\ Gate(s) # NoError
  \/ RoundedAway(s)

Behind(p, s) ==
  \/ s.must = "twin" /\ (Gate(p) = NoError /\ Gate(s) = NoError => Slot(p) = Slot(s))
  \/ s.must = "verdict" /\ Walks(p) /\ Walks(s)

Fit(s) == s \in Steps /\ Asks(s) /\ Alone(s)
FitAfter(p, s) == s \in Steps /\ Asks(s) /\ Behind(p, s)

Fitting(S) ==
  /\ S \in Seq(Steps)
  /\ \A i \in 1 .. Len(S) : Fit(S[i]) \/ (i > 1 /\ FitAfter(S[i - 1], S[i]))

Leads(S) == Len(S) > 0 /\ S[1].op = "all"

LEMMA FitJoin ==
  ASSUME NEW S, NEW T, Fitting(S), Fitting(T)
  PROVE  Fitting(S \o T) /\ (Leads(S) => Leads(S \o T))
<1>1. S \in Seq(Steps) /\ T \in Seq(Steps) BY DEF Fitting
<1>2. /\ S \o T \in Seq(Steps) /\ Len(S \o T) = Len(S) + Len(T)
      /\ Len(S) \in Nat /\ Len(T) \in Nat
      /\ \A i \in 1 .. Len(S) + Len(T) : (S \o T)[i] = IF i <= Len(S) THEN S[i] ELSE T[i - Len(S)]
  BY <1>1, ConcatProperties
<1>3. ASSUME NEW i \in 1 .. Len(S) + Len(T)
      PROVE  Fit((S \o T)[i]) \/ (i > 1 /\ FitAfter((S \o T)[i - 1], (S \o T)[i]))
  <2>1. CASE i <= Len(S)
    <3>1. i \in 1 .. Len(S) /\ (S \o T)[i] = S[i] BY <1>2, <2>1
    <3>2. i > 1 => (S \o T)[i - 1] = S[i - 1] BY <1>2, <2>1
    <3>3. Fit(S[i]) \/ (i > 1 /\ FitAfter(S[i - 1], S[i])) BY <3>1 DEF Fitting
    <3>4. QED BY <3>1, <3>2, <3>3
  <2>2. CASE ~(i <= Len(S))
    <3> DEFINE k == i - Len(S)
    <3>1. k \in 1 .. Len(T) /\ (S \o T)[i] = T[k] BY <1>2, <2>2
    <3>2. k > 1 => i > 1 /\ (S \o T)[i - 1] = T[k - 1] BY <1>2, <2>2
    <3> HIDE DEF k
    <3>3. Fit(T[k]) \/ (k > 1 /\ FitAfter(T[k - 1], T[k])) BY <3>1 DEF Fitting
    <3>4. QED BY <3>1, <3>2, <3>3
  <2>3. QED BY <2>1, <2>2
<1>4. Leads(S) => Leads(S \o T)
  <2> SUFFICES ASSUME Leads(S) PROVE Leads(S \o T) OBVIOUS
  <2>1. Len(S) > 0 /\ S[1].op = "all" BY DEF Leads
  <2>2. (S \o T)[1] = S[1] /\ Len(S \o T) > 0 BY <1>2, <2>1
  <2>3. QED BY <2>1, <2>2 DEF Leads
<1>5. QED BY <1>2, <1>3, <1>4 DEF Fitting

LEMMA FitNone == Fitting(<<>>)
  BY DEF Fitting

LEMMA FitOne ==
  ASSUME NEW s, Fit(s) PROVE Fitting(<<s>>) /\ (s.op = "all" => Leads(<<s>>))
<1>1. s \in Steps BY DEF Fit
<1>2. <<s>> \in Seq(Steps) /\ Len(<<s>>) = 1 /\ <<s>>[1] = s BY <1>1
<1>3. QED BY <1>2 DEF Fitting, Leads

LEMMA FitTwo ==
  ASSUME NEW s, NEW t, Fit(s), Fit(t) \/ FitAfter(s, t)
  PROVE  Fitting(<<s, t>>) /\ (s.op = "all" => Leads(<<s, t>>))
<1>1. s \in Steps /\ t \in Steps BY DEF Fit, FitAfter
<1> DEFINE S == <<s, t>>
<1>2. S \in Seq(Steps) /\ Len(S) = 2 /\ S[1] = s /\ S[2] = t BY <1>1
<1> HIDE DEF S
<1>3. \A i \in 1 .. Len(S) : i = 1 \/ i = 2 BY <1>2
<1>4. Fitting(S) /\ (s.op = "all" => Leads(S)) BY <1>2, <1>3 DEF Fitting, Leads
<1>5. QED BY <1>4 DEF S

\* Five fair steps.
LEMMA FitFive ==
  ASSUME NEW s, NEW t, NEW u, NEW v, NEW w, Fit(s), Fit(t), Fit(u), Fit(v), Fit(w)
  PROVE  Fitting(<<s, t, u, v, w>>)
<1>1. s \in Steps /\ t \in Steps /\ u \in Steps /\ v \in Steps /\ w \in Steps BY DEF Fit
<1> DEFINE S == <<s, t, u, v, w>>
<1>2. /\ S \in Seq(Steps) /\ Len(S) = 5 /\ S[1] = s /\ S[2] = t /\ S[3] = u /\ S[4] = v
      /\ S[5] = w
  BY <1>1
<1> HIDE DEF S
<1>3. \A i \in 1 .. Len(S) : i = 1 \/ i = 2 \/ i = 3 \/ i = 4 \/ i = 5 BY <1>2
<1>4. Fitting(S) BY <1>2, <1>3 DEF Fitting
<1>5. QED BY <1>4 DEF S

\* Fair steps and no others, as many as there are frames.
LEMMA FitEach ==
  ASSUME NEW n \in Nat, NEW S, S \in [1 .. n -> Steps], \A i \in 1 .. n : Fit(S[i])
  PROVE  Fitting(S)
<1>1. S \in Seq(Steps) /\ Len(S) = n OBVIOUS
<1>2. QED BY <1>1 DEF Fitting

-----------------------------------------------------------------------------
\* The steps one by one.
Of(s, op, a, b, must) ==
  s \in Steps /\ s.op = op /\ s.a = a /\ s.b = b /\ s.must = must

LEMMA Fields ==
  ASSUME NEW must \in Musts, NEW mode \in {"lazy", "eager"}, NEW a \in Nat, NEW b \in Nat
  PROVE  /\ Of(All(must), "all", 0, 0, must) /\ Of(Frames(a, must), "frames", a, 0, must)
         /\ Of(At(a, must), "at", a, 0, must) /\ Of(From(mode, a, must), "from", a, 0, must)
         /\ Of(Range_(mode, a, b, must), "range", a, b, must)
         /\ Of(Times(mode, a, b, must), "time", a, b, must)
         /\ Of(Seek(a, must), "seek", a, 0, must)
  BY DEF Of, All, Frames, At, From, Range_, Times, Seek, Step, Steps, Ops

LEMMA MustsHold ==
  /\ {"any", "whole", "slice", "suffix", "slice of whole", "twin", "verdict", "length",
      "lands", "accepted", "refused"} \subseteq Musts
  /\ {"FrameIndexOutOfRange", "SampleIndexOutOfRange", "SeekTableUnreliable"} \subseteq Musts
  BY DEF Musts, Refusals

LEMMA FitAll ==
  /\ Fit(All("any")) /\ Fit(All("whole"))
  /\ All("any").op = "all" /\ All("whole").op = "all"
<1>1. Of(All("any"), "all", 0, 0, "any") /\ Of(All("whole"), "all", 0, 0, "whole")
  BY Fields, MustsHold
<1>2. QED BY <1>1 DEF Of, Fit, Asks, Alone

LEMMA FitVerdict ==
  ASSUME Settled, NEW p, Walks(p)
  PROVE  /\ FitAfter(p, All("verdict")) /\ Walks(All("verdict"))
         /\ FitAfter(p, Frames(0, "verdict"))
<1>1. /\ Of(All("verdict"), "all", 0, 0, "verdict")
      /\ Of(Frames(0, "verdict"), "frames", 0, 0, "verdict")
  BY Fields, MustsHold
<1>2. 0 \in FrameArgs BY SettledFacts DEF FrameArgs
<1>3. QED BY <1>1, <1>2 DEF Of, FitAfter, Asks, Behind, Walks

LEMMA FitFrames ==
  ASSUME Settled, Leading, NEW k \in Nat, k <= Count
  PROVE  Fit(Frames(k, "slice"))
<1>1. Of(Frames(k, "slice"), "frames", k, 0, "slice") BY Fields, MustsHold
<1>2. k \in FrameArgs BY SettledFacts DEF FrameArgs
<1>3. QED BY <1>1, <1>2 DEF Of, Fit, Asks, Alone

LEMMA FitAt ==
  ASSUME Settled, NEW k \in Nat
  PROVE  /\ k < Count /\ Leading => Fit(At(k, "slice")) /\ Fit(At(k, "slice of whole"))
         /\ k < Count => Fit(At(k, "length"))
         /\ k = 0 => Fit(At(k, "any"))
         /\ k = Count => Fit(At(k, "FrameIndexOutOfRange"))
<1>1. /\ Of(At(k, "slice"), "at", k, 0, "slice")
      /\ Of(At(k, "slice of whole"), "at", k, 0, "slice of whole")
      /\ Of(At(k, "length"), "at", k, 0, "length")
      /\ Of(At(k, "any"), "at", k, 0, "any")
      /\ Of(At(k, "FrameIndexOutOfRange"), "at", k, 0, "FrameIndexOutOfRange")
  BY Fields, MustsHold
<1>2. Count \in Nat BY SettledFacts
<1>3. k <= Count => k \in FrameArgs BY <1>2 DEF FrameArgs
<1>4. k < Count => k <= Count BY <1>2
<1>5. ASSUME k = Count, NEW s, Of(s, "at", k, 0, "FrameIndexOutOfRange") PROVE Fit(s)
  <2>1. s.a = k /\ s.op = "at" /\ s.must = "FrameIndexOutOfRange" /\ s \in Steps BY <1>5 DEF Of
  <2>2. s.a >= Count BY <1>2, <1>5, <2>1
  <2>3. Gate(s) = "FrameIndexOutOfRange" BY <2>1, <2>2 DEF Gate
  <2>4. s.a \in FrameArgs BY <1>2, <1>3, <1>5, <2>1
  <2>5. QED BY <2>1, <2>3, <2>4 DEF Fit, Asks, Alone, NoError
<1>6. ASSUME k = 0, NEW s, Of(s, "at", k, 0, "any") PROVE Fit(s)
  <2>1. s.a = k /\ s.op = "at" /\ s.must = "any" /\ s \in Steps BY <1>6 DEF Of
  <2>2. s.a \in FrameArgs BY <1>2, <1>3, <1>6, <2>1
  <2>3. QED BY <2>1, <2>2 DEF Fit, Asks, Alone
<1>7. /\ k = Count => Fit(At(k, "FrameIndexOutOfRange"))
      /\ k = 0 => Fit(At(k, "any"))
  BY <1>1, <1>5, <1>6
<1>8. k < Count => Fit(At(k, "length")) BY <1>1, <1>3, <1>4 DEF Of, Fit, Asks, Alone
<1>9. k < Count /\ Leading => Fit(At(k, "slice")) /\ Fit(At(k, "slice of whole"))
  BY <1>1, <1>3, <1>4 DEF Of, Fit, Asks, Alone
<1>10. QED BY <1>7, <1>8, <1>9

LEMMA FitSeek ==
  ASSUME Settled, NEW s \in Nat
  PROVE  /\ Fit(Seek(s, "lands"))
         /\ dec.crcOk /\ s < Total => Fit(Seek(s, "accepted"))
         /\ dec.crcOk /\ s = Total => Fit(Seek(s, "SampleIndexOutOfRange"))
         /\ ~dec.crcOk => Fit(Seek(s, "SeekTableUnreliable"))
<1>1. /\ Of(Seek(s, "lands"), "seek", s, 0, "lands")
      /\ Of(Seek(s, "accepted"), "seek", s, 0, "accepted")
      /\ Of(Seek(s, "SampleIndexOutOfRange"), "seek", s, 0, "SampleIndexOutOfRange")
      /\ Of(Seek(s, "SeekTableUnreliable"), "seek", s, 0, "SeekTableUnreliable")
  BY Fields, MustsHold
<1>2. Total \in Nat BY SettledFacts
<1>3. \A must \in Musts : Of(Seek(s, must), "seek", s, 0, must) => Gate(Seek(s, must)) = SeekError(s)
  BY DEF Of, Gate
<1>4. Fit(Seek(s, "lands")) BY <1>1 DEF Of, Fit, Asks, Alone
<1>5. dec.crcOk /\ s < Total => Fit(Seek(s, "accepted"))
  <2> SUFFICES ASSUME dec.crcOk, s < Total PROVE Fit(Seek(s, "accepted")) OBVIOUS
  <2>1. SeekError(s) = NoError BY SeekAccepted
  <2>2. Gate(Seek(s, "accepted")) = NoError BY <1>1, <1>3, <2>1, MustsHold
  <2>3. QED BY <1>1, <2>2 DEF Of, Fit, Asks, Alone
<1>6. dec.crcOk /\ s = Total => Fit(Seek(s, "SampleIndexOutOfRange"))
  <2> SUFFICES ASSUME dec.crcOk, s = Total PROVE Fit(Seek(s, "SampleIndexOutOfRange")) OBVIOUS
  <2>1. SeekError(s) = "SampleIndexOutOfRange" BY <1>2 DEF SeekError, Total
  <2>2. Gate(Seek(s, "SampleIndexOutOfRange")) = "SampleIndexOutOfRange"
    BY <1>1, <1>3, <2>1, MustsHold
  <2>3. QED BY <1>1, <2>2 DEF Of, Fit, Asks, Alone, NoError
<1>7. ~dec.crcOk => Fit(Seek(s, "SeekTableUnreliable"))
  <2> SUFFICES ASSUME ~dec.crcOk PROVE Fit(Seek(s, "SeekTableUnreliable")) OBVIOUS
  <2>1. SeekError(s) = "SeekTableUnreliable" BY DEF SeekError
  <2>2. Gate(Seek(s, "SeekTableUnreliable")) = "SeekTableUnreliable"
    BY <1>1, <1>3, <2>1, MustsHold
  <2>3. QED BY <1>1, <2>2 DEF Of, Fit, Asks, Alone, NoError
<1>8. QED BY <1>4, <1>5, <1>6, <1>7

LEMMA FitFrom ==
  ASSUME Settled, NEW mode \in {"lazy", "eager"}, NEW s \in Nat, s <= Total
  PROVE  /\ Leading => Fit(From(mode, s, "slice"))
         /\ Leading /\ dec.crcOk /\ s < Total => Fit(From(mode, s, "suffix"))
         /\ ~dec.crcOk => Fit(From(mode, s, "SeekTableUnreliable")) /\ Fit(From(mode, s, "refused"))
         /\ \A p : Of(p, "from", s, 0, "slice") => FitAfter(p, From(mode, s, "twin"))
         /\ \A p : Of(p, "range", s, Total, "any") => FitAfter(p, From(mode, s, "twin"))
<1>1. /\ Of(From(mode, s, "slice"), "from", s, 0, "slice")
      /\ Of(From(mode, s, "suffix"), "from", s, 0, "suffix")
      /\ Of(From(mode, s, "twin"), "from", s, 0, "twin")
      /\ Of(From(mode, s, "refused"), "from", s, 0, "refused")
      /\ Of(From(mode, s, "SeekTableUnreliable"), "from", s, 0, "SeekTableUnreliable")
  BY Fields, MustsHold
<1>2. Total \in Nat /\ TotalEntries = Total * Nch BY SettledFacts
<1>3. s \in SampleArgs /\ 0 \in SampleArgs BY <1>2 DEF SampleArgs, Total
<1>4. Leading => Fit(From(mode, s, "slice")) BY <1>1, <1>3 DEF Of, Fit, Asks, Alone
<1>5. ~dec.crcOk => Fit(From(mode, s, "SeekTableUnreliable")) /\ Fit(From(mode, s, "refused"))
  <2> SUFFICES ASSUME ~dec.crcOk
               PROVE  Fit(From(mode, s, "SeekTableUnreliable")) /\ Fit(From(mode, s, "refused"))
    OBVIOUS
  <2>1. SeekError(s) = "SeekTableUnreliable" BY DEF SeekError
  <2>2. /\ Gate(From(mode, s, "SeekTableUnreliable")) = "SeekTableUnreliable"
        /\ Gate(From(mode, s, "refused")) = "SeekTableUnreliable"
    BY <1>1, <2>1 DEF Of, Gate
  <2>3. QED BY <1>1, <1>3, <2>2 DEF Of, Fit, Asks, Alone, NoError, FrameError
<1>10. Leading /\ dec.crcOk /\ s < Total => Fit(From(mode, s, "suffix"))
  <2> SUFFICES ASSUME Leading, dec.crcOk, s < Total PROVE Fit(From(mode, s, "suffix"))
    OBVIOUS
  <2>1. SeekError(s) = NoError BY SeekAccepted
  <2>2. Gate(From(mode, s, "suffix")) = NoError BY <1>1, <2>1 DEF Of, Gate
  <2>3. QED BY <1>1, <1>3, <2>2 DEF Of, Fit, Asks, Alone
<1>6. Slot(From(mode, s, "twin")) = [start |-> s * Nch, stop |-> TotalEntries]
  BY <1>1 DEF Of, Slot
<1>7. ASSUME NEW p, Of(p, "from", s, 0, "slice") PROVE FitAfter(p, From(mode, s, "twin"))
  <2>1. Slot(p) = [start |-> s * Nch, stop |-> TotalEntries] BY <1>7 DEF Of, Slot
  <2>2. QED BY <1>1, <1>3, <1>6, <2>1 DEF Of, FitAfter, Asks, Behind
<1>8. ASSUME NEW p, Of(p, "range", s, Total, "any") PROVE FitAfter(p, From(mode, s, "twin"))
  <2>1. Lo(p) = s /\ Hi(p) = Total BY <1>8 DEF Of, Lo, Hi
  <2>2. Slot(p) = [start |-> s * Nch, stop |-> TotalEntries] BY <1>2, <1>8, <2>1 DEF Of, Slot
  <2>3. QED BY <1>1, <1>3, <1>6, <2>2 DEF Of, FitAfter, Asks, Behind
<1>9. QED BY <1>4, <1>5, <1>7, <1>8, <1>10

LEMMA FitRange ==
  ASSUME Settled, NEW mode \in {"lazy", "eager"}, NEW a \in Nat, a <= Total, NEW b \in Nat,
         b <= Total
  PROVE  /\ Fit(Range_(mode, a, b, "any"))
         /\ Leading => Fit(Range_(mode, a, b, "slice"))
         /\ a > b => Fit(Range_(mode, a, b, "refused"))
         /\ ~dec.crcOk /\ a < b => Fit(Range_(mode, a, b, "SeekTableUnreliable"))
         /\ \A p : p.op = "range" /\ p.a = a /\ p.b = b => FitAfter(p, Range_(mode, a, b, "twin"))
<1>1. /\ Of(Range_(mode, a, b, "any"), "range", a, b, "any")
      /\ Of(Range_(mode, a, b, "slice"), "range", a, b, "slice")
      /\ Of(Range_(mode, a, b, "refused"), "range", a, b, "refused")
      /\ Of(Range_(mode, a, b, "SeekTableUnreliable"), "range", a, b, "SeekTableUnreliable")
      /\ Of(Range_(mode, a, b, "twin"), "range", a, b, "twin")
  BY Fields, MustsHold
<1>2. Total \in Nat BY SettledFacts
<1>3. a \in SampleArgs /\ b \in SampleArgs BY <1>2 DEF SampleArgs, Total
<1>4. Fit(Range_(mode, a, b, "any")) BY <1>1, <1>3 DEF Of, Fit, Asks, Alone
<1>5. Leading => Fit(Range_(mode, a, b, "slice")) BY <1>1, <1>3 DEF Of, Fit, Asks, Alone
<1>6. a > b => Fit(Range_(mode, a, b, "refused"))
  <2> SUFFICES ASSUME a > b PROVE Fit(Range_(mode, a, b, "refused")) OBVIOUS
  <2>1. Gate(Range_(mode, a, b, "refused")) = "SampleIndexOutOfRange"
    BY <1>1 DEF Of, Gate, Lo, Hi
  <2>2. QED BY <1>1, <1>3, <2>1 DEF Of, Fit, Asks, Alone, NoError, FrameError
<1>7. ~dec.crcOk /\ a < b => Fit(Range_(mode, a, b, "SeekTableUnreliable"))
  <2> SUFFICES ASSUME ~dec.crcOk, a < b PROVE Fit(Range_(mode, a, b, "SeekTableUnreliable"))
    OBVIOUS
  <2>1. SeekError(a) = "SeekTableUnreliable" BY DEF SeekError
  <2>2. Gate(Range_(mode, a, b, "SeekTableUnreliable")) = "SeekTableUnreliable"
    BY <1>1, <1>2, <2>1 DEF Of, Gate, Lo, Hi
  <2>3. QED BY <1>1, <1>3, <2>2 DEF Of, Fit, Asks, Alone, NoError
<1>8. ASSUME NEW p, p.op = "range", p.a = a, p.b = b
      PROVE  FitAfter(p, Range_(mode, a, b, "twin"))
  <2>1. Slot(p) = Slot(Range_(mode, a, b, "twin")) BY <1>1, <1>8 DEF Of, Slot, Lo, Hi
  <2>2. QED BY <1>1, <1>3, <2>1 DEF Of, FitAfter, Asks, Behind
<1>9. QED BY <1>4, <1>5, <1>6, <1>7, <1>8

\* A stream's beginning and its duration are moments it hands out.
LEMMA FitTimes ==
  ASSUME Settled
  PROVE  Fitting(time_calls)
<1>1. Total \in Nat /\ file.h.rate \in Nat /\ file.h.rate > 0 BY SettledFacts
<1>2. 0 \in SampleArgs /\ Total \in SampleArgs BY <1>1 DEF SampleArgs, Total
<1>3. total_duration \in SampleTimes /\ total_duration \in Nat
  BY <1>1, <1>2, ClockTypes DEF total_duration, SampleTimes, Total
<1>4. DurationAt(0, file.h.rate) = 0
  <2> DEFINE r == file.h.rate
  <2>0. r \in Nat /\ r > 0 /\ TicksPerSecond \in Nat BY <1>1, ClockAssumption
  <2> HIDE DEF r
  <2>1. r * 0 + 0 = 0 BY <2>0
  <2>2. 0 \div r = 0 BY <2>0, <2>1, DivOf
  <2>3. 0 % r = 0 BY <2>0, <2>1, ModOf
  <2>4. 0 * TicksPerSecond = 0 BY <2>0
  <2>5. DurationAt(0, r) = 0 BY <2>0, <2>2, <2>3, <2>4 DEF DurationAt
  <2>6. QED BY <2>5 DEF r
<1>5. 0 \in TimeArgs /\ total_duration \in TimeArgs
  BY <1>2, <1>3, <1>4 DEF TimeArgs, SampleTimes
<1> DEFINE s == Times("eager", 0, total_duration, "any")
           t == Times("lazy", 0, total_duration, "twin")
<1>6. Of(s, "time", 0, total_duration, "any") /\ Of(t, "time", 0, total_duration, "twin")
  BY <1>3, Fields, MustsHold
<1> DEFINE e == Times("eager", total_duration, 0, "refused")
           l == Times("lazy", total_duration, 0, "refused")
           B == IF total_duration > 0 THEN <<e, l>> ELSE <<>>
<1>7. time_calls = <<s, t>> \o B BY DEF time_calls
<1>12. /\ Of(e, "time", total_duration, 0, "refused")
       /\ Of(l, "time", total_duration, 0, "refused")
  BY <1>3, Fields, MustsHold
<1> HIDE DEF s, t, e, l
<1>8. Fit(s) BY <1>5, <1>6 DEF Of, Fit, Asks, Alone
<1>9. Slot(s) = Slot(t) BY <1>6 DEF Of, Slot, Lo, Hi
<1>10. FitAfter(s, t) BY <1>5, <1>6, <1>9 DEF Of, FitAfter, Asks, Behind
<1>11. Fitting(<<s, t>>) BY <1>8, <1>10, FitTwo
\* Backwards it is refused, or nothing is left of the duration.
<1>13. ASSUME NEW x, Of(x, "time", total_duration, 0, "refused") PROVE Fit(x)
  <2>1. /\ x \in Steps /\ x.op = "time" /\ x.a = total_duration /\ x.b = 0
        /\ x.must = "refused"
    BY <1>13 DEF Of
  <2>2. Lo(x) = SampleAt(total_duration, file.h.rate) /\ Hi(x) = SampleAt(0, file.h.rate)
    BY <2>1 DEF Lo, Hi
  <2>3. SampleAt(total_duration, file.h.rate) \in Nat BY <1>1, <1>3, ClockTypes
  <2>4. SampleAt(0, file.h.rate) = 0
    <3>1. TicksPerSecond \in Nat /\ TicksPerSecond > 0 BY ClockAssumption
    <3>2. 0 * file.h.rate = TicksPerSecond * 0 + 0 BY <1>1, <3>1
    <3>3. (0 * file.h.rate) \div TicksPerSecond = 0 BY <3>1, <3>2, DivOf
    <3>4. QED BY <3>3 DEF SampleAt
  <2>5. CASE SampleAt(total_duration, file.h.rate) = 0
    <3>1. RoundedAway(x) BY <2>1, <2>5 DEF RoundedAway
    <3>2. QED BY <1>5, <2>1, <3>1 DEF Fit, Asks, Alone
  <2>6. CASE SampleAt(total_duration, file.h.rate) # 0
    <3>1. Lo(x) > Hi(x) BY <2>2, <2>3, <2>4, <2>6
    <3>2. Gate(x) = "SampleIndexOutOfRange" BY <2>1, <3>1 DEF Gate
    <3>3. QED BY <1>5, <2>1, <3>2 DEF Fit, Asks, Alone, NoError, FrameError
  <2>7. QED BY <2>5, <2>6
<1>14. Fitting(B)
  <2>1. Fit(e) /\ Fit(l) BY <1>12, <1>13
  <2>2. QED BY <2>1, FitTwo, FitNone
<1> HIDE DEF B
<1>15. QED BY <1>7, <1>11, <1>14, FitJoin

-----------------------------------------------------------------------------
\* The scripts, target by target.
Targeted == target \in TargetNames /\ seed \in Nat \X Nat \X Nat /\ Suits(target)

LEMMA WrapType ==
  ASSUME NEW n \in Nat, NEW m \in Nat
  PROVE  Wrap(n, m) \in Nat /\ (m > 0 => Wrap(n, m) < m)
<1>1. CASE m = 0 BY <1>1 DEF Wrap
<1>2. CASE m > 0
  <2>1. n % m \in Nat /\ n % m < m BY <1>2, DivMod
  <2>2. QED BY <1>2, <2>1 DEF Wrap
<1>3. QED BY <1>1, <1>2

LEMMA SeedType ==
  ASSUME Targeted PROVE seed[1] \in Nat /\ seed[2] \in Nat /\ seed[3] \in Nat
  BY DEF Targeted

LEMMA BoundsType ==
  ASSUME Settled, Targeted
  PROVE  /\ Bounds[1] \in Nat /\ Bounds[1] <= Total
         /\ Bounds[2] \in Nat /\ Bounds[2] <= Total
<1> DEFINE a == Wrap(seed[1], Total + 1)
           b == Wrap(seed[2], Total + 1)
           least == Least(a, b)
           most  == a + b - least
<1>1. Total \in Nat /\ Total + 1 \in Nat /\ Total + 1 > 0 BY SettledFacts
<1>2. a \in Nat /\ a < Total + 1 /\ b \in Nat /\ b < Total + 1 BY <1>1, SeedType, WrapType
<1> HIDE DEF a, b
<1>3. a <= Total /\ b <= Total BY <1>1, <1>2
<1>4. least \in Nat /\ most \in Nat /\ least <= Total /\ most <= Total
  BY <1>1, <1>2, <1>3 DEF Least
<1>5. Bounds = CASE seed[3] % 4 = 0 -> <<least, most>>
                 [] seed[3] % 4 = 1 -> <<most, least>>
                 [] seed[3] % 4 = 2 -> <<0, 0>>
                 [] OTHER -> <<Total, Total>>
  BY DEF Bounds, a, b
<1> HIDE DEF least, most
<1>6. Bounds \in {<<least, most>>, <<most, least>>, <<0, 0>>, <<Total, Total>>}
  <2> DEFINE c == seed[3] % 4
  <2> HIDE DEF c
  <2>1. CASE c = 0 BY <1>5, <2>1 DEF c
  <2>2. CASE c = 1 BY <1>5, <2>2 DEF c
  <2>3. CASE c = 2 BY <1>5, <2>3 DEF c
  <2>4. CASE c # 0 /\ c # 1 /\ c # 2 BY <1>5, <2>4 DEF c
  <2>5. QED BY <2>1, <2>2, <2>3, <2>4
<1>7. QED BY <1>1, <1>4, <1>6

LEMMA RangeScript ==
  ASSUME Settled, Targeted, target = "sample_range"
  PROVE  Fitting(Script) /\ Leads(Script)
<1> DEFINE a == Bounds[1]
           b == Bounds[2]
           s1 == All("any")
           s2 == From("eager", a, "slice")
           s3 == From("lazy", a, "twin")
           s4 == Range_("eager", a, b, IF a > b THEN "refused" ELSE "slice")
           s5 == Range_("lazy", a, b, IF a > b THEN "refused" ELSE "twin")
           s6 == Range_("eager", 0, Total, "slice")
           s7 == Range_("eager", a, Total, "any")
           s8 == From("eager", a, "twin")
           S == <<s1, s2, s3, s4, s5, s6>>
           T == IF a < Total THEN <<s7, s8>> ELSE <<>>
<1>1. a \in Nat /\ a <= Total /\ b \in Nat /\ b <= Total BY BoundsType
<1>2. Leading BY DEF Leading
<1>3. Total \in Nat /\ 0 <= Total /\ Total <= Total BY SettledFacts
<1>4. Script = (S \o T) \o time_calls BY DEF Script, sample_range, range_calls
<1>5. Fit(s1) /\ s1.op = "all" BY FitAll
<1> HIDE DEF a, b
<1>6. Fit(s2) BY <1>1, <1>2, FitFrom
<1>7. FitAfter(s2, s3)
  <2>1. Of(s2, "from", a, 0, "slice") BY <1>1, Fields, MustsHold
  <2> HIDE DEF s2
  <2>2. QED BY <1>1, <2>1, FitFrom
<1>8. Fit(s4)
  <2>1. CASE a > b BY <1>1, <2>1, FitRange
  <2>2. CASE ~(a > b) BY <1>1, <1>2, <2>2, FitRange
  <2>3. QED BY <2>1, <2>2
<1>9. Fit(s5) \/ FitAfter(s4, s5)
  <2>1. CASE a > b BY <1>1, <2>1, FitRange
  <2>2. CASE ~(a > b)
    <3>1. s4 = Range_("eager", a, b, "slice") /\ s5 = Range_("lazy", a, b, "twin") BY <2>2
    <3> HIDE DEF s4, s5
    <3>2. Of(s4, "range", a, b, "slice") BY <1>1, <3>1, Fields, MustsHold
    <3>3. s4.op = "range" /\ s4.a = a /\ s4.b = b BY <3>2 DEF Of
    <3>4. FitAfter(s4, s5) BY <1>1, <3>1, <3>3, FitRange
    <3>5. QED BY <3>4
  <2>3. QED BY <2>1, <2>2
<1>10. Fit(s6) BY <1>2, <1>3, FitRange
<1>11. Fit(s7) /\ FitAfter(s7, s8)
  <2>1. Fit(s7) BY <1>1, <1>3, FitRange
  <2>2. Of(s7, "range", a, Total, "any") BY <1>1, <1>3, Fields, MustsHold
  <2> HIDE DEF s7
  <2>3. FitAfter(s7, s8) BY <1>1, <2>2, FitFrom
  <2>4. QED BY <2>1, <2>3
<1> HIDE DEF s1, s2, s3, s4, s5, s6, s7, s8
<1>12. Fitting(S) /\ Leads(S)
  <2>1. /\ s1 \in Steps /\ s2 \in Steps /\ s3 \in Steps /\ s4 \in Steps /\ s5 \in Steps
        /\ s6 \in Steps
    BY <1>5, <1>6, <1>7, <1>8, <1>9, <1>10 DEF Fit, FitAfter
  <2>2. /\ S \in Seq(Steps) /\ Len(S) = 6 /\ S[1] = s1 /\ S[2] = s2 /\ S[3] = s3
        /\ S[4] = s4 /\ S[5] = s5 /\ S[6] = s6
    BY <2>1
  <2> HIDE DEF S
  <2>3. \A i \in 1 .. Len(S) : i = 1 \/ i = 2 \/ i = 3 \/ i = 4 \/ i = 5 \/ i = 6 BY <2>2
  <2>4. QED
    BY <1>5, <1>6, <1>7, <1>8, <1>9, <1>10, <2>2, <2>3 DEF Fitting, Leads
<1>13. Fitting(T) BY <1>11, FitTwo, FitNone
<1> HIDE DEF S, T
<1>14. Fitting(S \o T) /\ Leads(S \o T) BY <1>12, <1>13, FitJoin
<1>15. QED BY <1>4, <1>14, FitTimes, FitJoin

LEMMA StreamingFits ==
  ASSUME Settled, Targeted, target \in {"streaming_decode", "password_streaming"}
  PROVE  Fitting(Script) /\ Leads(Script)
<1> DEFINE n == Len(dec.frames)
           s1 == All("any")
           s2 == Frames(0, "verdict")
           s3 == IF dec.frames = <<>> THEN At(0, "any") ELSE At(seed[1] % n, "slice")
           s4 == Seek(Wrap(seed[2], Total), "lands")
           s5 == Frames(seed[3] % (n + 1), "slice")
           S == <<s1, s2, s3, s4, s5>>
<1>1. n = Count /\ n \in Nat /\ Total \in Nat BY SettledFacts
<1>2. Leading BY DEF Leading
<1>3. Script = S BY DEF Script, streaming_decode, password_streaming
<1>4. seed[1] \in Nat /\ seed[2] \in Nat /\ seed[3] \in Nat BY SeedType
<1>5. Fit(s1) /\ s1.op = "all" BY FitAll
<1>6. FitAfter(s1, s2)
  <2>1. Walks(s1) BY <1>5 DEF Walks
  <2> HIDE DEF s1
  <2>2. QED BY <2>1, FitVerdict
<1>7. Fit(s3)
  <2>1. CASE dec.frames = <<>> BY <2>1, FitAt
  <2>2. CASE dec.frames # <<>>
    <3> DEFINE k == seed[1] % n
    <3>1. n > 0
      <4>1. dec.frames \in Seq(Descriptors) BY DEF Settled, TypeOK
      <4>2. QED BY <2>2, <4>1
    <3>2. k \in Nat /\ k < n BY <1>1, <1>4, <3>1, DivMod
    <3>3. s3 = At(k, "slice") BY <2>2
    <3> HIDE DEF k, s3
    <3>4. k < Count BY <1>1, <3>2
    <3>5. QED BY <1>2, <3>2, <3>3, <3>4, FitAt
  <2>3. QED BY <2>1, <2>2
<1>8. Fit(s4) BY <1>1, <1>4, WrapType, FitSeek
<1>9. Fit(s5)
  <2> DEFINE k == seed[3] % (n + 1)
  <2>1. k \in Nat /\ k < n + 1
    <3>1. n + 1 \in Nat /\ n + 1 > 0 BY <1>1
    <3> HIDE DEF n
    <3>2. QED BY <1>4, <3>1, DivMod
  <2>2. k <= Count BY <1>1, <2>1
  <2> HIDE DEF k
  <2>3. QED BY <1>2, <2>1, <2>2, FitFrames DEF k
<1> HIDE DEF s1, s2, s3, s4, s5
<1>10. s1 \in Steps /\ s2 \in Steps /\ s3 \in Steps /\ s4 \in Steps /\ s5 \in Steps
  BY <1>5, <1>6, <1>7, <1>8, <1>9 DEF Fit, FitAfter
<1>11. /\ S \in Seq(Steps) /\ Len(S) = 5 /\ S[1] = s1 /\ S[2] = s2 /\ S[3] = s3
       /\ S[4] = s4 /\ S[5] = s5
  BY <1>10
<1> HIDE DEF S
<1>12. \A i \in 1 .. Len(S) : i = 1 \/ i = 2 \/ i = 3 \/ i = 4 \/ i = 5 BY <1>11
<1>13. Fitting(S) /\ Leads(S)
  BY <1>5, <1>6, <1>7, <1>8, <1>9, <1>11, <1>12 DEF Fitting, Leads
<1>14. QED BY <1>3, <1>13

LEMMA CorruptFits ==
  ASSUME Settled, Targeted, target = "password_corrupt"
  PROVE  Fitting(Script) /\ Leads(Script)
<1> DEFINE n == Len(dec.frames)
           k == seed[1] % n
           w == Wrap(seed[1], Total)
           s1 == All("whole")
           s2 == All("verdict")
           s3 == Frames(0, "verdict")
           s4 == At(k, "slice of whole")
           s5 == Seek(w, "accepted")
           s6 == From("eager", w, "slice")
           T == IF dec.crcOk THEN <<s5, s6>> ELSE <<>>
<1>1. n = Count /\ n \in Nat /\ Total \in Nat BY SettledFacts
<1>2. Leading BY DEF Leading
<1>3. Total > 0 BY DEF Targeted, Suits
<1>4. n > 0
  <2>1. 0 \in Nat /\ SeekFrame(file.h, 0) < FrameCount(file.h)
    BY <1>1, <1>3, SettledFacts, SampleHasFrame DEF Total
  <2>2. SeekFrame(file.h, 0) \in Nat BY <1>1, <1>3, SettledFacts, SeekInside DEF Total
  <2>3. QED BY <1>1, <2>1, <2>2 DEF Count
<1>5. seed[1] \in Nat BY SeedType
<1>6. k \in Nat /\ k < n BY <1>1, <1>4, <1>5, DivMod
<1>7. k < Count BY <1>1, <1>6
<1>8. w \in Nat /\ w < Total BY <1>1, <1>3, <1>5, WrapType
<1>9. w <= Total BY <1>1, <1>8
<1>10. Script = <<s1, s2>> \o (<<s3, s4>> \o T)
  <2>1. dec.frames # <<>>
    <3>1. dec.frames \in Seq(Descriptors) BY DEF Settled, TypeOK
    <3>2. QED BY <1>4, <3>1
  <2>2. QED BY <2>1 DEF Script, drive_password
<1> HIDE DEF k, w
<1>11. Fit(s1) /\ s1.op = "all" BY FitAll
<1>12. Walks(s1) BY <1>11 DEF Walks
<1>13. FitAfter(s1, s2) /\ Walks(s2)
  <2> HIDE DEF s1
  <2>1. QED BY <1>12, FitVerdict
<1>14. FitAfter(s2, s3)
  <2> HIDE DEF s2
  <2>1. QED BY <1>13, FitVerdict
<1>15. Fit(s4) BY <1>2, <1>6, <1>7, FitAt
<1>16. dec.crcOk => Fit(s5) BY <1>8, FitSeek
<1>17. Fit(s6) BY <1>2, <1>8, <1>9, FitFrom
<1> HIDE DEF s1, s2, s3, s4, s5, s6
<1>18. Fitting(T) BY <1>16, <1>17, FitTwo, FitNone
<1> HIDE DEF T
<1> DEFINE S == <<s1, s2, s3, s4>>
<1>19. Fitting(S) /\ Leads(S)
  <2>1. s1 \in Steps /\ s2 \in Steps /\ s3 \in Steps /\ s4 \in Steps
    BY <1>11, <1>13, <1>14, <1>15 DEF Fit, FitAfter
  <2>2. S \in Seq(Steps) /\ Len(S) = 4 /\ S[1] = s1 /\ S[2] = s2 /\ S[3] = s3 /\ S[4] = s4
    BY <2>1
  <2> HIDE DEF S
  <2>3. \A i \in 1 .. Len(S) : i = 1 \/ i = 2 \/ i = 3 \/ i = 4 BY <2>2
  <2>4. QED BY <1>11, <1>13, <1>14, <1>15, <2>2, <2>3 DEF Fitting, Leads
<1>20. Script = S \o T
  <2>1. s1 \in Steps /\ s2 \in Steps /\ s3 \in Steps /\ s4 \in Steps /\ T \in Seq(Steps)
    BY <1>11, <1>13, <1>14, <1>15, <1>18 DEF Fit, FitAfter, Fitting
  <2>2. <<s1, s2>> \o (<<s3, s4>> \o T) = S \o T BY <2>1
  <2>3. QED BY <1>10, <2>2
<1> HIDE DEF S
<1>21. QED BY <1>18, <1>19, <1>20, FitJoin

LEMMA SeekableFits ==
  ASSUME Settled, Targeted, target = "seek_table", dec.crcOk
  PROVE  Fitting(Script) /\ Leads(Script)
<1> DEFINE n == Len(dec.frames)
           s1 == All("whole")
           s2 == Frames(0, "verdict")
           s3 == At(n, "FrameIndexOutOfRange")
           s4 == Seek(Total, "SampleIndexOutOfRange")
           s5 == From("eager", Total \div 2, "suffix")
           S == <<s1, s2>>
           F == [k \in DOMAIN dec.frames |-> At(k - 1, "length")]
           P == [i \in DOMAIN Probes |-> Seek(Probes[i], "accepted")]
           T == <<s4, s5>>
<1>1. n = Count /\ n \in Nat /\ Total \in Nat BY SettledFacts
<1>2. Leading BY DEF Leading
<1>3. Total > 0 BY DEF Targeted, Suits
<1>4. Script = (((S \o F) \o <<s3>>) \o P) \o T BY DEF Script, drive_seekable
<1>5. Fit(s1) /\ s1.op = "all" BY FitAll
<1>6. FitAfter(s1, s2)
  <2>1. Walks(s1) BY <1>5 DEF Walks
  <2> HIDE DEF s1
  <2>2. QED BY <2>1, FitVerdict
<1>7. Fit(s3) BY <1>1, FitAt
<1>8. Fit(s4) BY <1>1, FitSeek
<1>9. Total \div 2 \in Nat /\ Total \div 2 < Total BY <1>1, <1>3
<1>10. Fit(s5)
  <2> DEFINE h == Total \div 2
  <2>1. h \in Nat /\ h <= Total /\ h < Total BY <1>1, <1>9
  <2> HIDE DEF h
  <2>2. QED BY <1>2, <2>1, FitFrom DEF h
<1>11. Fitting(F)
  <2>1. DOMAIN dec.frames = 1 .. n
    <3>1. dec.frames \in Seq(Descriptors) BY DEF Settled, TypeOK
    <3>2. QED BY <3>1
  <2>2. ASSUME NEW k \in 1 .. n PROVE Fit(At(k - 1, "length"))
    <3>1. k - 1 \in Nat /\ k - 1 < Count BY <1>1
    <3>2. QED BY <3>1, FitAt
  <2>3. \A k \in 1 .. n : At(k - 1, "length") \in Steps BY <2>2 DEF Fit
  <2>4. F \in [1 .. n -> Steps] /\ \A k \in 1 .. n : F[k] = At(k - 1, "length")
    BY <2>1, <2>3
  <2> HIDE DEF F, n
  <2>5. \A k \in 1 .. n : Fit(F[k]) BY <2>2, <2>4
  <2>6. QED BY <1>1, <2>4, <2>5, FitEach
<1>12. Fitting(P)
  <2>1. DOMAIN Probes = 1 .. 4 BY DEF Probes
  <2> DEFINE w == Wrap(seed[1], Total)
  <2>2. w \in Nat /\ w < Total BY <1>1, <1>3, SeedType, WrapType
  <2>3. /\ Probes[1] = 0 /\ Probes[2] = Total - 1 /\ Probes[3] = w /\ Probes[4] = Total \div 2
    BY DEF Probes
  <2> HIDE DEF w
  <2>4. \A i \in 1 .. 4 : Probes[i] \in Nat /\ Probes[i] < Total
    <3>1. \A i \in 1 .. 4 : i = 1 \/ i = 2 \/ i = 3 \/ i = 4 OBVIOUS
    <3>2. QED BY <1>1, <1>3, <1>9, <2>2, <2>3, <3>1
  <2>5. \A i \in 1 .. 4 : Fit(Seek(Probes[i], "accepted")) BY <2>4, FitSeek
  <2>6. \A i \in 1 .. 4 : Seek(Probes[i], "accepted") \in Steps BY <2>5 DEF Fit
  <2>7. P \in [1 .. 4 -> Steps] /\ \A i \in 1 .. 4 : P[i] = Seek(Probes[i], "accepted")
    BY <2>1, <2>6
  <2> HIDE DEF P
  <2>8. \A i \in 1 .. 4 : Fit(P[i]) BY <2>5, <2>7
  <2>9. QED BY <2>7, <2>8, FitEach
<1> HIDE DEF s1, s2, s3, s4, s5, F, P
<1>13. Fitting(S) /\ Leads(S) BY <1>5, <1>6, FitTwo
<1>14. Fitting(<<s3>>) /\ Fitting(T) BY <1>7, <1>8, <1>10, FitOne, FitTwo
<1> HIDE DEF S, T
<1>15. Fitting(S \o F) /\ Leads(S \o F) BY <1>11, <1>13, FitJoin
<1>16. Fitting((S \o F) \o <<s3>>) /\ Leads((S \o F) \o <<s3>>) BY <1>14, <1>15, FitJoin
<1>17. /\ Fitting(((S \o F) \o <<s3>>) \o P) /\ Leads(((S \o F) \o <<s3>>) \o P)
  BY <1>12, <1>16, FitJoin
<1>18. QED BY <1>4, <1>14, <1>17, FitJoin

LEMMA UnseekableFits ==
  ASSUME Settled, Targeted, target = "seek_table", ~dec.crcOk
  PROVE  Fitting(Script)
<1> DEFINE probe(s) ==
             << Seek(s, "SeekTableUnreliable"), From("eager", s, "SeekTableUnreliable"),
                Range_("eager", s, Total, "SeekTableUnreliable"), From("lazy", s, "refused"),
                Seek(SampleAt(0, file.h.rate), "SeekTableUnreliable") >>
<1>1. Total \in Nat /\ file.h.rate \in Nat BY SettledFacts
<1>2. Total > 0 BY DEF Targeted, Suits
<1>3. ASSUME NEW s \in Nat, s < Total PROVE Fitting(probe(s))
  <2>1. s <= Total /\ Total <= Total BY <1>1, <1>3
  <2>2. Fit(Seek(s, "SeekTableUnreliable")) BY FitSeek
  <2>3. /\ Fit(From("eager", s, "SeekTableUnreliable")) /\ Fit(From("lazy", s, "refused"))
    BY <2>1, FitFrom
  <2>4. Fit(Range_("eager", s, Total, "SeekTableUnreliable")) BY <1>1, <1>3, <2>1, FitRange
  <2>5. Fit(Seek(SampleAt(0, file.h.rate), "SeekTableUnreliable"))
    BY <1>1, ClockTypes, FitSeek
  <2>6. QED BY <2>2, <2>3, <2>4, <2>5, FitFive
<1>4. 0 < Total /\ Total - 1 \in Nat /\ Total - 1 < Total
      /\ Total \div 2 \in Nat /\ Total \div 2 < Total
  BY <1>1, <1>2
<1>5. Script = (probe(0) \o probe(Total \div 2)) \o probe(Total - 1)
  BY DEF Script, drive_unseekable
<1>6. Fitting(probe(0)) /\ Fitting(probe(Total \div 2)) /\ Fitting(probe(Total - 1))
  BY <1>3, <1>4
<1> HIDE DEF probe
<1>7. Fitting(probe(0) \o probe(Total \div 2)) BY <1>6, FitJoin
<1>8. QED BY <1>5, <1>6, <1>7, FitJoin

LEMMA ScriptFits ==
  ASSUME Settled, Targeted
  PROVE  /\ Fitting(Script) /\ (Leading => Leads(Script))
         /\ Len(Script) \in Nat /\ \A i \in 1 .. Len(Script) : Script[i] \in Steps /\ Asks(Script[i])
<1>1. Fitting(Script) /\ (Leading => Leads(Script))
  BY RangeScript, StreamingFits, CorruptFits, SeekableFits, UnseekableFits
  DEF Targeted, TargetNames, Leading
<1>2. Script \in Seq(Steps) BY <1>1 DEF Fitting
<1>3. \A i \in 1 .. Len(Script) : Asks(Script[i]) BY <1>1 DEF Fitting, Fit, FitAfter
<1>4. QED BY <1>1, <1>2, <1>3

-----------------------------------------------------------------------------
(***************************************************************************)
(* Keeping the notes.  While a target runs, the stream, the table and the  *)
(* script stay what they are, so what was noted stays true.                *)
(***************************************************************************)
Base == AudioInv /\ OpenedInv /\ SpentInv /\ StopInv /\ HeardInv

LEMMA InitBase == Init => Base
  BY InitAudio, InitOpened, InitSpent, InitStop, InitHeard DEF Base

LEMMA StepBase == Base /\ [Next]_vars => Base'
  BY StepAudio, StepOpened, StepSpent, StepStop, StepHeard DEF Base, AudioInv

LEMMA BaseSettled == ASSUME Base, Started PROVE Settled
  BY DEF Base, AudioInv, Typed, Settled

\* Nothing of the script is left to the caller's state.
LEMMA ScriptKept ==
  ASSUME UNCHANGED <<file, dec, target, seed>>
  PROVE  Script' = Script
<1>1. Bounds' = Bounds BY DEF Bounds, Total
<1>2. range_calls' = range_calls BY <1>1 DEF range_calls, Total
<1>3. time_calls' = time_calls BY DEF time_calls, total_duration
<1>4. sample_range' = sample_range BY <1>2, <1>3 DEF sample_range
<1>5. streaming_decode' = streaming_decode BY DEF streaming_decode, Total
<1>6. password_streaming' = password_streaming BY <1>5 DEF password_streaming
<1>7. drive_password' = drive_password BY DEF drive_password, Total
<1>8. Probes' = Probes BY DEF Probes, Total
<1>9. drive_seekable' = drive_seekable BY <1>8 DEF drive_seekable, Total
<1>10. drive_unseekable' = drive_unseekable BY DEF drive_unseekable, Total
<1>11. QED BY <1>4, <1>5, <1>6, <1>7, <1>9, <1>10 DEF Script

LEMMA NotedKept ==
  ASSUME UNCHANGED <<file, dec, target, seed>>
  PROVE  /\ \A s : Gate(s)' = Gate(s) /\ Slot(s)' = Slot(s)
         /\ \A s, n : Noted(s, n) => Noted(s, n)'
<1>1. \A w : Good(w)' = Good(w) BY SoundKept
<1>2. \A k : FrameStart(k)' = FrameStart(k) BY SoundKept
<1>3. \A s : SeekError(s)' = SeekError(s) BY DEF SeekError
<1>4. Count' = Count /\ Total' = Total /\ Nch' = Nch /\ TotalEntries' = TotalEntries
  BY DEF Count, Total, Nch, TotalEntries
<1>5. \A s : Lo(s)' = Lo(s) /\ Hi(s)' = Hi(s) BY DEF Lo, Hi
<1>6. \A s : Gate(s)' = Gate(s) BY <1>1, <1>3, <1>4, <1>5 DEF Gate
<1>7. \A s : Slot(s)' = Slot(s) BY <1>2, <1>4, <1>5 DEF Slot
<1>8. AllGood' = AllGood BY <1>1 DEF AllGood
<1>9. \A pcm, at : Hears(pcm, at)' = Hears(pcm, at)
  <2>1. \A e : Heard(e)' = Heard(e) BY SoundKept
  <2>2. QED BY <2>1 DEF Hears
<1>12. TableIntact(file)' = TableIntact(file) /\ RightKey' = RightKey BY DEF RightKey
<1>10. \A s, n : Noted(s, n)' = Noted(s, n) BY <1>6, <1>7, <1>8, <1>9, <1>12 DEF Noted
<1>11. QED BY <1>6, <1>7, <1>10

\* The notes stay when a step leaves the stream, the script and them alone.
LEMMA NotesStay ==
  ASSUME TargetInv, UNCHANGED <<file, dec, target, seed, notes>>, target # "free",
         Len(notes) < Len(Script), Started, Started',
         \A s \in {Script[Len(notes) + 1]} : Underway(s)'
  PROVE  TargetInv'
<1>1. Script' = Script BY ScriptKept
<1>2. Suits(target)' BY DEF TargetInv, Suits, Total
<1>3. \A i \in 1 .. Len(notes') :
        i <= Len(Script') /\ \A s \in {Script'[i]}, n \in {notes'[i]} : Noted(s, n)'
  BY <1>1, NotedKept DEF TargetInv
<1>4. \A s \in {Script'[Len(notes') + 1]} : Underway(s)' BY <1>1
<1>5. Len(notes') < Len(Script') BY <1>1
<1>6. /\ target' \in {"free"} \cup TargetNames /\ seed' \in Nat \X Nat \X Nat
      /\ notes' \in Seq(NoteRecords)
  BY DEF TargetInv
<1>7. QED BY <1>2, <1>3, <1>4, <1>5, <1>6 DEF TargetInv

\* Before the first call there is nothing to keep.
LEMMA NothingNoted ==
  ASSUME TargetInv, UNCHANGED <<file, target, seed, notes>>, notes = <<>>,
         Started' => pc' = "idle"
  PROVE  TargetInv'
<1>1. target # "free" => Suits(target)' BY DEF TargetInv, Suits, Total
<1>2. QED BY <1>1 DEF TargetInv

-----------------------------------------------------------------------------
\* A step of a target is a step of the decoder's caller.
LEMMA InitTarget == TargetInit => Init /\ TargetInv /\ OpeningInv
<1> SUFFICES ASSUME TargetInit PROVE TargetInv /\ OpeningInv BY DEF TargetInit
<1>1. target \in {"free"} \cup TargetNames /\ (target # "free" => Suits(target))
  BY DEF TargetInit, TargetNames
<1>2. seed \in Nat \X Nat \X Nat BY SeedsAssumption DEF TargetInit
<1>3. notes = <<>> /\ pc = "closed" BY DEF TargetInit, Init
<1>4. QED BY <1>1, <1>2, <1>3 DEF TargetInv, OpeningInv, Started

\* What the step under way asks for is a call that any caller may make.
LEMMA CallsAllowed ==
  ASSUME Base, TargetInv, TargetCalls
  PROVE  /\ Next /\ Settled /\ Targeted
         /\ Script[Len(notes) + 1] \in Steps /\ Len(notes) + 1 \in 1 .. Len(Script)
<1> DEFINE s == Script[Len(notes) + 1]
<1>1. /\ target # "free" /\ pc = "idle" /\ Len(notes) < Len(Script)
      /\ \/ s.op = "all" /\ DecodeAll
         \/ s.op = "frames" /\ FrameIterFrom(s.a)
         \/ s.op = "at" /\ DecodeFrameAt(s.a)
         \/ s.op = "from" /\ FromSample(s.mode, s.a)
         \/ s.op = "range" /\ SampleRange(s.mode, s.a, s.b)
         \/ s.op = "time" /\ TimeRange(s.mode, s.a, s.b)
         \/ s.op = "seek" /\ SeekToSample(s.a)
  BY DEF TargetCalls
<1>2. Settled BY <1>1, BaseSettled DEF Started
<1>3. Targeted BY <1>1 DEF TargetInv, Targeted
<1>4. Len(notes) + 1 \in 1 .. Len(Script)
  <2>1. Len(Script) \in Nat BY <1>2, <1>3, ScriptFits
  <2>2. notes \in Seq(NoteRecords) BY DEF TargetInv
  <2>3. QED BY <1>1, <2>1, <2>2
<1>5. s \in Steps /\ Asks(s) BY <1>2, <1>3, <1>4, ScriptFits
<1> HIDE DEF s
<1>6. s.mode \in {"lazy", "eager"} /\ s.a \in Nat BY <1>5 DEF Steps
<1>7. ASSUME s.op = "seek", SeekToSample(s.a) PROVE Next
  <2>1. Total \in Nat BY <1>2, SettledFacts
  <2> DEFINE m == Total + 1
  <2>2. m \in SampleArgs /\ m >= Total BY <2>1 DEF SampleArgs, Total
  <2>3. CASE s.a <= m
    <3>1. s.a \in SampleArgs BY <1>6, <2>1, <2>3 DEF SampleArgs, Total
    <3>2. QED BY <1>7, <3>1 DEF Next
  <2>4. CASE ~(s.a <= m)
    <3>1. s.a >= Total BY <1>6, <2>1, <2>4
    <3> HIDE DEF m
    <3>2. SeekError(s.a) = SeekError(m) BY <2>2, <3>1 DEF SeekError, Total
    <3>3. SeekToSample(m) BY <1>7, <3>2 DEF SeekToSample
    <3>4. QED BY <2>2, <3>3 DEF Next
  <2>5. QED BY <2>3, <2>4
<1>8. ASSUME s.op # "seek" PROVE Next
  <2>1. \/ DecodeAll
        \/ s.a \in FrameArgs /\ (FrameIterFrom(s.a) \/ DecodeFrameAt(s.a))
        \/ s.a \in SampleArgs /\ FromSample(s.mode, s.a)
        \/ s.a \in SampleArgs /\ s.b \in SampleArgs /\ SampleRange(s.mode, s.a, s.b)
        \/ s.a \in TimeArgs /\ s.b \in TimeArgs /\ TimeRange(s.mode, s.a, s.b)
    BY <1>1, <1>5, <1>8 DEF Asks, s
  <2>2. QED BY <1>6, <2>1 DEF Next
<1>9. Next BY <1>1, <1>7, <1>8 DEF s
<1>10. QED BY <1>2, <1>3, <1>4, <1>5, <1>9 DEF s

LEMMA TargetSteps ==
  Base /\ TargetInv /\ [TargetNext]_targetVars => [Next]_vars
<1> SUFFICES ASSUME Base, TargetInv, [TargetNext]_targetVars PROVE [Next]_vars OBVIOUS
<1>1. CASE FreeCall BY <1>1 DEF FreeCall
<1>2. CASE TargetOpens
  <2>1. Passwords \subseteq Digests \cup {NoPassword} BY DEF Passwords
  <2>2. QED BY <1>2, <2>1 DEF TargetOpens, Next
<1>3. CASE TargetParses BY <1>3 DEF TargetParses, Next
<1>4. CASE TargetCalls BY <1>4, CallsAllowed
<1>5. CASE TargetCollects BY <1>5 DEF TargetCollects, Next
<1>6. CASE TargetNotes BY <1>6 DEF TargetNotes, Next
<1>7. CASE UNCHANGED targetVars BY <1>7 DEF targetVars
<1>8. QED BY <1>1, <1>2, <1>3, <1>4, <1>5, <1>6, <1>7 DEF TargetNext

\* Making the call puts its step under way.
LEMMA CallUnderway ==
  ASSUME Base, TargetInv, TargetCalls
  PROVE  /\ Started' /\ UNCHANGED <<file, dec, target, seed, notes>>
         /\ \A s \in {Script[Len(notes) + 1]} : Underway(s)'
<1>0. PICK s : s = Script[Len(notes) + 1] OBVIOUS
<1> DEFINE Begins == /\ UNCHANGED <<file, dec>>
                     /\ IF Gate(s) # NoError THEN pc' = "returned" /\ item' = Gate(s)
                        ELSE /\ call' = Slot(s)
                             /\ IF AtOnce(s) THEN pc' = "returned" /\ item' = "Ok"
                                ELSE pc' \in {"lazy", "eager"} /\ item' = "None"
<1>1. /\ UNCHANGED <<target, seed, notes>> /\ pc = "idle"
      /\ \/ s.op = "all" /\ DecodeAll
         \/ s.op = "frames" /\ FrameIterFrom(s.a)
         \/ s.op = "at" /\ DecodeFrameAt(s.a)
         \/ s.op = "from" /\ FromSample(s.mode, s.a)
         \/ s.op = "range" /\ SampleRange(s.mode, s.a, s.b)
         \/ s.op = "time" /\ TimeRange(s.mode, s.a, s.b)
         \/ s.op = "seek" /\ SeekToSample(s.a)
  BY <1>0 DEF TargetCalls
<1>2. Settled /\ s \in Steps BY <1>0, CallsAllowed
<1>3. s.mode \in {"lazy", "eager"} /\ s.a \in Nat BY <1>2 DEF Steps
<1>4. ASSUME NEW mode \in {"lazy", "eager"}, NEW iter, NEW start, NEW stop,
             Iterate(mode, iter, start, stop), Gate(s) = NoError, ~AtOnce(s),
             Slot(s) = [start |-> start, stop |-> stop]
      PROVE  Begins
  BY <1>4 DEF Iterate, Reset
<1>5. ASSUME NEW answer, NEW start, NEW stop, Gate(s) # NoError, answer = Gate(s),
             Answer(answer, <<>>, start, stop)
      PROVE  Begins
  BY <1>5 DEF Answer
<1>6. ASSUME NEW pcm, NEW start, NEW stop, Gate(s) = NoError, AtOnce(s),
             Answer("Ok", pcm, start, stop), Slot(s) = [start |-> start, stop |-> stop]
      PROVE  Begins
  BY <1>6 DEF Answer
<1> HIDE DEF Begins
<1>7. ASSUME s.op = "all", DecodeAll PROVE Begins
  <2>1. Gate(s) = NoError /\ ~AtOnce(s) /\ Slot(s) = [start |-> 0, stop |-> TotalEntries]
    BY <1>7 DEF Gate, AtOnce, Slot
  <2>2. Iterate("eager", FramesFrom(0), 0, TotalEntries) BY <1>7 DEF DecodeAll
  <2>3. QED BY <1>4, <2>1, <2>2
<1>8. ASSUME s.op = "frames", FrameIterFrom(s.a) PROVE Begins
  <2>1. /\ Gate(s) = NoError /\ ~AtOnce(s)
        /\ Slot(s) = [start |-> FrameStart(s.a), stop |-> TotalEntries]
    BY <1>8 DEF Gate, AtOnce, Slot
  <2>2. Iterate("lazy", FramesFrom(s.a), FrameStart(s.a), TotalEntries)
    BY <1>8 DEF FrameIterFrom
  <2>3. QED BY <1>4, <2>1, <2>2
<1>9. ASSUME s.op = "at", DecodeFrameAt(s.a) PROVE Begins
  <2>1. AtOnce(s) /\ Slot(s) = [start |-> FrameStart(s.a), stop |-> FrameStart(s.a + 1)]
    BY <1>9 DEF AtOnce, Slot
  <2>2. Len(dec.frames) = Count BY <1>2, SettledFacts
  <2>3. CASE s.a >= Count
    <3>1. Gate(s) = "FrameIndexOutOfRange" BY <1>9, <2>3 DEF Gate
    <3>2. Answer("FrameIndexOutOfRange", <<>>, 0, 0) BY <1>9, <2>2, <2>3 DEF DecodeFrameAt
    <3>3. QED BY <1>5, <3>1, <3>2 DEF NoError
  <2>4. CASE ~(s.a >= Count) /\ ~Good(s.a)
    <3>1. Gate(s) = FrameError BY <1>9, <2>4 DEF Gate
    <3>2. Answer(FrameError, <<>>, FrameStart(s.a), FrameStart(s.a + 1))
      BY <1>9, <2>2, <2>4 DEF DecodeFrameAt, Good
    <3>3. QED BY <1>5, <3>1, <3>2 DEF NoError, FrameError
  <2>5. CASE ~(s.a >= Count) /\ Good(s.a)
    <3>1. Gate(s) = NoError BY <1>9, <2>5 DEF Gate
    <3>2. Answer("Ok", DecodeFrame(dec.frames[s.a + 1]), FrameStart(s.a), FrameStart(s.a + 1))
      BY <1>9, <2>2, <2>5 DEF DecodeFrameAt, Good
    <3>3. QED BY <1>6, <2>1, <3>1, <3>2
  <2>6. QED BY <2>3, <2>4, <2>5
<1>10. ASSUME s.op = "from", FromSample(s.mode, s.a) PROVE Begins
  <2>1. Gate(s) = SeekError(s.a) /\ ~AtOnce(s)
        /\ Slot(s) = [start |-> s.a * Nch, stop |-> TotalEntries]
    BY <1>10 DEF Gate, AtOnce, Slot
  <2>2. CASE SeekError(s.a) # NoError
    <3>1. Answer(SeekError(s.a), <<>>, 0, 0) BY <1>10, <2>2 DEF FromSample
    <3>2. QED BY <1>5, <2>1, <2>2, <3>1
  <2>3. CASE SeekError(s.a) = NoError
    <3>1. Iterate(s.mode, SkipFrom(s.a), s.a * Nch, TotalEntries)
      BY <1>10, <2>3 DEF FromSample
    <3>2. QED BY <1>3, <1>4, <2>1, <2>3, <3>1
  <2>4. QED BY <2>2, <2>3
<1>11. ASSUME s.op \in {"range", "time"}, SampleRange(s.mode, Lo(s), Hi(s)) PROVE Begins
  <2> DEFINE a == Lo(s)
             b == Hi(s)
  <2>1. /\ Gate(s) = IF a > b \/ b > Total THEN "SampleIndexOutOfRange"
                     ELSE IF a = b THEN NoError ELSE SeekError(a)
        /\ ~AtOnce(s) /\ Slot(s) = [start |-> a * Nch, stop |-> b * Nch]
    BY <1>11 DEF Gate, AtOnce, Slot
  <2>2. SampleRange(s.mode, a, b) BY <1>11
  <2> HIDE DEF a, b
  <2>3. CASE a > b \/ b > Total
    <3>1. Answer("SampleIndexOutOfRange", <<>>, 0, 0) BY <2>2, <2>3 DEF SampleRange, Total
    <3>2. Gate(s) = "SampleIndexOutOfRange" BY <2>1, <2>3
    <3>3. QED BY <1>5, <3>1, <3>2 DEF NoError
  <2>4. CASE ~(a > b \/ b > Total) /\ a = b
    <3>1. Iterate(s.mode, [FramesFrom(Len(dec.frames)) EXCEPT !.kind = "range"],
                  a * Nch, b * Nch)
      BY <2>2, <2>4 DEF SampleRange, Total
    <3>2. Gate(s) = NoError BY <2>1, <2>4
    <3>3. QED BY <1>3, <1>4, <2>1, <3>1, <3>2
  <2>5. CASE ~(a > b \/ b > Total) /\ a # b /\ SeekError(a) # NoError
    <3>1. Answer(SeekError(a), <<>>, 0, 0) BY <2>2, <2>5 DEF SampleRange, Total
    <3>2. Gate(s) = SeekError(a) BY <2>1, <2>5
    <3>3. QED BY <1>5, <2>5, <3>1, <3>2
  <2>6. CASE ~(a > b \/ b > Total) /\ a # b /\ SeekError(a) = NoError
    <3>1. Iterate(s.mode, [SkipFrom(a) EXCEPT !.kind = "range", !.left = (b - a) * Nch],
                  a * Nch, b * Nch)
      BY <2>2, <2>6 DEF SampleRange, Total
    <3>2. Gate(s) = NoError BY <2>1, <2>6
    <3>3. QED BY <1>3, <1>4, <2>1, <3>1, <3>2
  <2>7. QED BY <2>3, <2>4, <2>5, <2>6
<1>12. ASSUME s.op = "range", SampleRange(s.mode, s.a, s.b) PROVE Begins
  <2>1. Lo(s) = s.a /\ Hi(s) = s.b BY <1>12 DEF Lo, Hi
  <2>2. QED BY <1>11, <1>12, <2>1
<1>13. ASSUME s.op = "time", TimeRange(s.mode, s.a, s.b) PROVE Begins
  <2>1. Lo(s) = SampleAt(s.a, file.h.rate) /\ Hi(s) = SampleAt(s.b, file.h.rate)
    BY <1>13 DEF Lo, Hi
  <2>2. SampleRange(s.mode, Lo(s), Hi(s)) BY <1>13, <2>1 DEF TimeRange
  <2>3. QED BY <1>11, <1>13, <2>2
<1>14. ASSUME s.op = "seek", SeekToSample(s.a) PROVE Begins
  <2>1. Gate(s) = SeekError(s.a) /\ AtOnce(s) /\ Slot(s) = [start |-> 0, stop |-> 0]
    BY <1>14 DEF Gate, AtOnce, Slot, NoCall
  <2>2. CASE SeekError(s.a) # NoError
    <3>1. Answer(SeekError(s.a), <<>>, 0, 0) BY <1>14, <2>2 DEF SeekToSample
    <3>2. QED BY <1>5, <2>1, <2>2, <3>1
  <2>3. CASE SeekError(s.a) = NoError
    <3>1. Answer("Ok", <<>>, 0, 0) BY <1>14, <2>3 DEF SeekToSample
    <3>2. QED BY <1>6, <2>1, <2>3, <3>1
  <2>4. QED BY <2>2, <2>3
<1>15. Begins
  BY <1>1, <1>7, <1>8, <1>9, <1>10, <1>12, <1>13, <1>14
<1> USE DEF Begins
<1>16. UNCHANGED <<file, dec>> BY <1>15
<1>17. Gate(s)' = Gate(s) /\ Slot(s)' = Slot(s) BY <1>1, <1>16, NotedKept
<1>18. Underway(s)' BY <1>15, <1>17 DEF Underway, AtOnce, FrameError
<1>19. Started' BY <1>15 DEF Started
<1>20. QED BY <1>0, <1>1, <1>16, <1>18, <1>19

\* So does every turn of its loop.
LEMMA CollectUnderway ==
  ASSUME Base, TargetInv, TargetCollects
  PROVE  /\ Started /\ Started' /\ UNCHANGED <<file, dec, target, seed, notes>>
         /\ target # "free" /\ Len(notes) < Len(Script)
         /\ \A s \in {Script[Len(notes) + 1]} : Underway(s)'
<1>0. PICK s : s = Script[Len(notes) + 1] OBVIOUS
<1> DEFINE r == IterNext(it)
<1>1. /\ UNCHANGED <<target, seed, notes>> /\ target # "free" /\ ~Answered
      /\ Poll \/ Collect
      /\ UNCHANGED <<file, dec, call>> /\ pc \in {"lazy", "eager"}
  BY DEF TargetCollects, Poll, Collect
<1>2. Started /\ Len(notes) < Len(Script) /\ Underway(s)
  BY <1>0, <1>1 DEF TargetInv, Started
<1>3. Gate(s) = NoError /\ ~AtOnce(s) /\ call = Slot(s)
  BY <1>1, <1>2 DEF Underway
<1>4. /\ Typed /\ TypeOK /\ TableInv /\ it.kind # "none" /\ AudioInv /\ OpenedInv
      /\ StopInv
  BY <1>1 DEF Base, AudioInv, Typed, HasIterator
<1>5. item \notin {"End", FrameError} BY <1>1, <1>4 DEF Answered, StopInv
<1>6. /\ Reached \in Nat /\ call.start <= Reached /\ Reached <= call.stop
      /\ call.stop <= TotalEntries /\ Ahead(it, Reached)
      /\ Nch > 0 /\ file.h.rate > 0 /\ Len(dec.frames) = Count
  <2>1. call.start \in Nat /\ Len(collected) \in Nat BY <1>4 DEF TypeOK
  <2>2. Reached \in Nat /\ call.start <= Reached BY <2>1 DEF Reached
  <2>3. Nch > 0 /\ file.h.rate > 0 BY <1>1, <1>4, OpenedPositive
  <2>4. Len(dec.frames) = Count BY <1>1, <1>4 DEF TableInv
  <2>5. QED BY <1>1, <1>4, <1>5, <2>2, <2>3, <2>4 DEF StopInv
<1>7. TurnStops(r, Reached) BY <1>4, <1>6, TurnAhead
<1> HIDE DEF r
<1>8. /\ r.item \in {"Pcm", "End", FrameError}
      /\ r.item = "End" => r.pcm = <<>> /\ Reached = call.stop
  BY <1>7 DEF TurnStops, FrameError
<1>9. Gate(s)' = Gate(s) /\ Slot(s)' = Slot(s) BY <1>1, NotedKept
<1>10. CASE Poll
  <2>1. pc' = "lazy" /\ item' = r.item /\ collected' = collected \o r.pcm
    BY <1>10 DEF Poll, r
  <2>2. item' = "End" => Reached' = call'.stop
    <3> SUFFICES ASSUME item' = "End" PROVE Reached' = call'.stop OBVIOUS
    <3>1. collected' = collected \o <<>> /\ Reached = call.stop BY <1>8, <2>1
    <3>2. collected' = collected BY <1>4, <3>1 DEF TypeOK
    <3>3. QED BY <1>1, <3>1, <3>2 DEF Reached
  <2>3. Underway(s)' BY <1>1, <1>3, <1>8, <1>9, <2>1, <2>2 DEF Underway, AtOnce, FrameError
  <2>4. QED BY <1>0, <1>1, <1>2, <2>1, <2>3 DEF Started
<1>11. CASE Collect
  <2>1. /\ item' = IF r.item = "End" THEN "Ok" ELSE r.item
        /\ pc' = IF r.item = "Pcm" THEN "eager" ELSE "returned"
    BY <1>11 DEF Collect, r
  <2>2. Underway(s)' BY <1>1, <1>3, <1>8, <1>9, <2>1 DEF Underway, AtOnce, FrameError
  <2>3. Started' BY <2>1 DEF Started
  <2>4. QED BY <1>0, <1>1, <1>2, <2>2, <2>3
<1>12. QED BY <1>1, <1>10, <1>11

\* Having walked the whole stream tells whether every frame decodes.
LEMMA Verdict ==
  ASSUME Base, pc \in {"lazy", "returned"}, call.start = 0, call.stop = TotalEntries
  PROVE  /\ item \in {"Ok", "End"} /\ Reached = call.stop => AllGood
         /\ item = FrameError => ~AllGood
<1>1. Settled /\ HeardInv /\ StopInv BY BaseSettled DEF Started, Base
<1>2. /\ Count \in Nat /\ TotalEntries \in Nat /\ FrameEntries \in Nat /\ file \in Files
      /\ Nch > 0 /\ file.h.rate > 0 /\ TypeOK
  BY <1>1, SettledFacts, FileType DEF Settled
<1>3. FrameIds(file) = 0 .. Count - 1 BY DEF FrameIds, Count
<1>4. ASSUME NEW w \in FrameIds(file)
      PROVE  /\ w \in Nat /\ FrameStart(w) \in Nat /\ FrameStart(w + 1) \in Nat
             /\ FrameStart(w) < FrameStart(w + 1) /\ FrameStart(w + 1) <= TotalEntries
  <2>1. w \in Nat /\ w + 1 \in Nat /\ w < Count BY <1>2, <1>3
  <2>2. FrameStart(w) \in Nat /\ FrameStart(w + 1) \in Nat BY <1>2, <2>1, FileType
  <2>3. FrameStart(w) < FrameStart(w + 1) BY <1>2, <2>1, FrameHolds
  <2>4. (w + 1) * FrameEntries \in Nat BY <1>2, <2>1, ProductInNat
  <2>5. FrameStart(w + 1) <= TotalEntries BY <1>2, <2>4 DEF FrameStart, Least
  <2>6. QED BY <2>1, <2>2, <2>3, <2>5
<1>5. \A w \in FrameIds(file) : Requested(w) BY <1>2, <1>4 DEF Requested
<1>6. AllGood <=> Failures = {} BY <1>5 DEF AllGood, Failures
<1>7. ASSUME Reached = call.stop PROVE Failures = {}
  <2> SUFFICES ASSUME NEW w \in Failures PROVE FALSE OBVIOUS
  <2>1. w \in FrameIds(file) BY DEF Failures
  <2>2. call.stop <= FirstRequested(w)
    BY <1>1, <1>7 DEF HeardInv, Safely
  <2>3. FirstRequested(w) < TotalEntries BY <1>2, <1>4, <2>1 DEF FirstRequested
  <2>4. FirstRequested(w) \in Nat BY <1>4, <2>1 DEF FirstRequested
  <2>5. QED BY <1>2, <2>2, <2>3, <2>4
<1>8. item = FrameError => Failures # {} BY <1>1 DEF StopInv
<1>9. QED BY <1>6, <1>7, <1>8

\* An answer tells of the stream what the step was under way to find out.
LEMMA AnswerNoted ==
  ASSUME Base, NEW s \in Steps, Underway(s), Answered, NEW n,
         n = [ok |-> item \in {"Ok", "End"}, answer |-> item,
              pcm |-> IF item \in {"Ok", "End"} THEN collected ELSE <<>>]
  PROVE  n \in NoteRecords /\ Noted(s, n)
<1>1. pc \in {"lazy", "returned"} /\ (pc = "lazy" => item \in {"End", FrameError})
  BY DEF Answered
<1>2. Settled BY <1>1, BaseSettled DEF Started
<1>3. /\ collected \in Seq(Int) /\ call.start \in Nat /\ call.stop \in Nat /\ item \in Answers
      /\ Len(collected) \in Nat /\ Reached = call.start + Len(collected)
  BY <1>2 DEF Settled, TypeOK, Reached
<1>4. n.ok \in BOOLEAN /\ n.answer = item /\ n \in NoteRecords BY <1>3 DEF NoteRecords
<1>5. /\ n.ok <=> item \in {"Ok", "End"}
      /\ ~n.ok => n.pcm = <<>>
      /\ n.ok => n.pcm = collected
  OBVIOUS
<1>6. CASE Gate(s) # NoError
  <2>1. Gate(s) \in Refusals BY <1>6, GateType
  <2>2. item = Gate(s) BY <1>6 DEF Underway
  <2>3. item \notin {"Ok", "End"} BY <2>1, <2>2, RefusalsDiffer
  <2>4. ~n.ok /\ n.pcm = <<>> BY <1>5, <2>3
  <2>5. Noted(s, n) BY <1>4, <1>6, <2>2, <2>4 DEF Noted
  <2>6. QED BY <1>4, <2>5
<1>7. CASE Gate(s) = NoError
  <2>1. /\ call = Slot(s) /\ item \in {"Ok", "End", FrameError}
        /\ AtOnce(s) => item = "Ok" /\ (item = "End" => Reached = call.stop)
        /\ item = "End" => Reached = call.stop
    BY <1>1, <1>7 DEF Underway
  <2>2. item \in {"Ok", "End"} => Reached = call.stop
    BY <2>1 DEF Base, StopInv
  <2>3. n.ok => /\ Len(n.pcm) = Slot(s).stop - Slot(s).start
                /\ Hears(n.pcm, Slot(s).start)
    <3> SUFFICES ASSUME n.ok
                 PROVE  /\ Len(n.pcm) = Slot(s).stop - Slot(s).start
                        /\ Hears(n.pcm, Slot(s).start)
      OBVIOUS
    <3>1. n.pcm = collected /\ Reached = call.stop BY <1>5, <2>2
    <3>2. Hears(collected, call.start) BY <1>1 DEF Base, HeardInv
    <3>3. Len(collected) = call.stop - call.start BY <1>3, <3>1
    <3>4. QED BY <2>1, <3>1, <3>2, <3>3
  <2>8. n.ok /\ TableIntact(file) /\ RightKey => n.pcm = Entries(Slot(s).start, Slot(s).stop)
    <3> SUFFICES ASSUME n.ok, TableIntact(file), RightKey
                 PROVE  n.pcm = Entries(Slot(s).start, Slot(s).stop)
      OBVIOUS
    <3>1. n.pcm = collected /\ Reached = call.stop BY <1>5, <2>2
    <3>2. collected = Entries(call.start, Reached)
      BY DEF Base, AudioInv, SliceInv, Trusted, Sound, IsSlice
    <3>3. QED BY <2>1, <3>1, <3>2
  <2>4. AtOnce(s) => n.ok BY <1>5, <2>1
  <2>9. AllGood => n.ok
    <3> SUFFICES ASSUME AllGood, ~n.ok PROVE FALSE OBVIOUS
    <3>1. item = FrameError BY <1>5, <2>1
    <3>2. Failures # {} BY <3>1 DEF Base, StopInv
    <3>3. QED BY <3>2 DEF Failures, AllGood
  <2>5. Walks(s) => (n.ok <=> AllGood)
    <3> SUFFICES ASSUME Walks(s) PROVE n.ok <=> AllGood OBVIOUS
    <3>1. call.start = 0 /\ call.stop = TotalEntries
      <4>1. FrameStart(0) = 0 BY <1>2, SettledFacts, FrameStartEnd DEF Settled
      <4>2. Slot(s).start = 0 /\ Slot(s).stop = TotalEntries BY <4>1 DEF Walks, Slot
      <4>3. QED BY <2>1, <4>2
    <3>2. /\ item \in {"Ok", "End"} /\ Reached = call.stop => AllGood
          /\ item = FrameError => ~AllGood
      BY <1>1, <3>1, Verdict
    <3>3. QED BY <1>5, <2>1, <2>2, <3>2
  <2>6. Noted(s, n) BY <1>5, <1>7, <2>3, <2>4, <2>5, <2>8, <2>9 DEF Noted
  <2>7. QED BY <1>4, <2>6
<1>8. QED BY <1>6, <1>7

LEMMA StepTarget ==
  Base /\ TargetInv /\ [TargetNext]_targetVars => TargetInv'
<1> SUFFICES ASSUME Base, TargetInv, [TargetNext]_targetVars PROVE TargetInv' OBVIOUS
<1>1. CASE FreeCall BY <1>1 DEF FreeCall, TargetInv
<1>2. CASE TargetOpens
  <2>1. /\ UNCHANGED <<file, target, seed, notes>> /\ pc \in {"closed", "refused"}
        /\ ~Started'
    BY <1>2 DEF TargetOpens, Open, OpenRefused, Started
  <2>2. notes = <<>> BY <2>1 DEF TargetInv, Started
  <2>3. QED BY <2>1, <2>2, NothingNoted
<1>3. CASE TargetParses
  <2>1. /\ UNCHANGED <<file, target, seed, notes>> /\ pc = "parsing"
        /\ Started' => pc' = "idle"
    BY <1>3 DEF TargetParses, PushDescriptor, FinishTable, Started
  <2>2. notes = <<>> BY <2>1 DEF TargetInv, Started
  <2>3. QED BY <2>1, <2>2, NothingNoted
<1>4. CASE TargetCalls
  <2>1. pc = "idle" /\ target # "free" /\ Len(notes) < Len(Script)
    BY <1>4 DEF TargetCalls
  <2>2. QED BY <1>4, <2>1, CallUnderway, NotesStay DEF Started
<1>5. CASE TargetCollects BY <1>5, CollectUnderway, NotesStay
<1>6. CASE TargetNotes
  <2>1. /\ target # "free" /\ Answered /\ Release /\ UNCHANGED <<target, seed>>
        /\ notes' = Append(notes, [ok |-> item \in {"Ok", "End"}, answer |-> item,
                                   pcm |-> IF item \in {"Ok", "End"} THEN collected ELSE <<>>])
    BY <1>6 DEF TargetNotes
  <2>2. UNCHANGED <<file, dec>> /\ pc' = "idle" BY <2>1 DEF Release, Reset
  <2>3. Started /\ pc # "idle" BY <2>1 DEF Answered, Started
  <2>4. PICK k : k = Len(notes) + 1 OBVIOUS
  <2>5. PICK s : s = Script[k] OBVIOUS
  <2>6. PICK n : n = [ok |-> item \in {"Ok", "End"}, answer |-> item,
                      pcm |-> IF item \in {"Ok", "End"} THEN collected ELSE <<>>]
    OBVIOUS
  <2>7. Underway(s) /\ Len(notes) < Len(Script) BY <2>1, <2>3, <2>4, <2>5 DEF TargetInv
  <2>8. Settled /\ Targeted
    BY <2>1, <2>3, BaseSettled DEF TargetInv, Targeted
  <2>9. notes \in Seq(NoteRecords) /\ Len(notes) \in Nat BY DEF TargetInv
  <2>10. k \in 1 .. Len(Script) /\ Len(Script) \in Nat
    <3>1. Len(Script) \in Nat BY <2>8, ScriptFits
    <3>2. QED BY <2>4, <2>7, <2>9, <3>1
  <2>11. s \in Steps BY <2>5, <2>8, <2>10, ScriptFits
  <2>12. n \in NoteRecords /\ Noted(s, n) BY <2>1, <2>6, <2>7, <2>11, AnswerNoted
  <2>13. notes' = Append(notes, n) BY <2>1, <2>6
  <2>14. /\ notes' \in Seq(NoteRecords) /\ Len(notes') = k
         /\ notes'[k] = n /\ \A i \in 1 .. Len(notes) : notes'[i] = notes[i]
    BY <2>4, <2>9, <2>12, <2>13
  <2>15. Script' = Script BY <2>1, <2>2, ScriptKept
  <2>16. \A t, m : Noted(t, m) => Noted(t, m)' BY <2>1, <2>2, NotedKept
  <2>17. ASSUME NEW i \in 1 .. k
         PROVE  i <= Len(Script') /\ \A t \in {Script'[i]}, m \in {notes'[i]} : Noted(t, m)'
    <3>1. CASE i = k BY <2>5, <2>10, <2>12, <2>14, <2>15, <2>16, <3>1
    <3>2. CASE i # k
      <4>1. i \in 1 .. Len(notes) BY <2>4, <2>9, <2>17, <3>2
      <4>2. i <= Len(Script) /\ \A t \in {Script[i]}, m \in {notes[i]} : Noted(t, m)
        BY <2>1, <4>1 DEF TargetInv
      <4>3. notes'[i] = notes[i] BY <2>14, <4>1
      <4>4. QED BY <2>15, <2>16, <4>2, <4>3
    <3>3. QED BY <3>1, <3>2
  <2>18. Suits(target)' BY <2>1, <2>2, <2>8 DEF Targeted, Suits, Total
  <2>19. target' \in {"free"} \cup TargetNames /\ seed' \in Nat \X Nat \X Nat
    BY <2>1 DEF TargetInv
  <2>20. Started' /\ target' # "free" BY <2>1, <2>2 DEF Started
  <2> HIDE <2>1, <2>6, <2>13
  <2>21. QED BY <2>2, <2>14, <2>17, <2>18, <2>19, <2>20 DEF TargetInv
<1>7. CASE UNCHANGED targetVars
  <2>1. UNCHANGED <<file, pc, dec, it, call, collected, item, target, seed, notes>>
    BY <1>7 DEF targetVars, vars
  <2>2. CASE target = "free" \/ ~Started BY <2>1, <2>2, NothingNoted DEF TargetInv, Started
  <2>3. CASE target # "free" /\ Started
    <3>1. Script' = Script BY <2>1, ScriptKept
    <3>2. (Started /\ pc # "idle")' <=> (Started /\ pc # "idle") BY <2>1 DEF Started
    <3>3. \A s : Underway(s) => Underway(s)'
      <4>1. Reached' = Reached BY <2>1 DEF Reached
      <4>2. QED BY <2>1, <4>1, NotedKept DEF Underway, AtOnce
    <3>4. \A s, n : Noted(s, n) => Noted(s, n)' BY <2>1, NotedKept
    <3>5. Suits(target)' BY <2>1, <2>3 DEF TargetInv, Suits, Total
    <3>6. Started' BY <2>1, <2>3 DEF Started
    <3>7. QED BY <2>1, <2>3, <3>1, <3>2, <3>3, <3>4, <3>5, <3>6 DEF TargetInv
  <2>4. QED BY <2>2, <2>3
<1>8. QED BY <1>1, <1>2, <1>3, <1>4, <1>5, <1>6, <1>7 DEF TargetNext

\* Without the password an encrypted stream whose header is sound asks for it.
LEMMA StepOpening ==
  TypeOK /\ TargetInv /\ OpeningInv /\ [TargetNext]_targetVars => OpeningInv'
<1> SUFFICES ASSUME TypeOK, TargetInv, OpeningInv, [TargetNext]_targetVars,
                    target' = "password_corrupt", pc' # "closed"
             PROVE  opening' = "PasswordRequired"
  BY DEF OpeningInv
<1>1. target = "password_corrupt"
  BY DEF TargetNext, targetVars, FreeCall, TargetOpens, TargetParses, TargetCalls,
         TargetCollects, TargetNotes
<1>2. CASE TargetOpens /\ pc = "closed"
  <2>1. OpenError(NoPassword) = "PasswordRequired"
    <3>1. Suits("password_corrupt") BY <1>1 DEF TargetInv
    <3>2. /\ file.id3 <= file.len /\ file.h.format = 2
          /\ HeaderError(file.len - file.id3, file.h) = NoError
      BY <3>1 DEF Suits
    <3>3. ~(file.id3 > file.len)
      <4>1. file.id3 \in Nat /\ file.len \in Nat BY FilesAssumption DEF TypeOK, WellFormed
      <4>2. QED BY <3>2, <4>1
    <3>4. QED BY <3>2, <3>3 DEF OpenError
  <2>2. Passwords = {NoPassword} BY <1>1, <1>2 DEF Passwords
  <2>3. \E q \in {NoPassword} : Open(q) \/ OpenRefused(q) BY <1>2, <2>2 DEF TargetOpens
  <2>4. item' = "PasswordRequired" BY <2>1, <2>3 DEF Open, OpenRefused, NoError
  <2>5. QED BY <1>2, <2>4 DEF TargetOpens
<1>3. CASE ~(TargetOpens /\ pc = "closed")
  <2>1. opening' = opening /\ pc # "closed"
    BY <1>1, <1>3
    DEF TargetNext, targetVars, vars, FreeCall, TargetOpens, TargetParses, TargetCalls,
        TargetCollects, TargetNotes, PushDescriptor, FinishTable, Answered, Poll, Collect
  <2>2. QED BY <1>1, <2>1 DEF OpeningInv
<1>4. QED BY <1>2, <1>3

-----------------------------------------------------------------------------
(***************************************************************************)
(* The assertions.  Each follows from what is noted of its own step, the   *)
(* step before and decode_all at the script's beginning.                   *)
(***************************************************************************)

\* Where in the whole a step's slice lies: what the call hands out.
LEMMA SpanIsSlot ==
  ASSUME Settled, NEW s \in Steps, Gate(s) = NoError,
         s.op \in {"at", "frames", "from", "range"}, s.op = "frames" => s.a <= Count
  PROVE  Span(s)[1] = Slot(s).start /\ Span(s)[2] = Slot(s).stop
<1>1. s.a \in Nat /\ s.a + 1 \in Nat /\ Count \in Nat BY SettledFacts DEF Steps
<1>2. CASE s.op = "at"
  <2>1. ~(s.a >= Count) BY <1>2 DEF Gate, NoError
  <2>2. s.a <= Count /\ s.a + 1 <= Count BY <1>1, <2>1
  <2>3. Before(s.a) = FrameStart(s.a) /\ Before(s.a + 1) = FrameStart(s.a + 1)
    BY <1>1, <2>2, BeforeIsStart
  <2>4. QED BY <1>2, <2>3 DEF Span, Slot
<1>3. CASE s.op = "frames"
  <2>1. Before(s.a) = FrameStart(s.a) BY <1>1, <1>3, BeforeIsStart
  <2>2. QED BY <1>3, <2>1 DEF Span, Slot
<1>4. CASE s.op = "from" BY <1>4 DEF Span, Slot
<1>5. CASE s.op = "range" BY <1>5 DEF Span, Slot, Lo, Hi
<1>6. QED BY <1>2, <1>3, <1>4, <1>5

\* An answer that came through is its slice of the whole.
LEMMA NotedSlice ==
  ASSUME Settled, NEW s \in Steps, NEW n \in NoteRecords, NEW first \in Steps,
         NEW all \in NoteRecords, Noted(s, n), Noted(first, all), first.op = "all",
         n.ok, all.ok, s.op \in {"at", "frames", "from", "range"},
         s.op = "frames" => s.a <= Count
  PROVE  n.pcm = SliceOf(s, all)
<1>1. Gate(s) = NoError BY DEF Noted
<1>2. Gate(first) = NoError /\ Slot(first) = [start |-> 0, stop |-> TotalEntries]
  BY DEF Gate, Slot
<1> DEFINE a == Slot(s).start
           b == Slot(s).stop
<1>3. /\ n.pcm \in Seq(Int) /\ Len(n.pcm) = b - a /\ Hears(n.pcm, a)
  BY <1>1 DEF Noted, NoteRecords
<1>4. /\ all.pcm \in Seq(Int) /\ Len(all.pcm) = TotalEntries - 0 /\ Hears(all.pcm, 0)
  BY <1>2 DEF Noted, NoteRecords
<1>5. a \in Nat /\ b \in Nat /\ a <= b /\ b <= TotalEntries BY <1>1, SlotType
<1>6. Span(s)[1] = a /\ Span(s)[2] = b BY <1>1, SpanIsSlot
<1>7. SliceOf(s, all) = SubSeq(all.pcm, a + 1, b) BY <1>6 DEF SliceOf
<1>8. TotalEntries \in Nat BY SettledFacts
<1> HIDE DEF a, b
<1>9. b <= Len(all.pcm) BY <1>4, <1>5, <1>8
<1>10. n.pcm = SubSeq(all.pcm, a + 1, b)
  <2>1. PICK whole : whole = all.pcm OBVIOUS
  <2>2. PICK part : part = n.pcm OBVIOUS
  <2>3. whole \in Seq(Int) /\ Hears(whole, 0) /\ b <= Len(whole) BY <1>4, <1>9, <2>1
  <2>4. part \in Seq(Int) /\ Hears(part, a) /\ Len(part) = b - a BY <1>3, <2>2
  <2>5. part = SubSeq(whole, a + 1, b) BY <1>5, <2>3, <2>4, SoundSlice
  <2>6. QED BY <2>1, <2>2, <2>5
<1>11. QED BY <1>7, <1>10

\* A frame that is there and decodes is not refused.
LEMMA AtAccepted ==
  ASSUME Settled, NEW s \in Steps, s.op = "at", s.a < Count
  PROVE  s.a \in FrameIds(file) /\ (Good(s.a) => Gate(s) = NoError)
<1>1. s.a \in Nat /\ Count \in Nat BY SettledFacts DEF Steps
<1>2. ~(s.a >= Count) /\ s.a \in 0 .. Count - 1 BY <1>1
<1>3. FrameIds(file) = 0 .. Count - 1 BY DEF FrameIds, Count
<1>4. s.a \in FrameIds(file) BY <1>2, <1>3
<1>5. Good(s.a) => Gate(s) = NoError BY <1>2 DEF Gate
<1>6. QED BY <1>4, <1>5

\* On a healthy stream every frame decodes.
LEMMA HealthyDecodes == ASSUME Settled, Healthy_ PROVE AllGood
<1>1. TypeOK /\ TableInv /\ TableIntact(file) BY DEF Settled, Healthy_
<1>2. Count \in Nat /\ Len(dec.frames) = Count BY SettledFacts
<1>3. FrameIds(file) = 0 .. Count - 1 BY DEF FrameIds, Count
<1>4. ASSUME NEW w \in FrameIds(file) PROVE Good(w)
  <2>1. w \in Nat /\ w < Len(dec.frames) BY <1>2, <1>3
  <2>2. ~Damaged(file, w) BY DEF Healthy_
  <2>3. QED BY <1>1, <2>1, <2>2, DamageDecides DEF Good
<1>5. QED BY <1>4 DEF AllGood

\* A step whose assertion is about its own answer, or about that and the whole.
LEMMA AloneHolds ==
  ASSUME Settled, NEW i, NEW s \in Steps, NEW n \in NoteRecords, s = Script[i], n = notes[i],
         Alone(s), Noted(s, n),
         NEW first \in Steps, NEW all \in NoteRecords, all = notes[1], Noted(first, all),
         Leading => first.op = "all"
  PROVE  Holds(i) \/ RoundedAway(s)
<1>0. /\ Count \in Nat /\ Len(dec.frames) = Count /\ TotalEntries \in Nat /\ s.a \in Nat
      /\ TypeOK /\ file \in Files /\ TableInv
  BY SettledFacts DEF Steps, Settled
<1>1. CASE s.must = "any" BY <1>1 DEF Holds
<1>2. CASE s.must = "whole" /\ s.op = "all"
  <2>1. Gate(s) = NoError /\ Slot(s) = [start |-> 0, stop |-> TotalEntries] /\ Walks(s)
    BY <1>2 DEF Gate, Slot, Walks
  <2>2. n.ok => Len(n.pcm) = TotalEntries - 0 BY <2>1 DEF Noted
  <2>3. Healthy_ => n.ok BY <2>1, HealthyDecodes DEF Noted
  <2>4. Healthy_ => n.ok /\ Len(n.pcm) = TotalEntries BY <1>0, <2>2, <2>3
  <2>5. Healthy_ /\ RightKey => n.pcm = Entries(0, TotalEntries)
    BY <2>1, <2>3 DEF Noted, Healthy_
  <2>6. QED BY <1>2, <2>4, <2>5 DEF Holds
<1>3. CASE /\ s.must = "slice" /\ Leading
           /\ s.op \in {"at", "frames", "from", "range"}
           /\ s.op \in {"at", "frames"} => s.a <= Count
  <2>1. n.ok /\ all.ok => n.pcm = SliceOf(s, all) BY <1>3, NotedSlice
  <2>2. QED BY <1>3, <2>1 DEF Holds
<1>9. CASE s.must = "suffix" /\ Leading /\ s.op = "from" /\ Gate(s) = NoError
  <2> SUFFICES ASSUME Healthy_ PROVE n.ok /\ n.pcm = SliceOf(s, all)
    BY <1>9 DEF Holds
  <2>1. AllGood BY HealthyDecodes
  <2>2. n.ok BY <1>9, <2>1 DEF Noted
  <2>3. Gate(first) = NoError BY <1>9 DEF Gate
  <2>4. all.ok BY <2>1, <2>3 DEF Noted
  <2>5. QED BY <1>9, <2>2, <2>4, NotedSlice
<1>10. ASSUME s.op = "at", s.a < Count, n.ok
       PROVE  Len(n.pcm) = dec.frames[s.a + 1].samples * Nch
  <2> DEFINE m == FrameSamples(file.h, s.a) * Nch
  <2>1. dec.frames[s.a + 1].samples = FrameSamples(file.h, s.a)
    <3> DEFINE k == s.a
    <3>1. k + 1 \in 1 .. Len(dec.frames) /\ (k + 1) - 1 = k BY <1>0, <1>10
    <3>2. \A j \in 1 .. Len(dec.frames) : dec.frames[j].samples = FrameSamples(file.h, j - 1)
      BY <1>0 DEF TableInv
    <3> HIDE DEF k
    <3>3. dec.frames[k + 1].samples = FrameSamples(file.h, k) BY <3>1, <3>2
    <3>4. QED BY <3>3 DEF k
  <2>2. Gate(s) = NoError BY <1>10 DEF Noted
  <2>3. Len(n.pcm) = FrameStart(s.a + 1) - FrameStart(s.a)
    BY <1>10, <2>2 DEF Noted, Slot
  <2>4. FrameStart(s.a) + m = FrameStart(s.a + 1) BY <1>0, <1>10, FrameStartNext
  <2>5. FrameStart(s.a) \in Nat /\ m \in Nat
    <3>1. FrameSamples(file.h, s.a) \in Nat /\ Nch \in Nat /\ FrameStart(s.a) \in Nat
      BY <1>0, FileType
    <3>2. QED BY <3>1, ProductInNat
  <2> HIDE DEF m
  <2>6. Len(n.pcm) = m BY <2>3, <2>4, <2>5
  <2>7. QED BY <2>1, <2>6 DEF m
<1>4. CASE s.must = "slice of whole" /\ Leading /\ s.op = "at" /\ s.a < Count
  <2>1. all.ok => n.ok
    <3> SUFFICES ASSUME all.ok PROVE n.ok OBVIOUS
    <3>1. Gate(first) = NoError /\ Walks(first) BY <1>4 DEF Gate, Walks
    <3>2. AllGood BY <3>1 DEF Noted
    <3>3. s.a \in FrameIds(file) BY <1>4, AtAccepted
    <3>4. Good(s.a) BY <3>2, <3>3 DEF AllGood
    <3>5. Gate(s) = NoError BY <1>4, <3>4, AtAccepted
    <3>6. QED BY <1>4, <3>5 DEF Noted, AtOnce
  <2>2. n.ok /\ all.ok => n.pcm = SliceOf(s, all) BY <1>4, NotedSlice
  <2>3. QED BY <1>4, <1>10, <2>1, <2>2 DEF Holds
<1>5. CASE s.must = "length" /\ s.op = "at" /\ s.a < Count
  BY <1>5, <1>10 DEF Holds
<1>6. CASE s.must \in {"lands", "accepted"} /\ s.op = "seek"
  <2>1. Gate(s) = SeekError(s.a) /\ AtOnce(s) BY <1>6 DEF Gate, AtOnce
  <2>2. n.ok => Lands(s.a) BY <1>0, <2>1, SeekTypes DEF Noted
  <2>3. CASE s.must = "lands" BY <2>2, <2>3 DEF Holds
  <2>4. CASE s.must = "accepted"
    <3>1. "accepted" \notin Refusals \cup {NoError} BY DEF Refusals, FrameError, NoError
    <3>2. s.must # Gate(s) BY <2>4, <3>1, GateType
    <3>3. Gate(s) = NoError BY <2>4, <3>2 DEF Alone, RoundedAway
    <3>4. n.ok BY <2>1, <3>3 DEF Noted
    <3>5. QED BY <2>2, <2>4, <3>4 DEF Holds
  <2>5. QED BY <1>6, <2>3, <2>4
<1>7. CASE s.must = "refused" /\ Gate(s) \notin {NoError, FrameError}
  <2>1. ~n.ok /\ n.answer = Gate(s) BY <1>7 DEF Noted
  <2>2. QED BY <1>7, <2>1 DEF Holds
<1>8. CASE s.must = Gate(s) /\ Gate(s) # NoError
  <2>1. ~n.ok /\ n.answer = s.must BY <1>8 DEF Noted
  <2>2. Gate(s) \in Refusals BY <1>8, GateType
  <2>3. s.must \notin {"any", "whole", "slice", "suffix", "slice of whole", "twin",
                       "verdict", "length", "lands", "accepted", "refused"}
    BY <1>8, <2>2 DEF Refusals, FrameError
  <2>4. QED BY <2>1, <2>3 DEF Holds
<1>11. QED BY <1>1, <1>2, <1>3, <1>4, <1>5, <1>6, <1>7, <1>8, <1>9 DEF Alone

\* A step whose assertion is about the answer before.
LEMMA BehindHolds ==
  ASSUME Settled, NEW i, NEW s \in Steps, NEW n \in NoteRecords, s = Script[i], n = notes[i],
         NEW p \in Steps, NEW last \in NoteRecords, last = notes[i - 1],
         Behind(p, s), Noted(s, n), Noted(p, last)
  PROVE  Holds(i)
<1>1. n.pcm \in Seq(Int) /\ last.pcm \in Seq(Int) /\ n.ok \in BOOLEAN /\ last.ok \in BOOLEAN
  BY DEF NoteRecords
<1>2. ASSUME Gate(p) = NoError, Gate(s) = NoError, Slot(p) = Slot(s), n.ok, last.ok
      PROVE  n.pcm = last.pcm
  <2>1. /\ Len(n.pcm) = Slot(s).stop - Slot(s).start /\ Hears(n.pcm, Slot(s).start)
        /\ Len(last.pcm) = Slot(s).stop - Slot(s).start /\ Hears(last.pcm, Slot(s).start)
    BY <1>2 DEF Noted
  <2>2. QED BY <1>1, <2>1, SameSound
<1>3. CASE s.must = "twin" /\ (Gate(p) = NoError /\ Gate(s) = NoError => Slot(p) = Slot(s))
  <2>1. n.ok /\ last.ok => Gate(p) = NoError /\ Gate(s) = NoError BY DEF Noted
  <2>2. n.ok /\ last.ok => n.pcm = last.pcm BY <1>2, <1>3, <2>1
  <2>3. QED BY <1>3, <2>2 DEF Holds
<1>4. CASE s.must = "verdict" /\ Walks(p) /\ Walks(s)
  <2>1. Gate(p) = NoError /\ Gate(s) = NoError BY <1>4 DEF Walks, Gate
  <2>2. Slot(p) = Slot(s)
    <3>1. FrameStart(0) = 0 BY SettledFacts, FrameStartEnd DEF Settled
    <3>2. QED BY <1>4, <3>1 DEF Walks, Slot
  <2>3. (n.ok <=> AllGood) /\ (last.ok <=> AllGood) BY <1>4, <2>1 DEF Noted
  <2>4. n.ok = last.ok BY <1>1, <2>3
  <2>5. ~n.ok => n.pcm = <<>> /\ last.pcm = <<>> BY <2>4 DEF Noted
  <2>6. n.pcm = last.pcm BY <1>2, <2>1, <2>2, <2>4, <2>5
  <2>7. QED BY <1>4, <2>4, <2>6 DEF Holds
<1>5. QED BY <1>3, <1>4 DEF Behind

\* Every answer is what its script says it must be, but for the one case.
LEMMA AssertionsFollow == Base /\ TargetInv /\ OpeningInv => AssertionsHold
<1> SUFFICES ASSUME Base, TargetInv, pc = "idle", notes # <<>>
             PROVE  Holds(Len(notes)) \/ RoundedAway(Script[Len(notes)])
  BY DEF AssertionsHold, OpeningInv
<1>1. target # "free" /\ Settled /\ Targeted BY BaseSettled DEF TargetInv, Started, Targeted
<1> DEFINE i == Len(notes)
<1>2. notes \in Seq(NoteRecords) /\ i \in Nat /\ i >= 1 BY DEF TargetInv
<1>3. Len(Script) \in Nat /\ i <= Len(Script) BY <1>1, <1>2, ScriptFits DEF TargetInv
<1>4. ASSUME NEW j \in 1 .. i
      PROVE  Script[j] \in Steps /\ notes[j] \in NoteRecords /\ Noted(Script[j], notes[j])
  <2>1. j \in 1 .. Len(Script) BY <1>2, <1>3
  <2>2. Script[j] \in Steps BY <1>1, <2>1, ScriptFits
  <2>3. QED BY <1>1, <1>2, <1>4, <2>2 DEF TargetInv
<1>5. 1 \in 1 .. i /\ i \in 1 .. i BY <1>2
<1>6. Leading => Script[1].op = "all" BY <1>1, ScriptFits DEF Leads
<1>7. Fit(Script[i]) \/ (i > 1 /\ FitAfter(Script[i - 1], Script[i]))
  <2>1. i \in 1 .. Len(Script) BY <1>2, <1>3
  <2> HIDE DEF i
  <2>2. Fitting(Script) BY <1>1, ScriptFits
  <2>3. QED BY <2>1, <2>2 DEF Fitting
<1> HIDE DEF i
<1>8. CASE Fit(Script[i]) BY <1>1, <1>4, <1>5, <1>6, <1>8, AloneHolds DEF Fit, i
<1>9. CASE i > 1 /\ FitAfter(Script[i - 1], Script[i])
  <2>1. i - 1 \in 1 .. i BY <1>2, <1>9
  <2>2. QED BY <1>1, <1>4, <1>5, <1>9, <2>1, BehindHolds DEF FitAfter, i
<1>10. QED BY <1>7, <1>8, <1>9

-----------------------------------------------------------------------------
\* The callers of Targets are callers of the decoder, so whatever holds of the
\* decoder holds while a fuzz target drives it.
THEOREM TargetsImplementDecoder == TargetSpec => FairSpec
<1>1. TargetSpec => Init /\ [][Next]_vars
  <2>1. TargetInit => Base /\ TargetInv /\ Init BY InitTarget, InitBase
  <2>2. Base /\ TargetInv /\ [TargetNext]_targetVars => [Next]_vars BY TargetSteps
  <2>3. Base /\ TargetInv /\ [TargetNext]_targetVars => (Base /\ TargetInv)'
    BY <2>2, StepBase, StepTarget
  <2>4. QED BY <2>1, <2>2, <2>3, PTL DEF TargetSpec
<1>2. QED BY <1>1, PTL DEF TargetSpec, FairSpec, Spec

\* Whatever stream, password and seed a fuzz target is given, a call answers as
\* an earlier call on the same decoder did, and an encrypted stream asks for its
\* password; only a range of times that runs back over a stream whose duration
\* rounds down to its first sample is not refused as the target asserts.
THEOREM AssertionsHoldCorrect == TargetSpec => []AssertionsHold
<1>1. TargetInit => Base /\ TargetInv /\ OpeningInv BY InitTarget, InitBase
<1>2. Base => TypeOK BY DEF Base, AudioInv, Typed
<1>3. Base /\ TargetInv /\ OpeningInv /\ [TargetNext]_targetVars
        => (Base /\ TargetInv /\ OpeningInv)'
  BY <1>2, TargetSteps, StepBase, StepTarget, StepOpening
<1>4. Base /\ TargetInv /\ OpeningInv => AssertionsHold BY AssertionsFollow
<1>5. QED BY <1>1, <1>3, <1>4, PTL DEF TargetSpec

=============================================================================
