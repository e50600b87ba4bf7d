------------------------ MODULE EncoderAdapter_proof ------------------------
(***************************************************************************)
(* What holds of EncoderAdapter for every channel count, every size of     *)
(* frames and any number of values.                                        *)
(***************************************************************************)
EXTENDS EncoderAdapter, SequenceTheorems, TLAPS

-----------------------------------------------------------------------------
(***************************************************************************)
(* A packet holds the values behind its place on the clock; the packets    *)
(* lie end to end and cover what the clock has counted; the buffer holds   *)
(* the rest.                                                               *)
(***************************************************************************)
PacketRecords == [pts : Nat, duration : Nat \ {0}, file : Seq(Nat)]

ValuesFrom(place, n) == [i \in 1 .. n |-> place + i]

Holds(p, v) == p.pts * Channels < v /\ v <= (p.pts + p.duration) * Channels

Types ==
  /\ pending \in Seq(PacketRecords) /\ received \in Seq(PacketRecords)
  /\ nextPts \in Nat /\ accepted \in Nat
  /\ eof \in BOOLEAN
  /\ reply \in {"none", "ok", "flushed", "invalid", "packet", "Eof", "NeedMore"}
  /\ closed \in Int

Buffered ==
  /\ nextPts * Channels <= accepted
  /\ interleaved = ValuesFrom(nextPts * Channels, accepted - nextPts * Channels)

Spans ==
  \A i \in DOMAIN Packets :
    Packets[i].file = ValuesFrom(Packets[i].pts * Channels, Packets[i].duration * Channels)

Covered ==
  \A v \in 1 .. nextPts * Channels : \E i \in DOMAIN Packets : Holds(Packets[i], v)

ClockAt(i) == IF i \in DOMAIN Packets THEN Packets[i].pts ELSE nextPts

Chained ==
  /\ ClockAt(1) = 0
  /\ \A i \in DOMAIN Packets : ClockAt(i + 1) = Packets[i].pts + Packets[i].duration

Ended ==
  /\ closed = IF eof THEN nextPts * Channels ELSE -1
  /\ reply = "Eof" => eof /\ pending = <<>>

IInv == Types /\ Buffered /\ Spans /\ Covered /\ Chained /\ Ended

-----------------------------------------------------------------------------
LEMMA DivMod ==
  ASSUME NEW a \in Nat, NEW b \in Nat, b > 0
  PROVE  /\ a \div b \in Nat /\ a % b \in Nat /\ a % b < b
         /\ a = b * (a \div b) + (a % b)
  BY SMT

LEMMA ChannelsType == Channels \in Nat /\ Channels > 0
  BY ChannelsAssumption

\* A packet handed out leaves the packets of the stream where they were.
LEMMA HandedOut ==
  ASSUME NEW r \in Seq(PacketRecords), NEW p \in Seq(PacketRecords), p # <<>>
  PROVE  /\ Append(r, Head(p)) \o Tail(p) = r \o p
         /\ Append(r, Head(p)) \in Seq(PacketRecords) /\ Tail(p) \in Seq(PacketRecords)
<1>1. /\ Head(p) \in PacketRecords /\ Tail(p) \in Seq(PacketRecords)
      /\ Len(Tail(p)) = Len(p) - 1 /\ Len(p) \in Nat /\ Len(p) > 0
      /\ \A i \in 1 .. Len(Tail(p)) : Tail(p)[i] = p[i + 1]
      /\ Head(p) = p[1]
  BY HeadTailProperties, LenProperties, EmptySeq, SMT
<1>2. Append(r, Head(p)) \in Seq(PacketRecords) BY <1>1
<1>3. /\ Append(r, Head(p)) \o Tail(p) \in Seq(PacketRecords)
      /\ r \o p \in Seq(PacketRecords)
  BY <1>1, <1>2
<1>4. Len(Append(r, Head(p)) \o Tail(p)) = Len(r \o p) BY <1>1, <1>2, SMT
<1>5. ASSUME NEW i \in 1 .. Len(r \o p)
      PROVE  (Append(r, Head(p)) \o Tail(p))[i] = (r \o p)[i]
  BY <1>1, <1>2, SMT
<1>6. QED BY <1>1, <1>2, <1>3, <1>4, <1>5, SeqEqual

LEMMA PacketsType ==
  ASSUME Types
  PROVE  /\ Packets \in Seq(PacketRecords)
         /\ DOMAIN Packets = 1 .. Len(Packets) /\ Len(Packets) \in Nat
<1>1. Packets \in Seq(PacketRecords) BY DEF Packets, Types
<1>2. QED BY <1>1, LenProperties

\* The packets and the clock are as they were.
LEMMA PacketsStay ==
  ASSUME IInv, Packets' = Packets, nextPts' = nextPts
  PROVE  Spans' /\ Covered' /\ Chained'
<1>1. Spans' BY DEF IInv, Spans, ValuesFrom
<1>2. Covered' BY DEF IInv, Covered, Holds
<1>3. Chained' BY DEF IInv, Chained, ClockAt
<1>4. QED BY <1>1, <1>2, <1>3

LEMMA Initially == EncoderInit => IInv
<1> SUFFICES ASSUME EncoderInit PROVE IInv OBVIOUS
<1> USE ChannelsType
<1>1. Packets = <<>> BY DEF EncoderInit, Packets
<1>2. Types
  <2>1. <<>> \in Seq(PacketRecords) OBVIOUS
  <2>2. pending = <<>> /\ received = <<>> BY DEF EncoderInit
  <2>3. nextPts \in Nat /\ accepted \in Nat /\ closed \in Int BY DEF EncoderInit
  <2>4. eof \in BOOLEAN /\ reply = "none" BY Zenon DEF EncoderInit
  <2>5. QED BY <2>1, <2>2, <2>3, <2>4, Zenon DEF Types
<1>3. Buffered BY SMT DEF EncoderInit, Buffered, ValuesFrom
<1>4. Spans /\ Chained BY <1>1 DEF EncoderInit, Spans, Chained, ClockAt
<1>5. Covered BY SMT DEF EncoderInit, Covered
<1>6. Ended BY SMT DEF EncoderInit, Ended
<1>7. QED BY <1>2, <1>3, <1>4, <1>5, <1>6 DEF IInv

LEMMA SendStep ==
  ASSUME IInv, NEW n \in FrameSizes, SendFrame(n)
  PROVE  IInv'
<1> USE ChannelsType
<1>1. n \in Nat BY FrameSizesAssumption
<1>2. Packets' = Packets /\ nextPts' = nextPts BY DEF SendFrame, Packets
<1>3. Types' BY <1>1 DEF IInv, Types, SendFrame
<1>4. Buffered'
  <2>1. PICK place \in Nat : place = nextPts * Channels
    BY SMT DEF IInv, Types
  <2>2. place <= accepted /\ interleaved = ValuesFrom(place, accepted - place) /\ accepted \in Nat
    BY <2>1 DEF IInv, Buffered, Types
  <2>3. interleaved' = ValuesFrom(place, accepted + n - place)
    <3>1. interleaved' = interleaved \o [i \in 1 .. n |-> accepted + i] BY DEF SendFrame
    <3>2. QED BY <1>1, <2>2, <3>1, SMT DEF ValuesFrom
  <2>4. accepted' = accepted + n BY DEF SendFrame
  <2>5. place <= accepted' /\ interleaved' = ValuesFrom(place, accepted' - place)
    BY <1>1, <2>2, <2>3, <2>4
  <2>6. place = nextPts' * Channels BY <1>2, <2>1
  <2>7. QED BY <2>5, <2>6 DEF Buffered, ValuesFrom
<1>5. Spans' /\ Covered' /\ Chained' BY <1>2, PacketsStay
<1>6. Ended' BY DEF IInv, Ended, SendFrame
<1>7. QED BY <1>3, <1>4, <1>5, <1>6 DEF IInv

LEMMA UnchangedStep ==
  ASSUME IInv, UNCHANGED <<encoder, accepted, closed, received>>,
         reply' \in {"ok", "flushed", "invalid", "packet", "NeedMore"}
  PROVE  IInv'
<1>1. Packets' = Packets /\ nextPts' = nextPts BY DEF encoder, Packets
<1>2. Types' BY DEF IInv, Types, encoder
<1>3. Buffered' BY DEF IInv, Buffered, ValuesFrom, encoder
<1>4. Spans' /\ Covered' /\ Chained' BY <1>1, PacketsStay
<1>5. Ended' BY DEF IInv, Ended, encoder
<1>6. QED BY <1>2, <1>3, <1>4, <1>5 DEF IInv

\* A flush that has something to encode.
LEMMA FlushedStep ==
  ASSUME IInv, ~eof, interleaved # <<>>, ~Misaligned, Flushed,
         eof' = TRUE, closed' = accepted, reply' = "flushed",
         UNCHANGED <<accepted, received>>
  PROVE  IInv'
<1> USE ChannelsType
<1>1. PICK place \in Nat : place = nextPts * Channels BY SMT DEF IInv, Types
<1>2. /\ place <= accepted /\ accepted \in Nat /\ nextPts \in Nat
      /\ interleaved = ValuesFrom(place, accepted - place)
  BY <1>1 DEF IInv, Buffered, Types
<1>3. PICK n \in Nat : n = accepted - place BY <1>2
<1>4. Len(interleaved) = n /\ interleaved \in Seq(Nat) /\ n > 0
  BY <1>2, <1>3, SMT DEF ValuesFrom
<1>5. PICK d \in Nat : d = n \div Channels BY DivMod
<1>6. d * Channels = n /\ d > 0
  BY <1>4, <1>5, DivMod, SMT DEF Misaligned
<1>7. PICK p : p = PacketOf(interleaved) OBVIOUS
<1>8. /\ p = [pts |-> nextPts, duration |-> d, file |-> interleaved]
      /\ p \in PacketRecords
      /\ p.pts = nextPts /\ p.duration = d /\ p.file = ValuesFrom(place, d * Channels)
  BY <1>2, <1>3, <1>4, <1>5, <1>6, <1>7 DEF PacketOf, PacketRecords
<1>9. /\ pending' = Append(pending, p) /\ nextPts' = nextPts + d /\ interleaved' = <<>>
  BY <1>4, <1>5, <1>7 DEF Flushed
<1>10. nextPts' * Channels = accepted BY <1>1, <1>2, <1>3, <1>6, <1>9, SMT
<1>11. /\ Packets' = Append(Packets, p) /\ Packets \in Seq(PacketRecords)
       /\ Len(Packets) \in Nat /\ DOMAIN Packets = 1 .. Len(Packets)
  <2>1. pending \in Seq(PacketRecords) /\ received \in Seq(PacketRecords) BY DEF IInv, Types
  <2>2. received \o Append(pending, p) = Append(received \o pending, p)
    BY <1>8, <2>1, SMT
  <2>3. QED BY <1>9, <2>1, <2>2, PacketsType DEF Packets, IInv
<1>12. /\ DOMAIN Packets' = 1 .. Len(Packets) + 1
       /\ \A i \in 1 .. Len(Packets) : Packets'[i] = Packets[i]
       /\ Packets'[Len(Packets) + 1] = p
  BY <1>8, <1>11, SMT
<1>13. Types' BY <1>8, <1>9, <1>2, SMT DEF IInv, Types
<1>14. Buffered' BY <1>2, <1>9, <1>10, SMT DEF Buffered, ValuesFrom
<1>15. Spans'
  <2>1. ASSUME NEW i \in 1 .. Len(Packets) + 1
        PROVE  Packets'[i].file = ValuesFrom(Packets'[i].pts * Channels, Packets'[i].duration * Channels)
    <3>1. CASE i \in 1 .. Len(Packets) BY <1>11, <1>12, <3>1 DEF IInv, Spans
    <3>2. CASE i = Len(Packets) + 1 BY <1>1, <1>8, <1>12, <3>2
    <3>3. QED BY <3>1, <3>2, <1>11
  <2>2. QED BY <1>12, <2>1 DEF Spans, ValuesFrom
<1>16. Covered'
  <2>1. ASSUME NEW v \in 1 .. accepted
        PROVE  \E i \in 1 .. Len(Packets) + 1 : Holds(Packets'[i], v)
    <3>1. CASE v <= place
      <4>1. PICK i \in DOMAIN Packets : Holds(Packets[i], v)
        BY <1>1, <3>1 DEF IInv, Covered
      <4>2. QED BY <1>11, <1>12, <4>1
    <3>2. CASE v > place
      <4>1. (nextPts + d) * Channels = accepted BY <1>9, <1>10
      <4>2. Holds(p, v) BY <1>1, <1>2, <1>8, <3>2, <4>1 DEF Holds
      <4>3. QED BY <1>11, <1>12, <4>2
    <3>3. QED BY <1>2, <3>1, <3>2
  <2>2. QED BY <1>10, <1>12, <2>1 DEF Covered, Holds
<1>17. Chained'
  <2>0. PICK m \in Nat : m = Len(Packets) BY <1>11
  <2>1. \A i \in 1 .. m : ClockAt(i)' = ClockAt(i)
    BY <1>11, <1>12, <2>0 DEF ClockAt
  <2>2. ClockAt(m + 1)' = nextPts /\ ClockAt(m + 1) = nextPts
    BY <1>8, <1>11, <1>12, <2>0 DEF ClockAt
  <2>3. ClockAt(1)' = 0
    <3>1. CASE 1 \in 1 .. m BY <2>1, <3>1 DEF IInv, Chained
    <3>2. CASE m = 0 BY <2>2, <3>2 DEF IInv, Chained
    <3>3. QED BY <3>1, <3>2
  <2>4. ASSUME NEW i \in 1 .. m + 1
        PROVE  ClockAt(i + 1)' = Packets'[i].pts + Packets'[i].duration
    <3>1. CASE i \in 1 .. m
      <4>1. ClockAt(i + 1)' = ClockAt(i + 1)
        <5>1. i + 1 \in 1 .. m \/ i + 1 = m + 1 BY <2>0, <3>1
        <5>2. QED BY <2>1, <2>2, <5>1
      <4>2. QED BY <1>11, <1>12, <2>0, <3>1, <4>1 DEF IInv, Chained
    <3>2. CASE i = m + 1
      <4>1. ClockAt(i + 1)' = nextPts' BY <1>11, <1>12, <2>0, <3>2 DEF ClockAt
      <4>2. QED BY <1>8, <1>9, <1>12, <2>0, <3>2, <4>1
    <3>3. QED BY <3>1, <3>2
  <2>5. QED BY <1>12, <2>0, <2>3, <2>4 DEF Chained
<1>18. Ended' BY <1>10 DEF Ended
<1>19. QED BY <1>13, <1>14, <1>15, <1>16, <1>17, <1>18 DEF IInv

\* A flush of an empty buffer.
LEMMA FlushedNothing ==
  ASSUME IInv, ~eof, interleaved = <<>>, UNCHANGED <<interleaved, pending, nextPts, accepted, received>>,
         eof' = TRUE, closed' = accepted, reply' = "flushed"
  PROVE  IInv'
<1> USE ChannelsType
<1>1. Packets' = Packets /\ nextPts' = nextPts BY DEF Packets
<1>2. nextPts * Channels = accepted
  <2>1. PICK place \in Nat : place = nextPts * Channels BY SMT DEF IInv, Types
  <2>2. place <= accepted /\ accepted \in Nat /\ <<>> = ValuesFrom(place, accepted - place)
    BY <2>1 DEF IInv, Buffered, Types
  <2>3. QED BY <2>1, <2>2, SMT DEF ValuesFrom
<1>3. Types' BY DEF IInv, Types
<1>4. Buffered' BY DEF IInv, Buffered, ValuesFrom
<1>5. Spans' /\ Covered' /\ Chained' BY <1>1, PacketsStay
<1>6. Ended' BY <1>2 DEF Ended
<1>7. QED BY <1>3, <1>4, <1>5, <1>6 DEF IInv

LEMMA FlushStep == ASSUME IInv, FlushEncoder PROVE IInv'
<1>1. CASE eof \/ (interleaved # <<>> /\ Misaligned)
  BY <1>1, UnchangedStep DEF FlushEncoder, encoder
<1>2. CASE ~eof /\ interleaved = <<>>
  BY <1>2, FlushedNothing DEF FlushEncoder
<1>3. CASE ~eof /\ interleaved # <<>> /\ ~Misaligned
  BY <1>3, FlushedStep DEF FlushEncoder
<1>4. QED BY <1>1, <1>2, <1>3

LEMMA ReceiveStep == ASSUME IInv, ReceivePacket PROVE IInv'
<1>1. CASE pending # <<>>
  <2>1. Packets' = Packets /\ received' \in Seq(PacketRecords) /\ pending' \in Seq(PacketRecords)
    BY <1>1, HandedOut DEF ReceivePacket, Packets, IInv, Types
  <2>2. Types' BY <1>1, <2>1 DEF ReceivePacket, IInv, Types
  <2>3. Buffered' BY <1>1 DEF ReceivePacket, IInv, Buffered, ValuesFrom
  <2>4. Spans' /\ Covered' /\ Chained' BY <2>1, PacketsStay DEF ReceivePacket
  <2>5. Ended' BY <1>1 DEF ReceivePacket, IInv, Ended
  <2>6. QED BY <2>2, <2>3, <2>4, <2>5 DEF IInv
<1>2. CASE pending = <<>>
  <2>1. Packets' = Packets BY <1>2 DEF ReceivePacket, Packets
  <2>2. Types' BY <1>2 DEF ReceivePacket, IInv, Types
  <2>3. Buffered' BY <1>2 DEF ReceivePacket, IInv, Buffered, ValuesFrom
  <2>4. Spans' /\ Covered' /\ Chained' BY <2>1, PacketsStay DEF ReceivePacket
  <2>5. Ended' BY <1>2 DEF ReceivePacket, IInv, Ended
  <2>6. QED BY <2>2, <2>3, <2>4, <2>5 DEF IInv
<1>3. QED BY <1>1, <1>2

LEMMA Inductive == EncoderSpec => []IInv
<1>1. ASSUME IInv, [EncoderNext]_encoderVars PROVE IInv'
  <2>1. ASSUME NEW n \in FrameSizes, SendFrame(n) PROVE IInv' BY <1>1, <2>1, SendStep
  <2>2. CASE SendMalformed BY <1>1, <2>2, UnchangedStep DEF SendMalformed
  <2>3. CASE FlushEncoder BY <1>1, <2>3, FlushStep
  <2>4. CASE ReceivePacket BY <1>1, <2>4, ReceiveStep
  <2>5. CASE UNCHANGED encoderVars
    <3>1. Packets' = Packets /\ nextPts' = nextPts BY <2>5 DEF encoderVars, Packets
    <3>2. Types' /\ Ended' BY <1>1, <2>5 DEF encoderVars, IInv, Types, Ended
    <3>3. Buffered' BY <1>1, <2>5 DEF encoderVars, IInv, Buffered, ValuesFrom
    <3>4. Spans' /\ Covered' /\ Chained' BY <1>1, <3>1, PacketsStay
    <3>5. QED BY <3>2, <3>3, <3>4 DEF IInv
  <2>6. QED BY <1>1, <2>1, <2>2, <2>3, <2>4, <2>5 DEF EncoderNext
<1>2. QED BY Initially, <1>1, PTL DEF EncoderSpec

-----------------------------------------------------------------------------
(***************************************************************************)
(* PacketSpansCorrect: a packet's pts and duration are those of the        *)
(* samples in its file, whatever flushes failed and were retried           *)
(* (registry.rs:319-349).                                                  *)
(***************************************************************************)
THEOREM PacketSpansCorrect == EncoderSpec => []PacketSpans
<1>1. ASSUME IInv PROVE PacketSpans
  <2>1. ASSUME NEW i \in DOMAIN Packets
        PROVE  /\ Packets[i].file # <<>>
               /\ Packets[i].pts * Channels + 1 = Head(Packets[i].file)
               /\ Packets[i].duration * Channels = Len(Packets[i].file)
    <3>1. Packets[i] \in PacketRecords BY <1>1, PacketsType DEF IInv
    <3>2. PICK place \in Nat : place = Packets[i].pts * Channels
      BY <3>1, ChannelsType, SMT DEF PacketRecords
    <3>3. PICK n \in Nat : n = Packets[i].duration * Channels /\ n > 0
      BY <3>1, ChannelsType, SMT DEF PacketRecords
    <3>4. Packets[i].file = ValuesFrom(place, n) BY <1>1, <3>2, <3>3 DEF IInv, Spans
    <3>5. /\ ValuesFrom(place, n) # <<>> /\ Head(ValuesFrom(place, n)) = place + 1
          /\ Len(ValuesFrom(place, n)) = n
      BY <3>2, <3>3, SMT DEF ValuesFrom
    <3>6. QED BY <3>2, <3>3, <3>4, <3>5
  <2>2. QED BY <2>1 DEF PacketSpans
<1>2. QED BY Inductive, <1>1, PTL

(***************************************************************************)
(* EncodedOnceCorrect: no value is lost, doubled or moved by a flush that  *)
(* fails, by its retry or by frames sent after it, for every channel count *)
(* and any number of values (registry.rs:319-349).                         *)
(***************************************************************************)
THEOREM EncodedOnceCorrect == EncoderSpec => []EncodedOnce
<1>1. ASSUME IInv PROVE EncodedOnce
  <2>1. StartOf(1) = 0 BY <1>1, ChannelsType DEF IInv, Chained, StartOf, ClockAt
  <2>2. ASSUME NEW i \in DOMAIN Packets
        PROVE  Packets[i].file = Run(StartOf(i), StartOf(i + 1))
    <3>1. Packets[i] \in PacketRecords BY <1>1, PacketsType DEF IInv
    <3>2. PICK place \in Nat : place = Packets[i].pts * Channels
      BY <3>1, ChannelsType, SMT DEF PacketRecords
    <3>3. PICK n \in Nat : n = Packets[i].duration * Channels
      BY <3>1, ChannelsType, SMT DEF PacketRecords
    <3>4. StartOf(i) = place BY <3>2 DEF StartOf
    <3>5. StartOf(i + 1) = place + n
      <4>1. StartOf(i + 1) = (Packets[i].pts + Packets[i].duration) * Channels
        BY <1>1 DEF IInv, Chained, StartOf, ClockAt
      <4>2. QED BY <3>1, <3>2, <3>3, <4>1, ChannelsType, SMT DEF PacketRecords
    <3>6. Packets[i].file = ValuesFrom(place, n) BY <1>1, <3>2, <3>3 DEF IInv, Spans
    <3>7. place + n - place = n BY <3>2, <3>3
    <3>8. QED BY <3>4, <3>5, <3>6, <3>7 DEF ValuesFrom, Run
  <2>3. interleaved = Run(nextPts * Channels, accepted)
    BY <1>1 DEF IInv, Buffered, ValuesFrom, Run
  <2>4. QED BY <2>1, <2>2, <2>3 DEF EncodedOnce
<1>2. QED BY Inductive, <1>1, PTL

(***************************************************************************)
(* EofMeansAllCorrect: when the adapter answers Eof, every value that was  *)
(* accepted before the flush has been handed out (registry.rs:352-377).    *)
(***************************************************************************)
THEOREM EofMeansAllCorrect == EncoderSpec => []EofMeansAll
<1>1. ASSUME IInv PROVE EofMeansAll
  <2>1. SUFFICES ASSUME reply = "Eof"
                 PROVE  /\ closed >= 0
                        /\ \A v \in 1 .. closed :
                             \E i \in DOMAIN received : v \in ToSet(received[i].file)
    BY DEF EofMeansAll
  <2>2. eof /\ pending = <<>> /\ closed = nextPts * Channels
    BY <1>1, <2>1 DEF IInv, Ended
  <2>3. closed \in Nat BY <1>1, <2>2, ChannelsType, SMT DEF IInv, Types
  <2>4. Packets = received BY <1>1, <2>2 DEF IInv, Types, Packets
  <2>5. ASSUME NEW v \in 1 .. closed
        PROVE  \E i \in DOMAIN received : v \in ToSet(received[i].file)
    <3>1. PICK i \in DOMAIN received : Holds(received[i], v)
      BY <1>1, <2>2, <2>4, <2>5 DEF IInv, Covered
    <3>2. received[i] \in PacketRecords BY <1>1, <2>4, PacketsType DEF IInv
    <3>3. PICK place \in Nat : place = received[i].pts * Channels
      BY <3>2, ChannelsType, SMT DEF PacketRecords
    <3>4. PICK n \in Nat : n = received[i].duration * Channels
      BY <3>2, ChannelsType, SMT DEF PacketRecords
    <3>5. received[i].file = ValuesFrom(place, n) BY <1>1, <2>4, <3>3, <3>4 DEF IInv, Spans
    <3>6. place < v /\ v <= place + n /\ v \in Nat
      BY <2>3, <2>5, <3>1, <3>2, <3>3, <3>4, ChannelsType, SMT DEF Holds, PacketRecords
    <3>7. v - place \in 1 .. n /\ ValuesFrom(place, n)[v - place] = v
      BY <3>6 DEF ValuesFrom
    <3>8. v \in ToSet(ValuesFrom(place, n)) BY <3>7 DEF ToSet, ValuesFrom
    <3>9. QED BY <3>5, <3>8
  <2>6. QED BY <2>3, <2>5
<1>2. QED BY Inductive, <1>1, PTL
=============================================================================
