--------------------------- MODULE EncoderAdapter ---------------------------
(***************************************************************************)
(* TtaEncoder of src/registry.rs: PCM is buffered until flush, which makes *)
(* one packet, a whole TTA1 file, of it.  A flush fails, and may be        *)
(* retried, while the buffer is not a whole number of samples.  Values are *)
(* numbered in the order they were accepted.                               *)
(***************************************************************************)
EXTENDS Integers, Sequences, SequencesExt

CONSTANTS
  Channels,     \* 1 .. 6, checked by make_encoder
  FrameSizes,   \* interleaved values in an audio frame
  MaxAccepted   \* bound: values the caller sends in all

ASSUME ChannelsAssumption == Channels \in Nat \ {0}
ASSUME FrameSizesAssumption == FrameSizes \subseteq Nat

VARIABLES
  interleaved,  \* the buffered values
  pending,      \* packets ready to hand out: [pts, duration, file]
  nextPts,
  eof,
  reply,        \* what the last call returned
  accepted,     \* history: values accepted so far
  closed,       \* history: values accepted when a flush succeeded first
  received      \* history: packets handed out

encoderVars == <<interleaved, pending, nextPts, eof, reply, accepted, closed, received>>
encoder == <<interleaved, pending, nextPts, eof>>

EncoderInit ==
  /\ interleaved = <<>> /\ pending = <<>> /\ nextPts = 0 /\ eof = FALSE
  /\ reply = "none"
  /\ accepted = 0 /\ closed = -1 /\ received = <<>>

\* ingest_frame; eof is not looked at.
SendFrame(n) ==
  /\ accepted + n <= MaxAccepted
  /\ interleaved' = interleaved \o [i \in 1 .. n |-> accepted + i]
  /\ accepted' = accepted + n
  /\ reply' = "ok"
  /\ UNCHANGED <<pending, nextPts, eof, closed, received>>

\* Not audio, no plane, or a byte length that is no whole number of values:
\* refused before any value is taken.
SendMalformed ==
  /\ reply' = "invalid"
  /\ UNCHANGED <<encoder, accepted, closed, received>>

\* Faulty variant: the duration counts values.
PacketOfValues(values) ==
  [pts |-> nextPts, duration |-> Len(values), file |-> values]

\* The file that crate::encode makes of the buffer, in its packet.
PacketOf(values) ==
  [pts |-> nextPts, duration |-> Len(values) \div Channels, file |-> values]

\* Faulty variant: encoded but not cleared.
FlushedKeeping ==
  /\ pending' = Append(pending, PacketOf(interleaved))
  /\ nextPts' = nextPts + Len(interleaved) \div Channels
  /\ interleaved' = interleaved

\* flush_to_packet, on a buffer that holds whole samples.
Flushed ==
  /\ pending' = Append(pending, PacketOf(interleaved))
  /\ nextPts' = nextPts + Len(interleaved) \div Channels
  /\ interleaved' = <<>>

Misaligned == Len(interleaved) % Channels # 0

\* Faulty variant: eof is set before the flush is known to succeed.
FlushEncoderEofFirst ==
  /\ eof' = TRUE
  /\ IF ~eof /\ interleaved # <<>>
     THEN IF Misaligned
          THEN UNCHANGED <<interleaved, pending, nextPts, closed>> /\ reply' = "invalid"
          ELSE Flushed /\ closed' = accepted /\ reply' = "flushed"
     ELSE /\ UNCHANGED <<interleaved, pending, nextPts>>
          /\ closed' = IF eof THEN closed ELSE accepted
          /\ reply' = "flushed"
  /\ UNCHANGED <<accepted, received>>

FlushEncoder ==
  /\ IF eof
     THEN UNCHANGED <<encoder, closed>> /\ reply' = "flushed"
     ELSE IF interleaved # <<>> /\ Misaligned
     THEN UNCHANGED <<encoder, closed>> /\ reply' = "invalid"
     ELSE /\ IF interleaved = <<>>
             THEN UNCHANGED <<interleaved, pending, nextPts>>
             ELSE Flushed
          /\ eof' = TRUE
          /\ closed' = accepted
          /\ reply' = "flushed"
  /\ UNCHANGED <<accepted, received>>

ReceivePacket ==
  /\ IF pending # <<>>
     THEN /\ received' = Append(received, Head(pending))
          /\ pending' = Tail(pending)
          /\ reply' = "packet"
     ELSE /\ reply' = IF eof THEN "Eof" ELSE "NeedMore"
          /\ UNCHANGED <<pending, received>>
  /\ UNCHANGED <<interleaved, nextPts, eof, accepted, closed>>

EncoderNext ==
  \/ \E n \in FrameSizes : SendFrame(n)
  \/ SendMalformed
  \/ FlushEncoder
  \/ ReceivePacket

EncoderSpec == EncoderInit /\ [][EncoderNext]_encoderVars

-----------------------------------------------------------------------------
Packets == received \o pending

(***************************************************************************)
(* EncodedOnce: whatever the order of sends, failing flushes, retries and  *)
(* receives, every accepted value is in the packets or in the buffer, once *)
(* and in order: the first packet begins with the first value, each holds  *)
(* the values from its pts up to the pts of the next, the last up to the   *)
(* adapter's clock, and the buffer the rest (registry.rs:319-349).         *)
(***************************************************************************)
StartOf(i) == (IF i \in DOMAIN Packets THEN Packets[i].pts ELSE nextPts) * Channels
Run(first, last) == [i \in 1 .. last - first |-> first + i]

EncodedOnce ==
  /\ StartOf(1) = 0
  /\ \A i \in DOMAIN Packets : Packets[i].file = Run(StartOf(i), StartOf(i + 1))
  /\ interleaved = Run(nextPts * Channels, accepted)

(***************************************************************************)
(* EofMeansAll: Eof is answered only after a flush succeeded and all that  *)
(* had been accepted before it has been handed out.                        *)
(***************************************************************************)
EofMeansAll ==
  reply = "Eof" =>
    /\ closed >= 0
    /\ \A v \in 1 .. closed : \E i \in DOMAIN received : v \in ToSet(received[i].file)

(***************************************************************************)
(* PacketSpans: a packet's pts and duration are those of the samples in    *)
(* its file, on the clock that counts every accepted sample.               *)
(***************************************************************************)
PacketSpans ==
  \A i \in DOMAIN Packets :
    /\ Packets[i].file # <<>>
    /\ Packets[i].pts * Channels + 1 = Head(Packets[i].file)
    /\ Packets[i].duration * Channels = Len(Packets[i].file)

(***************************************************************************)
(* FlushEmits: a flush that answered Ok has left nothing in the buffer: it *)
(* encodes "the whole buffer" and emits it (registry.rs:246-252).          *)
(***************************************************************************)
FlushEmits == reply = "flushed" => interleaved = <<>>
=============================================================================
