----------------------------- MODULE FrameBytes -----------------------------
(***************************************************************************)
(* The bytes of one frame, from writer to reader: encode_one_frame writes  *)
(* codewords through BitWriter and puts the CRC of the body behind it; a   *)
(* burst may hit the frame; decode_frame_inner holds the body against its  *)
(* CRC.  The header and the seek table have their CRC computed and placed  *)
(* in the same way.                                                        *)
(***************************************************************************)
EXTENDS BitWriter, Crc

VARIABLES
  wire,         \* the frame: its body and the CRC behind it
  hit,          \* history: the bits the burst turned over
  fate          \* writing, sealed, accepted, refused

vars == <<writerVars, wire, hit, fate>>

ASSUME FrameAssumption == CrcByte = ByteBits

Init ==
  /\ WriterInit
  /\ wire = [bits |-> 0, ones |-> {}] /\ hit = {} /\ fate = "writing"

Write == WriterNext /\ UNCHANGED <<wire, hit, fate>>

\* encode_one_frame appends the CRC, least significant byte first.
Seal ==
  /\ pc = "done" /\ fate = "writing"
  /\ wire' = Extend(out, crc32(out), CrcBits)
  /\ fate' = "sealed"
  /\ UNCHANGED <<writerVars, hit>>

\* Up to CrcBits consecutive bits, from bit p on, are damaged.
Burst(p, pattern) ==
  /\ fate = "sealed" /\ hit = {}
  /\ ShiftLeft(pattern, p) \subseteq 0 .. wire.bits - 1
  /\ hit' = ShiftLeft(pattern, p)
  /\ wire' = [wire EXCEPT !.ones = Xor(@, hit')]
  /\ UNCHANGED <<writerVars, fate>>

\* decode_frame_inner: the last bytes of the window against the CRC of the rest.
BodyOf(frame) ==
  [bits |-> frame.bits - CrcBits, ones |-> LowBits(frame.ones, frame.bits - CrcBits)]

Verify ==
  /\ fate = "sealed"
  /\ fate' = IF ShiftRight(wire.ones, wire.bits - CrcBits) = crc32(BodyOf(wire))
             THEN "accepted" ELSE "refused"
  /\ UNCHANGED <<writerVars, wire, hit>>

Next ==
  \/ Write \/ Seal \/ Verify
  \/ \E p \in 0 .. wire.bits - 1, pattern \in SUBSET Ones : 0 \in pattern /\ Burst(p, pattern)

Spec == Init /\ [][Next]_vars

-----------------------------------------------------------------------------
(***************************************************************************)
(* CrcIsRemainder: the table-driven CRC, eight bytes at a time with a      *)
(* byte-wise rest, is the bit-serial one for every body, its last bytes    *)
(* included (crc32.rs:42-52, 96-100).                                      *)
(***************************************************************************)
CrcIsRemainder == fate = "sealed" /\ hit = {} => crc32(out) = BitSerial(out)

(***************************************************************************)
(* BurstNoticed: a frame is accepted if and only if it is as it was        *)
(* written, whichever burst of up to the CRC's width hit it, also across   *)
(* the end of the body.  Stream relies on it: a table or a frame whose     *)
(* CRC matches is the one that was written.                                *)
(***************************************************************************)
BurstNoticed ==
  /\ fate = "accepted" => hit = {}
  /\ fate = "refused" => hit # {}

-----------------------------------------------------------------------------
(***************************************************************************)
(* ReadsBack: from an accepted frame the reader's cursor gets, call by     *)
(* call, the codewords that were written, and what is left is less than a  *)
(* byte of zeros, so that no codeword lies behind the last one.            *)
(***************************************************************************)
Reader == INSTANCE BitCursor WITH
            body <- BodyOf(wire), head <- 0, answer <- fate, Bodies <- {},
            Widths <- 0 .. Half

Width(c) == IF c.name = "put_bits" THEN c.k ELSE c.u + 1

ReadsBack ==
  fate = "accepted" =>
    LET at[n \in 1 .. Len(calls)] == IF n = 1 THEN 0 ELSE at[n - 1] + Width(calls[n - 1])
        end == at[Len(calls)]
    IN  /\ \A n \in 1 .. Len(calls) - 1 :
             IF calls[n].name = "put_bits"
             THEN Reader!BitsAt(at[n], calls[n].k) = LowBits(calls[n].value, calls[n].k)
             ELSE /\ Reader!OnesFrom(at[n], calls[n].u)
                  /\ at[n] + calls[n].u \notin BodyOf(wire).ones
        /\ BodyOf(wire).bits - end \in 0 .. ByteBits - 1
        /\ \A i \in BodyOf(wire).ones : i < end
=============================================================================
