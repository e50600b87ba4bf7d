------------------------------- MODULE Stream -------------------------------
(***************************************************************************)
(* A TTA1 file as its readers see it: where the writer's frames lie, what  *)
(* the seek table claims, which bytes are damaged, and what decoding one   *)
(* frame window yields.  Shared by the streaming decoder (Decoder) and by  *)
(* the demuxer and codec adapter of the registry (Playback).               *)
(*                                                                         *)
(* PCM is identified by position: entry e is the e-th interleaved i32 of   *)
(* what the writer encoded, so "the right samples" means the right         *)
(* entries.  Decoding with a Stage-A priming other than the writer's gives *)
(* Garbled entries: the frame CRC covers the bytes, not the priming.       *)
(***************************************************************************)
EXTENDS Header

CONSTANTS
  Files,        \* the files a reader may be handed
  Digests,      \* password digests
  ZeroDigest    \* the digest of the empty password, and format 1's priming

(***************************************************************************)
(* `size' and `place' are the frames as the writer laid them out, `bad'    *)
(* those whose bytes no longer match their CRC, `table' the sizes the seek *)
(* table stores now, `tableCrc' whether its CRC still matches them, `id3'  *)
(* the extent an ID3v2 prefix claims (0: none), `len' the bytes present,   *)
(* `key' the digest the writer primed qm with.                             *)
(***************************************************************************)
DataStart(f) == f.id3 + HEADER_LEN + SeekTableLen(f.h)
FrameIds(f) == 0 .. FrameCount(f.h) - 1

WellFormed(f) ==
  /\ f.h \in HeaderRecords
  /\ f.id3 \in Nat /\ f.len \in Nat /\ f.key \in Digests /\ f.tableCrc \in BOOLEAN
  /\ {f.size, f.place, f.table} \subseteq [FrameIds(f) -> Nat]
  /\ f.bad \subseteq FrameIds(f)
  /\ f.h.format = 1 => f.key = ZeroDigest
  \* The writer emits at least one bit per residual before the 4 CRC bytes.
  /\ \A w \in FrameIds(f) :
       /\ f.size[w] > 4
       /\ FrameSamples(f.h, w) * f.h.channels <= 8 * (f.size[w] - 4)
       /\ w = 0 => f.place[w] = DataStart(f)
       /\ w > 0 => f.place[w] = f.place[w - 1] + f.size[w - 1]
  /\ \A v, w \in FrameIds(f) : v < w => f.place[v] + f.size[v] <= f.place[w]

ASSUME FilesAssumption == \A f \in Files : WellFormed(f)

-----------------------------------------------------------------------------
\* parse_seek_table: the descriptor of entry i, given where its window starts.
Descriptor(f, i, offset) ==
  [offset |-> offset, disk |-> f.table[i], samples |-> FrameSamples(f.h, i)]

\* The whole table: every window starts where the stored sizes before it end.
Windows(f) ==
  LET start[i \in 0 .. FrameCount(f.h)] ==
        IF i = 0 THEN DataStart(f) ELSE start[i - 1] + f.table[i - 1]
  IN  [j \in 1 .. FrameCount(f.h) |-> Descriptor(f, j - 1, start[j - 1])]

(***************************************************************************)
(* decode_frame_at / decode_frame_inner on one descriptor.  The window     *)
(* [offset, offset + disk) holds a decodable frame exactly when it is a    *)
(* frame the writer placed there, undamaged, of at least as many samples   *)
(* as the descriptor wants; a shorter count decodes a prefix of it, since  *)
(* the CRC covers the bytes and not the samples drawn from them.  (The     *)
(* padding bits of a shorter frame are taken to hold no further residual.) *)
(***************************************************************************)
Matching(f, d) == {w \in FrameIds(f) : f.place[w] = d.offset /\ f.size[w] = d.disk}

Undecodable(f, d) ==
  \/ d.offset + d.disk > f.len
  \/ d.disk < 4
  \/ d.samples * f.h.channels > 8 * (d.disk - 4)
  \/ \A w \in Matching(f, d) : w \in f.bad \/ FrameSamples(f.h, w) < d.samples

\* The interleaved entries a .. b - 1.
Entries(a, b) == [i \in 1 .. b - a |-> a + i - 1]
Garbled == -1

FrameAudio(f, d, qm) ==
  LET first == (CHOOSE w \in Matching(f, d) : TRUE)
                 * (RegularFrameSamples(f.h) * f.h.channels)
      n     == d.samples * f.h.channels
  IN  IF qm = f.key THEN Entries(first, first + n) ELSE [i \in 1 .. n |-> Garbled]

-----------------------------------------------------------------------------
\* What the properties of the readers speak of.

TableIntact(f) == f.table = f.size

\* Other sizes under a CRC computed anew; damage alone never looks like that:
\* one entry of 4 bytes is a burst that CRC32 always detects.
Forged(f) == f.tableCrc /\ ~TableIntact(f)

\* Frame w cannot be decoded whatever the seek table says.
Damaged(f, w) == w \in f.bad \/ f.place[w] + f.size[w] > f.len
=============================================================================
