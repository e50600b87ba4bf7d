----------------------------- MODULE MCDecoder -----------------------------
(***************************************************************************)
(* Targets over small files.  Rate r < 23 gives frames of r samples, so    *)
(* rates 2 and 3 are real streams; a stored size of 5 holds 8 residuals.   *)
(***************************************************************************)
EXTENDS Targets, FiniteSetsExt

CONSTANTS
  Totals,       \* per-channel sample counts
  Rates,
  Channels,
  Prefix,       \* extent of an ID3v2 prefix
  k1, k2        \* two password digests

MCDigests == {"zero", k1, k2}
MCSeeds == {<<1, 3, 0>>, <<4, 2, 1>>}

Hdr(total, rate, nch, format) ==
  [magic |-> TRUE, crc |-> TRUE, format |-> format, channels |-> nch, bps |-> 16,
   rate |-> rate, total |-> total]

\* A file as the encoder writes it: frames of 5 bytes laid end to end.
FrameSize == 5
Healthy(h, id3, key) ==
  LET frames == 0 .. FrameCount(h) - 1
      start  == id3 + HEADER_LEN + SeekTableLen(h)
      sizes  == [w \in frames |-> FrameSize]
  IN  [h |-> h, id3 |-> id3, size |-> sizes, table |-> sizes,
       place |-> [w \in frames |-> start + w * FrameSize], bad |-> {},
       tableCrc |-> TRUE, len |-> start + FrameCount(h) * FrameSize, key |-> key]

\* One thing goes wrong: a frame, the table's CRC, one of its entries (too
\* small, too large, or as large as two frames, which realigns the rest; with
\* a CRC that fails or one computed anew), a lost tail, or two frames.
Mishaps(f) ==
  LET frames == FrameIds(f) IN
  {[f EXCEPT !.bad = b] : b \in kSubset(1, frames) \cup kSubset(2, frames)}
  \cup {[f EXCEPT !.tableCrc = FALSE]}
  \cup {[f EXCEPT !.tableCrc = FALSE, !.table[w] = s] :
          w \in frames, s \in {0, 3, 4, 2 * FrameSize, 1000}}
  \cup {[f EXCEPT !.table[w] = s] : w \in frames, s \in {0, 2 * FrameSize}}
  \cup {[f EXCEPT !.len = n] :
          n \in {0, HEADER_LEN - 1, f.id3 - 1, DataStart(f) - 1, f.len - 1,
                 f.len - FrameSize} \cap Nat}

BadHeaders(h) ==
  {[h EXCEPT !.magic = FALSE], [h EXCEPT !.crc = FALSE], [h EXCEPT !.format = 3],
   [h EXCEPT !.channels = 7], [h EXCEPT !.bps = 8], [h EXCEPT !.rate = 0],
   [h EXCEPT !.channels = 7, !.bps = 25], [h EXCEPT !.bps = 15, !.rate = 0],
   [h EXCEPT !.format = 0, !.channels = 0]}

\* More than one channel at the lowest rate only.
Plain ==
  {Healthy(Hdr(t, r, 1, 1), 0, "zero") : t \in Totals, r \in Rates}
  \cup {Healthy(Hdr(t, Min(Rates), n, 1), 0, "zero") : t \in Totals, n \in Channels}
Locked == {Healthy(Hdr(3, 2, n, 2), Prefix, k) : n \in Channels, k \in MCDigests}

\* TLC works a definition of its own out once, a constant's at every use.
HandedOut ==
  Plain \cup Locked
  \cup UNION {Mishaps(f) : f \in Plain}
  \cup {Healthy(h, 0, "zero") : h \in BadHeaders(Hdr(1, 2, 1, 1))}
  \cup Mishaps(Healthy(Hdr(3, 2, 1, 2), Prefix, k1))

MCFiles == HandedOut
=============================================================================
