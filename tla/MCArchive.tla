----------------------------- MODULE MCArchive -----------------------------
(***************************************************************************)
(* Archive over streams of up to 2 frames and up to 3 blocks behind them.  *)
(* Integers below 9 fit the u32, so that counts and blob sizes reach it.   *)
(***************************************************************************)
EXTENDS Archive

MCDigests == {"zero", "key"}

Ask(values, channels, bps, rate, format, key) ==
  [values |-> values, channels |-> channels, bps |-> bps, rate |-> rate,
   format |-> format, key |-> key]

\* Lengths from none to past the width; each argument out of its range once.
MCRequests ==
  {Ask(v, 1, 16, 4, 1, "zero") : v \in {0, 3, 4, 9, 10}}
  \cup {Ask(v, 2, 24, 2, 2, "key") : v \in {3, 6}} \cup {Ask(2, 1, 16, 2, 2, "zero")}
  \cup {Ask(2, n, 16, 2, 1, "zero") : n \in {0, 7}}
  \cup {Ask(2, 1, 15, 2, 1, "zero"), Ask(2, 1, 16, 0, 1, "zero")}

Piece(kind, len, tagSize, hasHeader) ==
  [kind |-> kind, at |-> 0, len |-> len, tagSize |-> tagSize, hasHeader |-> hasHeader]

\* Tags as taggers write them, bytes of another kind, and two footers that
\* declare less than their tag has and more than the file has.
MCTags ==
  {Piece("id3v1", 128, 0, FALSE), Piece("ape", 32, 32, FALSE), Piece("ape", 70, 38, TRUE),
   Piece("other", 7, 0, FALSE), Piece("ape", 64, 0, TRUE), Piece("ape", 40, 300, FALSE)}

MCSlack == {0, 4}
MCStray == {2, 40, 1000}
=============================================================================
