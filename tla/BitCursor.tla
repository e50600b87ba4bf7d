----------------------------- MODULE BitCursor -----------------------------
(***************************************************************************)
(* What BitReader promises its caller (src/bitreader.rs, module header): a *)
(* cursor over the body's bits, least significant bit of each byte first.  *)
(* There is no cache here.  Bits are sets of positions: a body is the set  *)
(* of its one-bits, a value read is the set of the one-bits in it.         *)
(***************************************************************************)
EXTENDS Integers

CONSTANTS
  Bodies,       \* [bits, ones]: frame bodies, without the trailing CRC
  Widths        \* the k a caller asks read_bits for

VARIABLES
  body,         \* the borrowed slice, never written
  head,         \* the first bit not yet read
  answer        \* what the last call returned

cursorVars == <<body, head, answer>>

Truncated == [error |-> TRUE]
BitsRead(v) == [bits |-> v]
OnesRead(n) == [ones |-> n]

\* The k bits from position h on, as a value.
BitsAt(h, k) == {i \in 0 .. k - 1 : h + i \in body.ones}
OnesFrom(h, n) == \A i \in 0 .. n - 1 : h + i \in body.ones

Init ==
  /\ body \in Bodies
  /\ head = 0
  /\ answer = BitsRead({})

\* Too few bits left: an error, and none of them is consumed.
ReadBits(k) ==
  /\ IF head + k <= body.bits
     THEN answer' = BitsRead(BitsAt(head, k)) /\ head' = head + k
     ELSE answer' = Truncated /\ head' = head
  /\ body' = body

\* n ones and the zero behind them; a run to the end of the body is an error.
ReadUnary(n) ==
  /\ OnesFrom(head, n)
  /\ IF head + n = body.bits
     THEN answer' = Truncated /\ head' = body.bits
     ELSE /\ head + n < body.bits
          /\ head + n \notin body.ones
          /\ answer' = OnesRead(n)
          /\ head' = head + n + 1
  /\ body' = body

Next ==
  \/ \E k \in Widths : ReadBits(k)
  \/ \E n \in 0 .. body.bits : ReadUnary(n)

Spec == Init /\ [][Next]_cursorVars
=============================================================================
