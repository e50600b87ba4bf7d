----------------------------- MODULE BitReader -----------------------------
(***************************************************************************)
(* src/bitreader.rs: the LSB-first reader of a frame body, with a cache of *)
(* one machine word that is topped up several bytes at a time.  The bulk   *)
(* refill ORs a whole word in but counts only the bytes that fit, so bits  *)
(* of the next byte stay above the valid region and are ORed in again when *)
(* that byte is loaded.  A word is the set of its one-bits: OR is union.   *)
(***************************************************************************)
EXTENDS Bits

CONSTANTS
  CacheBytes,   \* 8: bytes of the u64 cache
  Bodies,       \* [bits, ones]: frame bodies, without the trailing CRC
  Widths        \* the k a caller asks read_bits for; 0 .. 32 of 56

VARIABLES
  body,         \* the borrowed slice, never written
  pos,          \* bytes drawn into the cache
  bcache,       \* the cache, stale bits included
  bcount,       \* its valid width
  phase,           \* "idle", or "unary" inside read_unary's loop
  run,          \* read_unary's `count': ones swallowed so far
  answer        \* what the last call returned

readerVars == <<body, pos, bcache, bcount, phase, run, answer>>

Word == CacheBytes * ByteBits
Full == (CacheBytes - 1) * ByteBits      \* 56
Bytes == body.bits \div ByteBits

\* With a word of one byte the refill would never load anything.
ASSUME WordAssumption == ByteBits \in Nat \ {0} /\ CacheBytes \in Nat \ {0, 1}
ASSUME WidthsAssumption == Widths \subseteq 0 .. (CacheBytes - 1) * ByteBits
ASSUME BodiesAssumption ==
  \A b \in Bodies : /\ b.bits \in Nat /\ b.bits % ByteBits = 0
                    /\ b.ones \subseteq 0 .. b.bits - 1

\* What a call returns.
Truncated == [error |-> TRUE]
BitsRead(v) == [bits |-> v]
OnesRead(n) == [ones |-> n]

Least(a, b) == IF a < b THEN a ELSE b

\* The n bytes at pos, shifted to where the valid bits end, in one word.
Loaded(n) ==
  {bcount + i : i \in {j \in 0 .. n * ByteBits - 1 :
     pos * ByteBits + j \in body.ones /\ bcount + j < Word}}

-----------------------------------------------------------------------------
(***************************************************************************)
(* refill: [pos, cache, count] after topping up to at least Full bits or   *)
(* to the end of the body.  bcount |= 56 keeps the remainder of bcount.    *)
(***************************************************************************)
Kept == [pos |-> pos, cache |-> bcache, count |-> bcount]

Bulk ==
  [pos   |-> pos + (Word - 1 - bcount) \div ByteBits,
   cache |-> bcache \cup Loaded(CacheBytes),
   count |-> Full + (bcount % ByteBits)]

\* Faulty variant: the tail reads on behind the body.
ByteWiseUnbounded ==
  LET n == (Full - bcount + ByteBits - 1) \div ByteBits
  IN  [pos |-> pos + n, cache |-> bcache \cup Loaded(n), count |-> bcount + n * ByteBits]

\* The byte-wise tail: bytes until bcount >= Full, or all that are left.
ByteWise ==
  LET n == Least(Bytes - pos, (Full - bcount + ByteBits - 1) \div ByteBits)
  IN  [pos |-> pos + n, cache |-> bcache \cup Loaded(n), count |-> bcount + n * ByteBits]

Refill ==
  IF bcount >= Full THEN Kept
  ELSE IF pos + CacheBytes <= Bytes THEN Bulk
  ELSE ByteWise

-----------------------------------------------------------------------------
ReaderInit ==
  /\ body \in Bodies
  /\ pos = 0 /\ bcache = {} /\ bcount = 0
  /\ phase = "idle" /\ run = 0
  /\ answer = BitsRead({})

\* k = 0 touches nothing; otherwise refill if need be, and fail if in vain.
ReadBits(k) ==
  LET r == IF bcount < k THEN Refill ELSE Kept IN
  /\ phase = "idle"
  /\ pos' = r.pos
  /\ IF r.count < k
     THEN answer' = Truncated /\ bcache' = r.cache /\ bcount' = r.count
     ELSE /\ answer' = BitsRead(r.cache \cap 0 .. k - 1)
          /\ bcache' = ShiftRight(r.cache, k)
          /\ bcount' = r.count - k
  /\ UNCHANGED <<body, phase, run>>

ReadUnary ==
  /\ phase = "idle"
  /\ phase' = "unary"
  /\ run' = 0
  /\ UNCHANGED <<body, pos, bcache, bcount, answer>>

\* trailing_ones of a word.
TrailingOnes(w, n) == (\A i \in 0 .. n - 1 : i \in w) /\ n \notin w

Return(a) == phase' = "idle" /\ answer' = a /\ run' = 0

\* Faulty variants: stale bits count; the refill is taken to find something;
\* the cache survives a turn of ones only.
EndsUncapped(r, ones) == TRUE
ExhaustedNever(r) == FALSE
SwallowKeeping(r) == run' = run + r.count /\ bcache' = r.cache /\ bcount' = 0

\* The terminating zero lies inside the valid bits.
Ends(r, ones) == ones < r.count
Exhausted(r) == r.count = 0
Swallow(r) == run' = run + r.count /\ bcache' = {} /\ bcount' = 0

\* One turn of read_unary's loop.
ReaderUnaryTurn ==
  LET r == IF bcount = 0 THEN Refill ELSE Kept IN
  /\ phase = "unary"
  /\ pos' = r.pos
  /\ \E ones \in 0 .. Word :
       /\ TrailingOnes(r.cache, ones)
       /\ IF Exhausted(r)
          THEN Return(Truncated) /\ bcache' = r.cache /\ bcount' = 0
          ELSE IF Ends(r, ones)
          THEN /\ Return(OnesRead(run + ones))
               /\ bcache' = ShiftRight(r.cache, ones + 1)
               /\ bcount' = r.count - (ones + 1)
          ELSE Swallow(r) /\ UNCHANGED <<phase, answer>>
  /\ body' = body

ReaderNext == (\E k \in Widths : ReadBits(k)) \/ ReadUnary \/ ReaderUnaryTurn

ReaderSpec == ReaderInit /\ [][ReaderNext]_readerVars

-----------------------------------------------------------------------------
(***************************************************************************)
(* ReaderTypeOK: the cache never claims more bits than the word holds      *)
(* below its top bit, nor the reader more bytes than the body has.         *)
(***************************************************************************)
ReaderTypeOK ==
  /\ pos \in 0 .. Bytes
  /\ bcache \subseteq 0 .. Word - 1
  /\ bcount \in 0 .. Word - 1
  /\ bcount <= pos * ByteBits
  /\ phase \in {"idle", "unary"}
  /\ run \in Nat

\* The first bit of the body that has not been handed out.
Unread == pos * ByteBits - bcount

(***************************************************************************)
(* CacheSound: the valid bits are the body's, and a stale bit above them,  *)
(* if set, is set in the body as well, so that ORing its byte in again is  *)
(* harmless (bitreader.rs:16-21).                                          *)
(***************************************************************************)
CacheSound ==
  /\ \A i \in bcache : Unread + i \in body.ones
  /\ \A i \in 0 .. bcount - 1 : Unread + i \in body.ones => i \in bcache

(***************************************************************************)
(* ReadsTheBody: the caller sees a plain cursor over the body's bits: every *)
(* value is the body's, and an error comes exactly when the body runs out.  *)
(* A unary read in progress has consumed nothing yet.                       *)
(***************************************************************************)
Cursor == INSTANCE BitCursor WITH head <- Unread - run
ReadsTheBody == Cursor!Spec

\* UnaryEnds: read_unary returns, also when the body is ones to its end.
UnaryEnds == phase = "unary" ~> phase = "idle"
=============================================================================
