------------------------------ MODULE BitSink ------------------------------
(***************************************************************************)
(* What BitWriter promises (src/encoder.rs:288-305): the bits of each call *)
(* behind those of the calls before, least significant first, and at the   *)
(* end zeros up to the next byte.  There is no cache.  What is written is  *)
(* a body as BitCursor reads it.                                           *)
(***************************************************************************)
EXTENDS Bits, Sequences

CONSTANTS
  Half,         \* 32: the most bits put_bits takes
  Values,       \* the values a caller passes
  Lengths       \* the lengths of unary codes

VARIABLES
  body,         \* [bits, ones]: what has been written
  calls,        \* the calls that returned
  closed

sinkVars == <<body, calls, closed>>

BitsCall(v, k) == [name |-> "put_bits", value |-> v, k |-> k]
UnaryCall(n) == [name |-> "put_unary", u |-> n]
FinishCall == [name |-> "finish_byte_aligned"]

Init ==
  /\ body = [bits |-> 0, ones |-> {}]
  /\ calls = <<>>
  /\ closed = FALSE

\* The k low bits of v; its higher bits are ignored.
PutBits(v, k) ==
  /\ ~closed
  /\ calls' = Append(calls, BitsCall(v, k))
  /\ body' = Extend(body, v, k)
  /\ closed' = closed

\* u ones and a zero.
PutUnary(u) ==
  /\ ~closed
  /\ calls' = Append(calls, UnaryCall(u))
  /\ body' = Extend(body, 0 .. u - 1, u + 1)
  /\ closed' = closed

Finish ==
  /\ ~closed
  /\ body' = [body EXCEPT !.bits = ((@ + ByteBits - 1) \div ByteBits) * ByteBits]
  /\ calls' = Append(calls, FinishCall)
  /\ closed' = TRUE

Next ==
  \/ \E v \in Values, k \in 0 .. Half : PutBits(v, k)
  \/ \E u \in Lengths : PutUnary(u)
  \/ Finish

Spec == Init /\ [][Next]_sinkVars
=============================================================================
