----------------------------- MODULE BitWriter -----------------------------
(***************************************************************************)
(* BitWriter of src/encoder.rs: a cache of two half words, flushed one     *)
(* half at a time, so that a call always finds room for a half word.  A    *)
(* unary code longer than a half word takes several puts, and finishing    *)
(* drains the cache byte by byte.                                          *)
(***************************************************************************)
EXTENDS Bits, Sequences

CONSTANTS
  HalfBytes,    \* 4: bytes of the u32 that is flushed
  Values,       \* the values a caller passes to put_bits
  Lengths,      \* the lengths of its unary codes
  MaxCalls      \* bound: puts into one body

VARIABLES
  out,          \* `bytes', as [bits, ones]
  cache,        \* the u64
  nbits,        \* how many of its bits are in use
  u,            \* put_unary's argument, in its loop
  remaining,    \* and what of it is left to write
  calls,        \* history: the calls that returned
  pc            \* open, unary (in put_unary's loop), closing, done

writerVars == <<out, cache, nbits, u, remaining, calls, pc>>

Half == HalfBytes * ByteBits

ASSUME WriterAssumption ==
  /\ ByteBits \in Nat \ {0} /\ HalfBytes \in Nat \ {0} /\ Lengths \subseteq Nat /\ MaxCalls \in Nat
  /\ \A v \in Values : v \subseteq 0 .. HalfBytes * ByteBits - 1

BitsCall(v, k) == [name |-> "put_bits", value |-> v, k |-> k]
UnaryCall(n) == [name |-> "put_unary", u |-> n]
FinishCall == [name |-> "finish_byte_aligned"]

WriterInit ==
  /\ out = [bits |-> 0, ones |-> {}] /\ cache = {} /\ nbits = 0
  /\ u = 0 /\ remaining = 0 /\ calls = <<>> /\ pc = "open"

-----------------------------------------------------------------------------
\* Faulty variants: the value is not masked; the flushed half stays.
MaskedNot(v, k) == v
FlushedKeeping(c, n) ==
  /\ out' = Extend(out, c, Half) /\ cache' = c /\ nbits' = n - Half

Masked(v, k) == LowBits(v, k)

Flushed(c, n) ==
  /\ out' = Extend(out, c, Half) /\ cache' = ShiftRight(c, Half) /\ nbits' = n - Half

\* put_bits on the writer's fields.
Put(v, k) ==
  LET c == cache \cup ShiftLeft(Masked(v, k), nbits)
      n == nbits + k
  IN  IF n >= Half THEN Flushed(c, n)
      ELSE out' = out /\ cache' = c /\ nbits' = n

PutBits(v, k) ==
  /\ pc = "open" /\ Len(calls) < MaxCalls
  /\ Put(v, k)
  /\ calls' = Append(calls, BitsCall(v, k))
  /\ UNCHANGED <<u, remaining, pc>>

\* A code that fits a half word is one put; a longer one enters the loop.
PutUnary(n) ==
  /\ pc = "open" /\ Len(calls) < MaxCalls
  /\ IF n < Half
     THEN /\ Put(0 .. n - 1, n + 1)
          /\ calls' = Append(calls, UnaryCall(n))
          /\ UNCHANGED <<u, remaining, pc>>
     ELSE /\ pc' = "unary" /\ u' = n /\ remaining' = n
          /\ UNCHANGED <<out, cache, nbits, calls>>

\* A turn of the loop, and what follows it: the last ones and the zero.
UnaryTurn ==
  /\ pc = "unary" /\ remaining >= Half
  /\ Put(0 .. Half - 1, Half)
  /\ remaining' = remaining - Half
  /\ UNCHANGED <<u, calls, pc>>

\* Faulty variant: when nothing remains, nothing is put.
UnaryEndIfAny ==
  /\ pc = "unary" /\ remaining < Half
  /\ IF remaining = 0 THEN UNCHANGED <<out, cache, nbits>>
     ELSE Put(0 .. remaining - 1, remaining + 1)
  /\ pc' = "open" /\ u' = 0 /\ remaining' = 0 /\ calls' = Append(calls, UnaryCall(u))

UnaryEnd ==
  /\ pc = "unary" /\ remaining < Half
  /\ Put(0 .. remaining - 1, remaining + 1)
  /\ pc' = "open" /\ u' = 0 /\ remaining' = 0 /\ calls' = Append(calls, UnaryCall(u))

\* finish_byte_aligned: its loop drains the cache, if there is anything in it.
Finish ==
  /\ pc = "open"
  /\ IF nbits = 0 THEN pc' = "done" /\ calls' = Append(calls, FinishCall)
     ELSE pc' = "closing" /\ calls' = calls
  /\ UNCHANGED <<out, cache, nbits, u, remaining>>

DrainByte ==
  /\ pc = "closing"
  /\ out' = Extend(out, cache, ByteBits)
  /\ cache' = ShiftRight(cache, ByteBits)
  /\ IF nbits <= ByteBits
     THEN nbits' = 0 /\ pc' = "done" /\ calls' = Append(calls, FinishCall)
     ELSE nbits' = nbits - ByteBits /\ UNCHANGED <<pc, calls>>
  /\ UNCHANGED <<u, remaining>>

WriterNext ==
  \/ \E v \in Values, k \in 0 .. Half : PutBits(v, k)
  \/ \E n \in Lengths : PutUnary(n)
  \/ UnaryTurn \/ UnaryEnd \/ Finish \/ DrainByte

WriterSpec == WriterInit /\ [][WriterNext]_writerVars

-----------------------------------------------------------------------------
(***************************************************************************)
(* WriterTypeOK: no one-bit above the bits in use, whole bytes in `bytes', *)
(* and room for a half word whenever a call begins (encoder.rs:296-301).   *)
(***************************************************************************)
WriterTypeOK ==
  /\ out.bits \in Nat /\ out.bits % ByteBits = 0
  /\ out.ones \subseteq 0 .. out.bits - 1
  /\ nbits \in 0 .. Half - 1
  /\ cache \subseteq 0 .. nbits - 1
  /\ remaining \in Nat
  /\ pc \in {"open", "unary", "closing", "done"}
  /\ pc = "done" => nbits = 0

\* The bits in `bytes' and in the cache; without those of an unfinished call.
Written ==
  LET all  == [bits |-> out.bits + nbits, ones |-> out.ones \cup ShiftLeft(cache, out.bits)]
      done == all.bits - (IF pc = "unary" THEN u - remaining ELSE 0)
  IN  [bits |-> done, ones |-> LowBits(all.ones, done)]

(***************************************************************************)
(* WritesTheBits: `bytes' and cache together are what the calls asked for, *)
(* bit behind bit, whatever was flushed when, and the final drain pads     *)
(* with less than a byte of zeros.  A call inside put_unary's loop has     *)
(* written nothing yet.                                                    *)
(***************************************************************************)
Sink == INSTANCE BitSink WITH body <- Written, closed <- pc = "done"
WritesTheBits == Sink!Spec
=============================================================================
