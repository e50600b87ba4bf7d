------------------------------- MODULE MCBits -------------------------------
(***************************************************************************)
(* The two modules about single bits.  They share no state: a behaviour is *)
(* of one of them, and the other rests in an initial state.  BitReader     *)
(* reads every body of up to MaxBytes bytes of 2 bits; FrameBytes, with    *)
(* the same bytes, has a u32 of 2 of them, a cache of 4, a CRC register of *)
(* 2 and a bulk step of 4.                                                 *)
(***************************************************************************)
EXTENDS BitReader, FrameBytes

CONSTANT MaxBytes

VARIABLE side   \* the module this behaviour is of

bitsVars == <<readerVars, vars, side>>

MCBodies ==
  UNION {[bits : {n * ByteBits}, ones : SUBSET (0 .. n * ByteBits - 1)] :
           n \in 0 .. MaxBytes}
MCWidths == 0 .. Full

\* All ones and a pattern, each with bits above the k it is put with.
MCValues == {0 .. 3, {1, 3}}
MCLengths == {0, 2, 3, 4, 9}

\* x^4 + x + 1
MCPoly == {2, 3}

-----------------------------------------------------------------------------
SomeBody == CHOOSE b \in Bodies : TRUE

BitsInit ==
  /\ ReaderInit /\ Init
  /\ side \in {"reader", "frame"}
  /\ side = "frame" => body = SomeBody

ReaderTurn == side = "reader" /\ ReaderUnaryTurn /\ UNCHANGED <<vars, side>>

BitsNext ==
  \/ side = "reader" /\ ReaderNext /\ UNCHANGED <<vars, side>>
  \/ side = "frame" /\ Next /\ UNCHANGED <<readerVars, side>>

\* The loop inside read_unary runs; nothing obliges the caller to read.
BitsSpec == BitsInit /\ [][BitsNext]_bitsVars /\ WF_bitsVars(ReaderTurn)
=============================================================================
