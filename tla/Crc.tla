-------------------------------- MODULE Crc --------------------------------
(***************************************************************************)
(* src/crc32.rs: a reflected CRC over bytes, computed eight bytes at a     *)
(* time from a set of tables, and byte by byte for what is left over.      *)
(* Registers and strings are sets of their one-bits (Bits).                *)
(***************************************************************************)
EXTENDS Bits

CONSTANTS
  CrcByte,      \* 8: bits of a byte
  RegBytes,     \* 4: bytes of the register
  Poly          \* the reflected polynomial

CrcBits == CrcByte * RegBytes
Chunk == 2 * RegBytes                 \* slice-by-8
Ones == 0 .. CrcBits - 1              \* 0xFFFF_FFFF
ByteValues == SUBSET (0 .. CrcByte - 1)

ASSUME CrcAssumption == CrcByte \in Nat \ {0} /\ RegBytes \in Nat \ {0}
\* The top bit of a reflected polynomial is its constant term.
ASSUME PolyAssumption == Poly \subseteq Ones /\ CrcBits - 1 \in Poly

\* Byte i of a string.
ByteAt(s, i) == LowBits(ShiftRight(s.ones, i * CrcByte), CrcByte)
ByteLen(s) == s.bits \div CrcByte

-----------------------------------------------------------------------------
\* One bit through the register: the division the CRC stands for.
BitStep(crc) ==
  IF 0 \in crc THEN Xor(ShiftRight(crc, 1), Poly) ELSE ShiftRight(crc, 1)

\* build_table and build_tables.
Table ==
  LET after[n \in 0 .. CrcByte] ==
        IF n = 0 THEN [b \in ByteValues |-> b]
        ELSE [b \in ByteValues |-> BitStep(after[n - 1][b])]
  IN  after[CrcByte]

Tables ==
  LET level[j \in 0 .. Chunk - 1] ==
        IF j = 0 THEN Table
        ELSE [b \in ByteValues |->
               LET prev == level[j - 1][b] IN
               Xor(ShiftRight(prev, CrcByte), Table[LowBits(prev, CrcByte)])]
  IN  level

UpdateByte(crc, b) == Xor(Table[LowBits(Xor(crc, b), CrcByte)], ShiftRight(crc, CrcByte))

\* Faulty variant: the register goes into the wrong half of the chunk.
UpdateChunkSwapped(crc, s, first) ==
  LET index(i) == Xor(ByteAt(s, first + i),
                      IF i < RegBytes THEN {}
                      ELSE LowBits(ShiftRight(crc, (i - RegBytes) * CrcByte), CrcByte))
      sum[i \in 0 .. Chunk] ==
        IF i = 0 THEN {} ELSE Xor(sum[i - 1], Tables[Chunk - i][index(i - 1)])
  IN  sum[Chunk]

\* The bulk step: the register goes into the first bytes of the chunk.
UpdateChunk(crc, s, first) ==
  LET index(i) == Xor(ByteAt(s, first + i),
                      IF i < RegBytes THEN LowBits(ShiftRight(crc, i * CrcByte), CrcByte) ELSE {})
      sum[i \in 0 .. Chunk] ==
        IF i = 0 THEN {} ELSE Xor(sum[i - 1], Tables[Chunk - i][index(i - 1)])
  IN  sum[Chunk]

\* Faulty variant: the remainder behind the last chunk is dropped.
UpdateChunksOnly(s) ==
  LET bulk == ByteLen(s) \div Chunk
      after[n \in 0 .. bulk] ==
        IF n = 0 THEN Ones ELSE UpdateChunk(after[n - 1], s, (n - 1) * Chunk)
  IN  after[bulk]

\* Crc32::update over a whole slice, from Crc32::new.
Update(s) ==
  LET bulk == ByteLen(s) \div Chunk
      last == bulk + (ByteLen(s) % Chunk)
      after[n \in 0 .. last] ==
        IF n = 0 THEN Ones
        ELSE IF n <= bulk THEN UpdateChunk(after[n - 1], s, (n - 1) * Chunk)
        ELSE UpdateByte(after[n - 1], ByteAt(s, bulk * Chunk + (n - bulk) - 1))
  IN  after[last]

crc32(s) == Xor(Update(s), Ones)

-----------------------------------------------------------------------------
(***************************************************************************)
(* The definition the tables are there to compute: bit after bit.          *)
(***************************************************************************)
BitSerial(s) ==
  LET after[n \in 0 .. s.bits] ==
        IF n = 0 THEN Ones
        ELSE BitStep(IF n - 1 \in s.ones THEN Xor(after[n - 1], {0}) ELSE after[n - 1])
  IN  Xor(after[s.bits], Ones)
=============================================================================
