\* Every body of up to 5 bytes read in every order of calls; and bodies of up
\* to three puts, sealed, hit by every burst, verified and read.
SPECIFICATION BitsSpec
CONSTANTS
  ByteBits = 2
  CacheBytes = 3
  MaxBytes = 5
  Bodies <- MCBodies
  Widths <- MCWidths
  HalfBytes = 2
  Values <- MCValues
  Lengths <- MCLengths
  MaxCalls = 3
  CrcByte = 2
  RegBytes = 2
  Poly <- MCPoly
INVARIANTS
  ReaderTypeOK
  CacheSound
  WriterTypeOK
  CrcIsRemainder
  BurstNoticed
  ReadsBack
PROPERTIES
  ReadsTheBody
  UnaryEnds
  WritesTheBits
\* A frame that was verified is finished with.
CHECK_DEADLOCK FALSE
