CONSTANTS
  W = 8
  Decay = 2
  InitK = 2
  MaxK = 7
  Shift = 2
  DxMags <- MCDxMags
  Streams <- MCStreams
  Primings <- MCPrimings
  Depth = 4
  ByteBits = 8
  LongRows = 6
SPECIFICATION TraceSpec
INVARIANT TypeOK
INVARIANT Lossless
INVARIANT LockStep
INVARIANT InRangeHeadroom
INVARIANT TapeReplays
