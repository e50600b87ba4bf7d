\* Demuxer and decoder adapter under a host that calls in any order and
\* under a player, both seeking twice, anywhere; and the encoder adapter.
SPECIFICATION RegistrySpec
CONSTANTS
  Files <- MCFiles
  Digests <- MCDigests
  ZeroDigest = "zero"
  SeekTargets <- MCTargets
  MaxSeeks = 2
  Totals = {0, 2, 5}
  Kinds <- AnyKinds
  Channels = 2
  FrameSizes = {0, 1, 2, 3}
  MaxAccepted = 10
INVARIANTS
  TypeOK
  FrameAtItsTime
  EveryPacketAnswered
  SeekCovers
  OnlyDamageRejects
  EncodedOnce
  EofMeansAll
  PacketSpans
PROPERTY
  PlaysToTheEnd
\* A demuxer that refused to open really stops.
CHECK_DEADLOCK FALSE
