\* Healthy streams of every depth the demuxer accepts.
SPECIFICATION RegistrySpec
CONSTANTS
  Files <- MCFiles
  Digests <- MCDigests
  ZeroDigest = "zero"
  SeekTargets <- MCTargets
  MaxSeeks = 0
  Totals = {5}
  Kinds <- HealthyKinds
  Channels = 1
  FrameSizes = {}
  MaxAccepted = 0
INVARIANTS
  HealthyPacketDecodes
\* A demuxer that refused to open really stops.
CHECK_DEADLOCK FALSE
