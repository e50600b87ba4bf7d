\* A range of times that ends at the total duration of a stream of one sample.
SPECIFICATION TargetSpec
CONSTANTS
  Files <- MCFiles
  Digests <- MCDigests
  ZeroDigest = "zero"
  NoPassword = NoPassword
  Seeds <- MCSeeds
  Totals = {1}
  Rates = {3}
  Channels = {1, 2}
  Prefix = 10
  TicksPerSecond = 10
  k1 = "k1"
  k2 = "k2"
PROPERTIES
  TotalDurationIsTheEnd
\* A fuzz target returns when its script is through.
CHECK_DEADLOCK FALSE
