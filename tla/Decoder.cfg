\* Every entry point on healthy and damaged files of up to 3 frames.
SPECIFICATION TargetSpec
CONSTANTS
  Files <- MCFiles
  Digests <- MCDigests
  ZeroDigest = "zero"
  NoPassword = NoPassword
  Seeds <- MCSeeds
  Totals = {0, 1, 4, 5}
  Rates = {2, 3}
  Channels = {1, 2}
  Prefix = 10
  TicksPerSecond = 10
  k1 = "k1"
  k2 = "k2"
INVARIANTS
  TypeOK
  ExactSlice
  NeverWrongAudio
  StopsOnlyAtDamage
  ViewsAgree
  AssertionsHold
PROPERTIES
  ErrorOnce
  RefusalStands
  TimeKeepsItsPlace
  LoopsFinish
\* A fuzz target returns when its script is through.
CHECK_DEADLOCK FALSE
