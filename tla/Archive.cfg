\* Encoding, tagging, damage, scanning and carrying tags over to a new file.
SPECIFICATION Spec
CONSTANTS
  Files = {}
  Digests <- MCDigests
  ZeroDigest = "zero"
  Requests <- MCRequests
  U32 = 9
  Slack <- MCSlack
  Tags <- MCTags
  MaxBlocks = 3
  StrayEntries <- MCStray
INVARIANTS
  TypeOK
  WritesWellFormed
  EncodesTheInput
  
  RangesSound
  StaleScanRefused
  TagsSurvive
