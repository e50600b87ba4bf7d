\* An input of more samples than the header's count can tell.
SPECIFICATION Spec
CONSTANTS
  Files = {}
  Digests <- MCDigests
  ZeroDigest = "zero"
  Requests <- MCRequests
  U32 = 9
  Slack <- MCSlack
  Tags <- MCTags
  MaxBlocks = 3
  StrayEntries <- MCStray
INVARIANTS
  EncodesEverything
