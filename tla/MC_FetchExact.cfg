SPECIFICATION FairSpec
CONSTANTS
  u1 = u1
  u2 = u2
  Candidates <- TwoMirrors
  Blocks = 3
  NoFile = NoFile
  NoUrl = NoUrl
  MaxTroubles = 3
  MaxFaults = 1
INVARIANTS TypeOK OnlyPinnedBytes BlameIsUpstreams InterruptionIsResumed
PROPERTIES CallingAgainSucceeds
