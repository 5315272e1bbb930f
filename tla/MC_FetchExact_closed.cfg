SPECIFICATION Spec
CONSTANTS
  u1 = u1
  u2 = u2
  Candidates <- TwoMirrors
  Blocks = 3
  NoFile = NoFile
  NoUrl = NoUrl
  MaxTroubles = 2
  MaxFaults = 1
INVARIANTS FailuresAreClosed
