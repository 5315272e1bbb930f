SPECIFICATION FairSpec
CONSTANTS
  v1 = v1
  v2 = v2
  a1 = a1
  Proc = {p1, p2}
  NoProc = NoProc
  Ref = {v1, v2, a1}
  NoRef = NoRef
  Entry <- Entries
  MaxCalls = 3
  MaxFaults = 1
  MaxEdits = 1
INVARIANTS TypeOK OneBuildShared
PROPERTIES SelectionComplete NeverHidden UserWorkRefused ReadyIsTrue CallsEnd
