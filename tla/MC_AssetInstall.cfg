SPECIFICATION FairSpec
CONSTANTS
  Proc = {p1, p2}
  Inode = {i1, i2, i3}
  NoProc = NoProc
  NoInode = NoInode
  MaxCalls = 3
  MaxFaults = 1
  MaxTampers = 1
INVARIANTS TypeOK OnlyMatchingSelected RefusalLeavesNothing
PROPERTIES RevocationHolds CallsEnd
