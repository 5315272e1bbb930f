SPECIFICATION FairSpec
CONSTANTS
  Proc = {p1, p2, p3}
  Inode = {i1, i2, i3}
  NoProc = NoProc
  NoInode = NoInode
  MaxDepth = 1
  MaxCalls = 4
  MaxFaults = 2
INVARIANTS TypeOK MutualExclusion HolderOwnsPath
PROPERTIES ImplementsMutex WaiterGetsThrough
