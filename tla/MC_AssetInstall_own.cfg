SPECIFICATION Spec
CONSTANTS
  Proc = {p1, p2}
  Inode = {i1, i2, i3}
  NoProc = NoProc
  NoInode = NoInode
  MaxCalls = 3
  MaxFaults = 0
  MaxTampers = 0
SYMMETRY Symmetry
INVARIANTS SelectionIsOwn
