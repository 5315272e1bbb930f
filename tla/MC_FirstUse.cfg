SPECIFICATION FairSpec
CONSTANTS
  a = a
  b = b
  v1 = v1
  v2 = v2
  v3 = v3
  f1 = f1
  f2 = f2
  Inode = {i1, i2}
  Odd = Odd
  Block = {a, b}
  Pinned <- MCPinned
  MaxChanges = 2
  Version = {v1, v2, v3}
  Release = v1
  NoVersion = NoVersion
  Lists <- MCLists
  Binds <- MCBinds
  MaxCalls = 2
  MaxFaults = 2
INVARIANTS TypeOK RewriteDetected ActsOnPinnedOnly
PROPERTIES AgreeingInstalls
