SPECIFICATION Spec
CONSTANTS
  v1 = v1
  v2 = v2
  a1 = a1
  Proc = {p1, p2}
  NoProc = NoProc
  Ref = {v1, v2, a1}
  NoRef = NoRef
  Entry <- Entries
  MaxCalls = 2
  MaxFaults = 0
  MaxEdits = 1
PROPERTIES UserWorkKept
