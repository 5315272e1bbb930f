SPECIFICATION FairSpec
CONSTANTS
  Proc = {p1, p2}
  NoProc = NoProc
  Receipt = {r1, r2}
  NoReceipt = NoReceipt
  MaxWrites = 3
  MaxFaults = 2
INVARIANTS TypeOK LeftoversSwept ErrorsAreFaults
PROPERTIES ImplementsRegister ReturnedIsDurable WritesEnd
