SPECIFICATION FairSpec
CONSTANTS
  Child = {c1}
  Capacity = 2
  MaxOutput = 1
  MaxChatter = 0
  Endless = TRUE
  MaxFaults = 0
PROPERTIES TimeoutEnds
