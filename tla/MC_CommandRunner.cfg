SPECIFICATION FairSpec
CONSTANTS
  Child = {c1, c2}
  Capacity = 2
  MaxOutput = 3
  MaxChatter = 3
  Endless = FALSE
  MaxFaults = 1
INVARIANTS TypeOK OutputComplete KillsItsOwn
PROPERTIES ExitEndsRun TimeoutEnds
