SPECIFICATION Spec
CONSTANTS
  Named = {"m", "./m", "w", "d", "d/e", "notices/n", "../x"}
  Plain = {"m", "w", "d"}
  Notices = {"notices/n"}
  Escaping = {"../x"}
  Normal <- MCNormal
  Beneath <- MCBeneath
  Pin = {1, 2}
  NoPath = NoPath
  Host <- MCHost
  Pinned = {"hub", "else", "ours"}
  Ours = {"ours"}
  RawRecord <- MCRawRecord
  MaxMembers = 3
  MaxBytes = 3
  Member <- MCMember
  Id = {p, q}
  Source = {s1, s2}
  Build = {none, make}
  Schema = {1, 3, 4}
  NoId = NoId
  None = None
  Unbuilt = none
INVARIANTS OneOwner AcceptedAssetIsUsable ExtractsWithinBudget
CHECK_DEADLOCK FALSE
