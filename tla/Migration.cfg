SPECIFICATION FairSpec
CONSTANTS
  Processes = {p1, p2}
  Items = {"Haus", "Baum"}
  Local = "local"
  Account = "anna"
  Files <- MCFiles
  MaxFaults = 2
  MaxClaims = 1
  None = None
INVARIANTS
  NoCardLost
  ClaimIsWhole
PROPERTIES
  ComesBack
