SPECIFICATION FairSpec
CONSTANTS
  Processes = {p1, p2}
  Items = {"Haus"}
  Local = "local"
  Account = "anna"
  Files <- MCOneFile
  MaxFaults = 1
  MaxClaims = 0
  None = None
PROPERTY
  ComesBackAlways
