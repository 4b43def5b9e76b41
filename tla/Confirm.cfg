SPECIFICATION Spec
CONSTANTS
  Browsers = {b1, b2}
  Links = {l1, l2}
  LinkTTL = 2
  ConfirmTTL = 1
  MaxPages = 3
  MaxCalls = 2
  MaxTime = 2
  None = None
SYMMETRY Symmetry
INVARIANTS
  OwnPageOnly
  LatestPageWorks
