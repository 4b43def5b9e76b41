SPECIFICATION LimiterSpec
CONSTANTS
  Peers = {p1, p2}
  Emails = {e1, e2}
  Proxy = proxy
  PerIP = 1
  PerEmail = 2
  Window = 2
  MaxClock = 3
  MaxRestarts = 1
  NoCounter = NoCounter
SYMMETRY Symmetry
INVARIANTS
  SlidingBudget
  FreshCallerServed
