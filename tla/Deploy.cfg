SPECIFICATION FairSpec
CONSTANTS
  MaxReleases = 3
  MaxFaults = 2
  None = None
INVARIANTS
  GoodBinaryKept
  RunsWhatIsInstalled
PROPERTIES
  ComesBack
