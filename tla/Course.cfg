SPECIFICATION FairSpec
CONSTANTS
  Releases <- MCReleases
  UnlockNum = 4
  UnlockDen = 5
  RoundsUp = {}
  BatchLimit = 1
  MaxReleases = 2
  Replies = {"der", "dativ"}
  None = None
INVARIANTS
  GridIsTheDeck
PROPERTIES
  RemovalsNeverLock
  CourseOpens
