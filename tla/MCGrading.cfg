SPECIFICATION Spec
CONSTANTS
  Catalog <- MCCatalog
  Items <- MCItems
  ItemsOf <- MCItemsOf
  Prerequisite <- MCPrerequisite
  AnswersOf <- MCAnswersOf
  UnlockNum = 4
  UnlockDen = 5
  RoundsUp = {}
  None = None
  Rounds <- MCRounds
  Flushes = {f1, f2, f3}
  Handlers = {h1, h2}
  MaxTime = 1
  MaxFaults = 1
SYMMETRY Symmetry
INVARIANTS
  TypeOK
  RowIsLastReview
  FlushIsPrefix
  LockedDeckUntouched
PROPERTIES
  GateStaysOpen
