SPECIFICATION RoundsFairSpec
CONSTANTS
  Deck <- MCDeck
  Limit = 2
  MaxNewPerBatch = 1
  Day = 2
  MaxStability = 3
  MaximumInterval = 2
  MaxDropped = 2
  Nothing = Nothing
INVARIANTS
  NothingPassedOver
  EmptyMeansDone
PROPERTIES
  NothingStarves
