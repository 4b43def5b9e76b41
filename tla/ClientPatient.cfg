SPECIFICATION Spec
CONSTANTS
  Decks = {"nouns", "cases"}
  NounDeck = "nouns"
  DrillOf <- MCDrillOf
  Batches <- MCBatches
  MaxCalls = 2
  MaxAnswers = 3
  MaxRounds = 2
  MaxReloads = 1
  Keyboard = FALSE
  Patient = TRUE
  MayFail = TRUE
  None = None
INVARIANTS
  OneAnswerPerCard
  FiledUnderItsDeck
  NoAnswerLost
  RoundComplete
