SPECIFICATION Spec
CONSTANTS
  Names <- MCNames
  FoldOf <- MCFold
  Typed = {"Ese", "ese", "Ee s 1"}
  Plain = {"Ee s"}
  Numbered = {"Ee s 1"}
  PlainAttempts = 1
  SuggestAttempts = 2
  Accounts = {u1, u2}
  Handlers = {h1, h2}
  MaxRequests = 3
  MaxFaults = 1
  MaxDraft = 5
  Reserved <- MCReserved
  Blocked <- MCBlocked
  Numbers <- MCNumbers
  Nouns <- MCNouns
  MinLen = 3
  MaxLen = 7
  MaxStem = 2
  MaxNoun = 2
  ShortStem = 1
  ShortNoun = 1
  None = None
INVARIANTS
  ClaimsAreFair
  NameIsLastClaimed
  TextsHold
PROPERTIES
  SkipKeepsName
