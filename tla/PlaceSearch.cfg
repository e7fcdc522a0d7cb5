SPECIFICATION Spec
CONSTANTS
  home = home
  work = work
  a = a
  ab = ab
  q1 = q1
  q2 = q2
  None = None
  Places <- MCPlaces
  Threshold = 2
  Texts <- MCTexts
  Predictions <- MCPredictions
  Calls <- MCCalls
INVARIANTS
  TypeOK
  RowMeansWhatItShows
  TrapNeedsStaleRows
  HistoryBounded
  ChoiceIsRemembered
PROPERTIES
  OnlyOldestGoes
