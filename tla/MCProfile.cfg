\* The offline and the online build.
CONSTANTS
  Builds = {FALSE, TRUE}
  MaxGames <- MCMaxGames
  MaxLives <- MCMaxLives
  MaxTurns <- MCMaxTurns
  MaxQueue = 3
  MaxUnderway = 2
\* At the bounds every life may have been begun and left.
CHECK_DEADLOCK FALSE
SPECIFICATION Spec
INVARIANTS
  SummariesAreBacked
PROPERTIES
  StoredLifeSurvives
  ShelfIsImmutable
