\* The online build.
CONSTANTS
  Builds = {TRUE}
  MaxGames <- MCMaxGames
  MaxLives <- MCMaxLives
  MaxTurns <- MCMaxTurns
  MaxQueue = 3
  MaxUnderway = 2
\* At the bounds every life may have been begun and left.
CHECK_DEADLOCK FALSE
SPECIFICATION Spec
INVARIANTS
  CompletedArchivedOnce
