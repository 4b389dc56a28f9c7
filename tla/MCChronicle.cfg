SPECIFICATION Spec
CONSTANTS
  None = None
  Contents <- MCContents
  LegacySaves = {}
  TargetKinds = {"ending"}
  Generated = FALSE
  MaxLives = 2
  MaxTurns = 2
  MaxDeploys = 0
INVARIANTS
  ChronicleInOrder
