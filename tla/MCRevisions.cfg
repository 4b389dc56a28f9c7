SPECIFICATION Spec
CONSTANTS
  None = None
  Contents <- MCContents
  LegacySaves <- MCLegacySaves
  Generated = TRUE
  TargetKinds = {"ending"}
  MaxLives = 2
  MaxTurns = 2
  MaxDeploys = 2
INVARIANTS
  RefsCurrent
  ArchivesAgree
  LegacyNotShadowed
  ChronicleInOrder
PROPERTIES
  LifeArrives
  ReadOnlyIsUntouched
