\* A short life without a model, in which an invention that already has children is made again under a written name.
CONSTANTS
  stone = stone
  stick = stick
  grass = grass
  axe = axe
  war = war
  bronze = bronze
  ore = ore
  None = None
  MaxDepth = 2
  MaxNameWords = 3
  Presentations = {"plain", "dry-pride"}
  Canon <- MCCanon
  Recipes <- MCRecipes
  Acts <- MCActs
  Required = {"cold"}
  Predicates <- MCPredicates
  Challenges <- MCChallenges
  Rules <- MCRules
  Branches <- MCBranches
  Opening = {stone, stick, grass}
  Sidequests = {}
  Threats = {"wolves", "drought"}
  TurnLimit = 4
  EndingsUnlockAt = 3
  OldAge = "age"
  RunCap = 2
  Kinds = {"attempt", "copy"}
SPECIFICATION Spec
PROPERTIES
  ReloadCannotReset
