\* Lives of four summers, two inventions and all the ways of attempting.
CONSTANTS
  stone = stone
  stick = stick
  grass = grass
  axe = axe
  war = war
  bronze = bronze
  ore = ore
  None = None
  MaxDepth = 2
  MaxNameWords = 3
  Presentations = {"plain", "dry-pride"}
  Canon <- MCCanon
  Recipes <- MCRecipes
  Acts <- MCActs
  Required = {"cold"}
  Predicates <- MCPredicates
  Challenges <- MCChallenges
  Rules <- MCRules
  Branches <- MCBranches
  Opening = {stone, stick, grass}
  Sidequests = {}
  Threats = {"wolves", "drought"}
  TurnLimit = 4
  EndingsUnlockAt = 3
  OldAge = "age"
  RunCap = 2
  Kinds = {"combine", "attempt", "copy", "generated", "improvise"}
SPECIFICATION Spec
INVARIANTS
  RegistryClosed
  AgesAreEarned
  OnlyTheEmptyHandedDie
  BranchesExact
PROPERTIES
  EndingsAreEarned
  ImplementsLifespan
