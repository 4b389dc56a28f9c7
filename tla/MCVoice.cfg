\* Five summers over the pairs that matter, with and without inventions, two reloads.
CONSTANTS
  stone = stone
  stick = stick
  axe = axe
  fire = fire
  war = war
  bronze = bronze
  ash = ash
  None = None
  MaxDepth = 2
  MaxNameWords = 3
  Presentations = {"plain", "dry-pride"}
  Canon <- MCCanon
  Recipes <- MCRecipes
  Acts <- MCActs
  Required = {"cold"}
  Predicates <- MCPredicates
  Challenges <- MCChallenges
  Rules = {}
  Branches <- MCBranches
  Opening = {stone, stick}
  Sidequests = {}
  Threats = {"wolves"}
  TurnLimit = 5
  EndingsUnlockAt = 9
  OldAge = "age"
  RunCap = 2
  Kinds = {"attempt"}
  Problems <- MCProblems
  Script <- MCScript
  OnceLines = {"mem-armed"}
  Needs <- MCNeeds
  Suggests <- MCSuggests
  Baked <- MCBaked
  Endings <- MCEndings
  LivePairs = {{stick}}
  Paces = {"steady"}
  HintStart = 3
  HintStep = 1
  PullCooldown = 3
  DefianceCooldown = 2
  SuggestionTtl = 3
  SuggestionMemory = 2
  Tries = {{stick}, {stone, stick}, {axe}, {axe, stick}, {axe, stone}}
  Builds = {TRUE, FALSE}
  Reloads = 2
\* A life ends.
CHECK_DEADLOCK FALSE
SPECIFICATION VoiceSpec
INVARIANTS
  DefianceFromBelow
  HintsClimb
