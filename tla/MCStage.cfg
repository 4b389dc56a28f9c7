\* One attempt after the opening, so two commentaries, two pulls and a banner.
SPECIFICATION Spec
CHECK_DEADLOCK FALSE
CONSTANTS
  Turns = 1
  Gestures = {pointerdown}
  None = None
INVARIANTS
  QueueIsServed
  GivenUpStaysUnsaid
PROPERTIES
  BeatsInTurn
  EveryBeatEnds
  EndedLifeIsArchived
