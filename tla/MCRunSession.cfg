\* Two tabs play one life of two summers.
CONSTANTS
  Tabs = {t1, t2}
  Attempts = {a1, a2}
  Cues = {}
  TurnLimit = 2
  MaxIdempotency = 2
  MaxCommentary = 3
  RateMax = 1
  None = None
\* The run may be lost or deleted and every tab gone: the system stops.
CHECK_DEADLOCK FALSE
SPECIFICATION Spec
SYMMETRY Symmetric
INVARIANTS
  PlayedAsSeen
  TabsShowThePast
  AnswersAreOwn
  DeletedStaysDeleted
PROPERTY ImplementsOnlineLife
