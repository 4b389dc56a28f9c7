\* One tab, a commentary for the opening and for every attempt, a rate of two,
\* and fairness of what holds the gate.
CONSTANTS
  Tabs = {t1}
  Attempts = {a1, a2}
  Cues = {a1, a2, None}
  TurnLimit = 2
  MaxIdempotency = 2
  MaxCommentary = 3
  RateMax = 2
  None = None
\* The run may be lost or deleted and every tab gone: the system stops.
CHECK_DEADLOCK FALSE
SPECIFICATION FairSpec
INVARIANTS
  RetriesAreAnswered
  RetentionHolds
PROPERTIES
  LinesAreKept
  GateIsFreed
