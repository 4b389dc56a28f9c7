\* One tick is one UTC day: three days of rollovers, sweeps and grace days, two
\* concurrent requests, also from one address.
CONSTANTS
  DayLength = 1
  Horizon = 2
  Ips = {i1, i2}
  Keys = {k1}
  Requests = {r1, r2}
  RateWindow = 2
  RateMax = 2
  DailyMax = 2
  DailyMaxPerIp = 1
  CacheMaxAge = 1
  StatsMaxAge = 1
  CleanupInterval = 1
  None = None
SPECIFICATION Spec
SYMMETRY Symmetric
INVARIANTS
  WorldRecordIsExact
  CleanupScheduled
  RateHonoured
  PaidOnce
  NoOrphanedWaiter
PROPERTIES
  ImplementsDailyBudget
