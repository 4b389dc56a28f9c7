\* Three days, a tick each; three requests, two at a time.
CONSTANTS
  None = None
  Ips = {i1, i2}
  Pairs = {k1}
  Requests = {r1, r2}
  DayLength = 1
  Horizon = 2
  Window <- MCWindow
  RateMax <- MCRateMax
  NarratorWindow = 1
  DailyMax <- MCDailyMax
  DailyMaxPerIp <- MCDailyMaxPerIp
  CacheMaxAge = 1
  StatsMaxAge = 1
  CleanupInterval = 1
  QuotaWindow = 2
  QuotaMax = 2
  QuotaMaxPerIp = 1
  Served = {"improvise", "generated", "commentary"}
  Sweeps = {1, 5, 11}
  Arrivals = 3
SYMMETRY Alike
SPECIFICATION Spec
INVARIANTS
  ServiceRatesHonoured
  CreationsWithinQuota
PROPERTIES
  ImplementsDailyBudgets
CHECK_DEADLOCK FALSE
