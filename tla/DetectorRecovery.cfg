CONSTANTS
  m1 = m1
  f1 = f1
  u1 = u1
  Checkers = {m1, f1}
  Monitors = {m1}
  Sources = {u1}
  UrlOf <- MCUrlOf
  Templates <- MCTemplates
  Texts = 2
  Noise = {n1, n2}
  MaxRetries = 1
  Faults = {"fetch", "publish", "set", "crash"}
  MaxFaults = 2
SPECIFICATION FairSpec
INVARIANTS OneLimiterPerHost StoredWasPublished OneEventPerChange
PROPERTIES CatchesUp StopEnds
CHECK_DEADLOCK FALSE
