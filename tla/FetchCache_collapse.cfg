SPECIFICATION Spec
CONSTANTS
  p1 = p1
  p2 = p2
  p3 = p3
  k1 = k1
  Nobody = Nobody
  Procs = {p1, p2, p3}
  Keys = {k1}
  Refs <- SameKey
  BadRefs = {}
  TTL = 1
  MaxStale = 2
  Timeout = 1
  KillWindow = 2
  Faults = {"put", "outage", "refuse", "kill"}
  MaxTime = 4
  MaxVer = 2
  Rotating = {k1}
INVARIANTS
  OneResolverPerKey
  NoResolveWhileFresh
PROPERTIES
  CacheNeverRegresses
CHECK_DEADLOCK FALSE
