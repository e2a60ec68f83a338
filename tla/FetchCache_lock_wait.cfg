SPECIFICATION FairSpec
CONSTANTS
  p1 = p1
  p2 = p2
  p3 = p3
  k1 = k1
  Nobody = Nobody
  Procs = {p1, p2}
  Keys = {k1}
  Refs <- SameKey
  BadRefs = {}
  TTL = 1
  MaxStale = 0
  Timeout = 1
  KillWindow = 2
  Faults = {}
  MaxTime = 3
  MaxVer = 1
  Rotating = {k1}
PROPERTIES
  LockNeverFailsFetch
CHECK_DEADLOCK FALSE
