SPECIFICATION Spec
CONSTANTS
  p1 = p1
  p2 = p2
  p3 = p3
  k1 = k1
  Nobody = Nobody
  Procs = {p1, p2}
  Keys = {k1}
  Refs <- SameKey
  BadRefs = {}
  TTL = 1
  MaxStale = 2
  Timeout = 1
  KillWindow = 2
  Faults = {"lock", "store", "read", "put", "refuse", "outage", "kill"}
  MaxTime = 5
  MaxVer = 3
  Rotating = {k1}
INVARIANTS
  TypeOK
  ServedWithinWindow
  TempFilesRemoved
CHECK_DEADLOCK FALSE
