SPECIFICATION FairSpec
CONSTANTS
  p1 = p1
  p2 = p2
  k1 = k1
  k2 = k2
  k3 = k3
  Nobody = Nobody
  Procs = {p1, p2}
  Keys = {k1, k2, k3}
  Refs <- Crossed
  BadRefs = {k3}
  TTL = 0
  MaxStale = 1
  Timeout = 1
  KillWindow = 1
  Faults = {"outage", "kill"}
  MaxTime = 4
  MaxVer = 2
  Rotating = {k1}
INVARIANTS
  LockFollowsReference
  MutualExclusion
  HoldersNeverWait
  NeverBlockedPastDeadline
PROPERTIES
  EveryFetchEnds
  EveryStepCounts
  ImplementsService
CHECK_DEADLOCK FALSE
