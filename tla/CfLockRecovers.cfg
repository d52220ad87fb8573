SPECIFICATION LockFairSpec
CONSTANTS
  Procs = {p1, p2, p3}
  MaxCrashes = 1
  Nobody = Nobody
PROPERTIES StaleLockIsTakenOver LockIsKept
