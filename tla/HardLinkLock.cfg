CONSTANTS
  Process = {p1, p2, p3}
  MaxAttempts = 3
  WaitForLive = FALSE
  MaxCrashes = 2
  NoFile = NoFile
SPECIFICATION Spec
INVARIANTS
  CrashFreeExclusion
PROPERTIES
  DeadLockRemoved
