CONSTANTS
  Process = {p1, p2, p3}
  MaxAttempts = 2
  WaitForLive = TRUE
  MaxCrashes = 1
  NoFile = NoFile
SPECIFICATION Spec
SYMMETRY Symmetry
INVARIANT MutualExclusion
