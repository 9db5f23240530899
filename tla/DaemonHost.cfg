CONSTANTS
  Run = {r1}
  Wake = {w1, w2}
  RunOf <- OneRun
  MaxConcurrentActivations = 1
  MaxUnsettled = 1
  Other = Other
  None = None
SPECIFICATION FairSpec
INVARIANTS
  WakeKept
  NoRunForgotten
  StopIsBarrier
PROPERTIES
  NoCommitAfterLoss
  WakeActivated
