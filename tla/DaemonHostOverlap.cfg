CONSTANTS
  Run = {r1}
  Wake = {w1, w2}
  RunOf <- OneRun
  MaxConcurrentActivations = 2
  MaxUnsettled = 2
  Other = Other
  None = None
SPECIFICATION Spec
INVARIANTS
  OneActivationPerRun
