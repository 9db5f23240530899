CONSTANTS
  Input = {i1, i2}
  Op = {o1}
  SafeOp = {}
  MaxStep = 2
  MaxAttachments = 2
  None = None
SPECIFICATION Spec
SYMMETRY Interchangeable
INVARIANTS
  EffectsAccounted
  BoundaryAccepted
  OneOpenTurn
  WithdrawnNotRun
PROPERTIES
  UnknownBlocks
  EndedTurnNotRun
CHECK_DEADLOCK FALSE
