CONSTANTS
  Input = {i1}
  Op = {o1}
  SafeOp = {}
  MaxStep = 1
  MaxAttachments = 2
  None = None
SPECIFICATION Spec
INVARIANTS
  Reattachable
CHECK_DEADLOCK FALSE
