CONSTANTS
  Input = {i1, i2}
  Op = {o1}
  SafeOp = {o1}
  MaxStep = 1
  MaxAttachments = 1
  None = None
SPECIFICATION FairSpec
PROPERTIES
  ChainMoves
  InputTaken
CHECK_DEADLOCK FALSE
