CONSTANTS
  Message = {m1, m2, m3}
  NextTurn = {m3}
  lane = lane
  MaxMessages = 2
  MaxRefusals = 2
  MaxFailures = 1
  MaxCrashes = 1
  Nobody = Nobody
SPECIFICATION Spec
INVARIANTS
  CommittedOnce
  HandledWasCommitted
  CommittedIsRemembered
PROPERTIES
  EventuallyHandled
