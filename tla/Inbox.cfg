CONSTANTS
  first = first
  again = again
  advice = advice
  Message = {first, again, advice}
  Logical <- MCLogical
  Advice = {advice}
  Topic <- MCTopic
  ExpiresAt <- MCExpiresAt
  Lane = {a, b}
  ClaimId = {c1, c2}
  Disposition = {yes, no}
  LeaseTime = 1
  ClaimLimit = 2
  MaxTime = 1
  MaxClaims = 3
  MaxStops = 1
  NoClaim = NoClaim
  NoAck = NoAck
CHECK_DEADLOCK FALSE
SPECIFICATION Spec
SYMMETRY Symmetry
INVARIANTS
  TypeOK
  Rehydratable
  AttemptCountsClaims
  LeaseRespected
PROPERTIES
  ImplementsDeliveryQueue
