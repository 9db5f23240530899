CONSTANTS
  Owner = {o1, o2, o3}
  LeaseId = {l1, l2}
  MaxAttempts = 1
  MaxRenewals = 1
  Ttl = {1, 2}
  MaxTime = 3
  MaxCommits = 2
  NoLease = NoLease
  NoCommit = NoCommit
SPECIFICATION Spec
SYMMETRY Symmetry
INVARIANTS
  TypeOK
  CommitsInGrantOrder
  TokensIdentifyLeases
  ToldExpiryHonoured
PROPERTIES
  NoResurrection
  ImplementsFencedCommits
