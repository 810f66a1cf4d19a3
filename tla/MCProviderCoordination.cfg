SPECIFICATION Spec
CONSTANTS
  c1 = c1
  c2 = c2
  Nil = Nil
  Caller = {c1, c2}
  Bulk = {c1}
  Estimate <- MCEstimate
  Id = {i1, i2, i3, i4}
  i1 = i1
  i2 = i2
  i3 = i3
  i4 = i4
  TotalSlots = 3
  ReservedSlots = 1
  BulkInitial = 2
  BulkHardMax = 2
  Requests = 2
  ReservedRequests = 1
  Tokens = 2
  ReservedTokens = 1
  Ttl = 2
  OpenFor = 1
  Minute = 1
  LimitWindow = 1
  CircuitThreshold = 2
  RecoverySuccesses = 1
  MaxLag = 1
SYMMETRY Ids
INVARIANTS
  SlotsBounded
  InteractiveServed
PROPERTY
  CircuitTruthful
