SPECIFICATION FairSpec
CONSTANTS
  w1 = w1
  w2 = w2
  c1 = c1
  c2 = c2
  Worker = {w1, w2}
  Content = {c1, c2}
  Batch = {b1, b2}
  Transient = {"extraction.provider_unavailable"}
  Permanent = {"extraction.content_drift"}
  Limit <- SameLimit
  MaxAttempts = 3
  Handed <- HandedOver
  Nil = Nil
INVARIANTS
  Charged
  ConflictMeansDivergence
PROPERTIES
  ImplementsFactTask
  EventuallyDecided
