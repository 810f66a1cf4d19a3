SPECIFICATION FairSpec
CONSTANTS
  w1 = w1
  w2 = w2
  b1 = b1
  b2 = b2
  b3 = b3
  b1x = b1x
  k1 = k1
  k2 = k2
  k3 = k3
  e1 = e1
  e2 = e2
  Nil = Nil
  Writer = {w1, w2}
  Batch = {b1, b2, b3, b1x}
  Key = {k1, k2, k3}
  Item = {e1, e2}
  Alias = {"A1", "A2"}
  Core = {"alloy", "steel", "polymer"}
  KeyOf <- MCKeyOf
  Content <- MCContent
  LockRank <- MCLockRank
INVARIANTS
  AnswersFinal
PROPERTIES
  ImplementsMergedGraph
  EveryWriteEnds
