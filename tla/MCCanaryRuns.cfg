SPECIFICATION CanarySpec
CONSTANTS
  c1 = c1
  c2 = c2
  q1 = q1
  q2 = q2
  w1 = w1
  w2 = w2
  f1 = f1
  f2 = f2
  Caller = {c1, c2}
  Request = {q1, q2}
  Enabled = {"metadata_only", "single_pdf", "small_batch"}
  MaxAttempt = 2
  Nil = Nil
  Absent = Absent
  Worker = {w1, w2}
  Fragment = {f1, f2}
  Parses <- MCParses
  MaxRetry = 2
SYMMETRY Symmetry
INVARIANTS
  ClaimsStand
  StagesInOrder
  EvidenceIndexed
  OutcomesStand
