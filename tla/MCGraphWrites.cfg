SPECIFICATION GraphSpec
CONSTANTS
  b1 = b1
  b2 = b2
  r1 = r1
  r2 = r2
  Nil = Nil
  Job = {b1, b2}
  Runner = {r1, r2}
  WorkerId = {"worker-a"}
  IdOf <- MCIdOf
  Result = {"written", "already_present"}
  Code <- MCCode
  MaxAttempts = 2
  LeaseSeconds = 1
  MaxRetryDelay = 0
  Clash <- MCClash
  ApprovalTtl = 2
SYMMETRY Symmetry
VIEW View
INVARIANTS
  WritesTruthful
  ReviewGate
  AuditExact
