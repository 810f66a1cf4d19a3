SPECIFICATION FairSpec
CONSTANTS
  j1 = j1
  j2 = j2
  r1 = r1
  r2 = r2
  res1 = res1
  Nil = Nil
  Job = {j1, j2}
  Runner = {r1, r2}
  WorkerId = {"worker-a"}
  IdOf <- MCSharedId
  Result = {res1}
  Code = {"worker.dependency_failure"}
  MaxAttempts = 2
  LeaseSeconds = 1
  MaxRetryDelay = 1
INVARIANTS
  LeasesHold
  AnswersHold
PROPERTIES
  ImplementsJobService
  EventuallyResolved
