SPECIFICATION AdmissionSpec
CONSTANTS
  c1 = c1  e1 = e1  r1 = r1  r2 = r2
  A = A  B = B
  Corpus = {1, 2}
  Row <- MCRow
  Text <- MCText
  Rows <- MCRows
  TextOf <- MCTextOf
  Primary = P
  Candidates <- MCCandidates
  FlushItems = 2
  MaxAttempts = 2
  Torn = Torn
  Expected = P
  Nil = Nil
SYMMETRY MCSymmetry
INVARIANTS IndexTrue ManifestStands PublishedWhole
