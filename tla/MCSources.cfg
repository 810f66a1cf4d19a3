SPECIFICATION SourcesSpec
CONSTANTS
  w1 = w1
  w2 = w2
  Nil = Nil
  Writer = {w1, w2}
  Source = {1, 2, 3}
  Primary = {3}
  Digest = {1, 2}
  Doi = {1, 2}
  Field = {"abstract", "authors"}
  Incoming <- MCIncoming
  None = None
  c1 = c1
  c2 = c2
  Call = {c1, c2}
  File = {1}
  Size <- MCSize
  Timed = {1}
  Document <- MCDocument
  About <- MCAbout
  Blank = ""
  Substantive = 15
  LeastLength = 10
  LeastRating = 600
  MaxFragments = 2
  MaxObject = 2
  MaxTotal = 3
  MaxActive = 2
  MaxArchive = 1
  GrowthAt = 70
  PauseAt = 85
  Other = 0
  Target = 3
  HardCap = 4
  MaxMade = 3
SYMMETRY Alike
INVARIANTS
  CatalogAgrees
  SpoolBounded
  BodyOfTheVersion
  BestEvidence
