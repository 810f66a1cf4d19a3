SPECIFICATION FairSpec
CONSTANTS
  w1 = w1
  w2 = w2
  Unset = Unset
  Reader = {w1, w2}
  Steady = {w1}
  LastVersion = 2
  Manifest <- MCManifest
  Mtime <- MCMtime
INVARIANTS
  NothingSkipped
PROPERTIES
  EventuallyIngested
