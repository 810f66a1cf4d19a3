SPECIFICATION Spec
CONSTANTS
  Nil = Nil
  Writer = {w1}
  Source = {1, 2, 3, 4, 5}
  Primary = {}
  Digest = {1, 2, 3}
  Doi = {1, 2}
  Field = {"abstract"}
  Incoming <- MCIncoming
INVARIANTS
  VersionsRelated
