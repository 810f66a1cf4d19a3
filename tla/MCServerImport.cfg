SPECIFICATION ServerSpec
CONSTANTS
  Bundle = {1, 2, 3, 4, 5}
  Item <- MCItem
  Name <- MCName
  Wording <- MCText
  Id = {"abc", "bca", "cab", "ac", "ca"}
  ItemsIn <- MCItemsIn
  SourceOf <- MCSourceOf
  Names <- MCNames
  CleanName <- MCCleanName
  Raw <- MCRaw
  Clean <- MCClean
  Embedded <- MCVectors
  Canon <- MCCanon
  Back <- MCBack
  BatchSize = 2
  Book = {"A"}
  BookOf <- MCBookOf
  Catalogued <- MCCatalogued
  Mapped <- MCMapped
  Basename = {"n"}
  BasenameOf <- MCBasenameOf
  LoadBatch = 1
  Backend = {"PGVectorStorage", "NanoVectorDBStorage", "other"}
  Null = Null
INVARIANTS OwnVectors CompletedWhole Repairable ProvenanceStands
