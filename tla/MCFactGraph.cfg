SPECIFICATION FairFactSpec
CONSTANTS
  None = None
  Caller = {"c"}
  Fragment = {"f", "g", "h"}
  MaxAttempts = 2
  Coordinated = TRUE
  Binding = {"responses_json_schema", "chat_json_schema"}
  Body <- MCBody
  Parsed <- MCParsed
  Fold <- MCFold
  OutputOf <- MCOutputOf
INVARIANTS PaidOnce OnlyWhole Projectable GraphIsMerged ConflictOnlyByCase
PROPERTY EveryCallEnds
