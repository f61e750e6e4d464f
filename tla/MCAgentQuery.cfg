SPECIFICATION QuerySpec
CONSTANTS
  Lower <- MCLower
  Within <- MCWithin
  Weight <- MCWeight
  Fan <- MCFan
  Collect <- MCCollect
  RerankTop = 2
  UnitCap = 2
  Chunks = 2
  Scores = {1, 900}
  SummaryFan <- MCCollect
  SymbolFan <- MCFan
  ScopeCap = 2
  SeedCap = 2
  BodyCap = 1
  GraphFan = 3
  EmbeddingLeast = 2
  LookupFan <- MCFan
  LookupLeast = 4
  PublicCap = 2
  Worlds <- MCWorlds
  Requests <- MCRequests
  NeighborsCap = 2
  Pool = 4
INVARIANTS
  UniqueNameResolves
  ExactSymbolSelected
  ReasonsAreTrue
  SourcesByBestUnit
PROPERTIES
  RerankKeepsCandidates
