SPECIFICATION NetworkSpec
CONSTANTS
    g1 = g1 g2 = g2 s1 = s1 d1 = d1 d2 = d2 r1 = r1 r2 = r2 r3 = r3
    Fetches = {g1, g2} Scopes = {s1} ScopeOf <- MScopeOf ChallengeOf <- MChallengeOf
    ChunkFetches = {g2} NoScope = NoScope MaxChunkRetries = 2 MaxTokens = 2
    NetFaults = {"status", "send", "token", "revoke"}
    Clients = {d1, d2} FormulaNames = {r1, r2, r3} CanonicalOf <- MCanonicalOf
    Asks <- MAsks Index = Index RubyFile = RubyFile Start <- MStart Published = {r1}
    MaxVersion = 2 ApiFaults = {"http", "proxy", "put"}
    FileSizes = {1, 2, 3, 5, 6, 9, 11, 12} MinChunk = 2 MaxChunk = 3 TargetChunks = 3
    ChunkFaults = {"fetch", "bytes", "write"}
    TapBranches = 2 TapPaths = 3 AheadLimit = 2 LookupFaults = {"status", "send", "body"}
    Words = {"git", "gti", "pgit", "wget"} WordOrder <- MWordOrder LengthOf <- MLengthOf
    DistanceOf <- MDistanceOf Queries = {"gti"} SuggestLimits = {1, 2} Unnamed = Unnamed
INVARIANTS NetworkTypeOK OnlyFaultsFail ChunksAreExact LookUpsAreRight
PROPERTIES CachedAnswersHold CallsEnd
CHECK_DEADLOCK FALSE
