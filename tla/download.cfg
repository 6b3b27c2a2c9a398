SPECIFICATION LiveSpec
CONSTANTS
  r1 = r1  r2 = r2  s1 = s1
  Requests = {r1, r2}  Shas = {s1}  ShaOf <- OneSha
  RacingConnections = 2  Mirrors = 1
  NumChunks = 3  MaxConcurrentChunks = 2  Permits = 2  MaxRetries = 2
  Faults = {"http", "body", "disk", "unpack"}  NoRequest = NoRequest
INVARIANTS TypeOK MapMatchesLeaders PermitsHeldByReaders OneDownloadPerDigest GoodAnswers
PROPERTY EveryItemEnds
CHECK_DEADLOCK FALSE
