SPECIFICATION Spec
CONSTANTS
  a = a  b = b  v1 = v1  v2 = v2  k1 = k1  k2 = k2
  NoVersion = NoVersion  NoKey = NoKey  NoName = NoName  NoProc = NoProc
  TokenOf <- OwnTokens  TapNames = {}
  Names = {a, b}  Versions = {v1}  Keys = {k1, k2}
  Tokens = {a, b}  Procs = {p1}  Items <- SharedRebuiltItems
  Commands <- AllCommands  Overlap = FALSE  Faults <- AllFaults
  MaxCommands = 3
INVARIANTS TypeOK RefsCoverInstalls
PROPERTY RemoveOnlyUnreferenced
CHECK_DEADLOCK FALSE
