SPECIFICATION LiveSpec
CONSTANTS
  a = a  b = b  v1 = v1  v2 = v2  k1 = k1  k2 = k2
  NoVersion = NoVersion  NoKey = NoKey  NoName = NoName  NoProc = NoProc
  TokenOf <- OwnTokens  TapNames = {}
  Names = {a}  Versions = {v1}  Keys = {k1}
  Tokens = {a}  Procs = {p1, p2}  Items <- OneItem
  Commands <- AllCommands  Overlap = TRUE  Faults <- AllFaults
  MaxCommands = 3
INVARIANT LockHeld
PROPERTY WaitersFinish
CHECK_DEADLOCK FALSE
