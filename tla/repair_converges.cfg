SPECIFICATION Spec
CONSTANTS
  a = a  b = b  v1 = v1  v2 = v2  k1 = k1  k2 = k2
  NoVersion = NoVersion  NoKey = NoKey  NoName = NoName  NoProc = NoProc
  TokenOf <- OwnTokens  TapNames = {}
  Names = {a}  Versions = {v1, v2}  Keys = {k1, k2}
  Tokens = {a}  Procs = {p1}  Items <- TurnoverItems
  Commands <- AllCommands  Overlap = FALSE  Faults <- RepairFaults
  MaxCommands = 6
INVARIANT RepairConverges
CHECK_DEADLOCK FALSE
