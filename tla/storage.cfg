SPECIFICATION StorageSpec
CONSTANTS
    Names = {a, b, c} Versions = {v1, v2} Keys = {k1, k2}
    NoVersion = NoVersion NoKey = NoKey
    Workers = {w1, w2} StoreKeys = {s1} CacheKeys = {r1}
    NoWorker = NoWorker StoreIdle = StoreIdle
    StoreFaults = {"lock", "fill", "remove", "crash"}
INVARIANTS RefsExact UsedKeysHaveRows StoreLockTypeOK LockExcludes
PROPERTIES StoreIsAtomic StoreCallsEnd
