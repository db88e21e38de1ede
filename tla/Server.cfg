SPECIFICATION ServerSpec
CONSTANTS
    k1 = k1
    k2 = k2
    c1 = c1
    c2 = c2
    c3 = c3
    Keys = {k1, k2}
    Dbs = {0, 1}
    Second = 2
    Bits = 4
    MaxString = 5
    LDMax = 20
    MaxHashEntries = 2
    MaxHashValue = 2
    MaxIntset = 2
    MaxZsetEntries = 2
    MaxZsetValue = 2
    WordBytes = 2
    Clients = {c1, c2, c3}
    MaxTime = 2
    MaxCommands = 4
    MaxLag = 1
    Parts = {"strings", "hashes", "sets", "zsets", "lists", "sort", "bits", "blocking", "keys", "watch"}
INVARIANTS
    
    AofReloads
    ReplicaAgrees
    WatchedUnchanged
    
    ReadsAnswer
PROPERTY ServedInOrder
CHECK_DEADLOCK FALSE
