SPECIFICATION Spec
CONSTANTS
    t1 = t1
    t2 = t2
    s1 = s1
    s2 = s2
    a1 = a1
    a2 = a2
    a3 = a3
    Dangling = Dangling
    None = None
    Threads <- MCThreads
    Slots <- MCSlots
    Addrs <- MCAddrs
    Shapes = {"string", "bytes", "keys", "pairs", "pairsKv"}
    MaxPairs = 2
    MaxLen = 1
    Careless = FALSE
INVARIANTS HeldUsable NoCorruption NoLeak IInv
