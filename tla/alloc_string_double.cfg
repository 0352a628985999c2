SPECIFICATION Spec
CONSTANTS
    t1 = t1
    t2 = t2
    s1 = s1
    s2 = s2
    a1 = a1
    a2 = a2
    a3 = a3
    Dangling = Dangling
    None = None
    Threads <- MCThreads
    Slots <- MCOneSlot
    Addrs <- MCFewAddrs
    Shapes = {"string"}
    MaxPairs = 1
    MaxLen = 1
    Careless = TRUE
INVARIANT NoCorruption
