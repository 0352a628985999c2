SPECIFICATION MCFairSpec
CHECK_DEADLOCK FALSE
CONSTANTS
    c1 = c1
    v1 = v1
    Cursors <- MCCursors
    Visitors <- MCVisitors
    Keys = {1, 2, 3}
    NulKeys = {2}
    MaxPage = 2
INVARIANTS NoReplay CompleteScan CompleteVisit EngineOutlivesCursors IInv
PROPERTY ScanEnds
