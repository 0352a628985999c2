SPECIFICATION TxnSpec
CHECK_DEADLOCK FALSE
CONSTANTS
    x1 = x1
    x2 = x2
    a = a
    b = b
    bad = bad
    aNul = aNul
    v1 = v1
    v2 = v2
    Nothing = Nothing
    Del = Del
    Txns <- MCOneTxn
    Keys <- MCNulKeys
    Names <- MCNulNames
    CString <- MCCut
    NulKeys <- MCNulSet
    BadNames = {}
    Vals <- MCVals
    MaxBatch = 2
INVARIANT NulKeysRejected
