SPECIFICATION TxnSpec
CHECK_DEADLOCK FALSE
CONSTANTS
    x1 = x1
    x2 = x2
    a = a
    b = b
    bad = bad
    aNul = aNul
    v1 = v1
    v2 = v2
    Nothing = Nothing
    Del = Del
    Txns <- MCTxns
    Keys <- MCKeys
    Names <- MCNames
    CString <- MCCString
    NulKeys = {}
    BadNames <- MCBadNames
    Vals = {v1}
    MaxBatch = 2
SYMMETRY Symmetry
INVARIANTS CommitEffect DeletesAfterPuts TxnInv
PROPERTIES Finished FailedCommitKeepsOps
