SPECIFICATION MCSpec
CONSTANTS
    t1 = t1
    t2 = t2
    x = x
    Nul = Nul
    NotUtf8 = NotUtf8
    Replacement = Replacement
    Null = Null
    Refused = Refused
    Absent = Absent
    NoRequest = NoRequest
    NoReply = NoReply
    Done = Done
    Failed = Failed
    MaxKey = 2
    MaxValue = 2
    MaxBatch = 2
    MaxItems = 3
    Threads <- MCThreads
    Args <- MCArgs
    Datas <- MCDatas
    BatchArgs <- MCBatchArgs
    BatchDatas <- MCBatchDatas
INVARIANTS TypeOK StringsAreText ErrorReported
PROPERTIES MessageOutlives ImplementsMap
