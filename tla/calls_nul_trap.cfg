SPECIFICATION Spec
CONSTANTS
    t1 = t1
    t2 = t2
    x = x
    Nul = Nul
    NotUtf8 = NotUtf8
    Replacement = Replacement
    Null = Null
    Refused = Refused
    Absent = Absent
    NoRequest = NoRequest
    NoReply = NoReply
    Done = Done
    Failed = Failed
    MaxKey = 2
    MaxValue = 2
    MaxBatch = 1
    MaxItems = 1
    Threads <- MCOneThread
    Args <- MCFewArgs
    Datas <- MCFewDatas
    BatchArgs <- MCOneArg
    BatchDatas <- MCFewDatas
INVARIANT NoNulTrap
