SPECIFICATION Spec
CHECK_DEADLOCK FALSE
CONSTANTS
    c1 = c1
    v1 = v1
    Cursors <- MCCursors
    Visitors = {}
    Keys = {1, 2, 3, 4}
    NulKeys = {}
    MaxPage = 2
INVARIANT ResumesAfterError
