SPECIFICATION MCSpec
CHECK_DEADLOCK FALSE
CONSTANTS
    t1 = t1
    t2 = t2
    p1 = p1
    p2 = p2
    seg = seg
    Nul = Nul
    NotUtf8 = NotUtf8
    None = None
    Threads <- MCThreads
    Pids <- MCPids
    Paths <- MCPaths
    Structs <- MCStructs
    GoOptions <- MCGoOptions
    Preset <- MCPreset
    Defaults <- MCDefaults
    MaxEngines = 3
    MaxRuns = 2
SYMMETRY Symmetry
INVARIANTS OwnDirectory AsDocumented MaxCoversTarget
