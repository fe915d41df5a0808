SPECIFICATION Spec
CONSTANTS
    Command <- MCCommand
    ChunkMax = 4
    Voice = {1, 2}
    Groups = 2
    Frac = 4
    Pitch <- MCPitch
    LoopStart = 1
    LoopEnd = 3
    Envelope <- MCEnvelope
    MaxMcus = 2
    WatchdogLimit = 3
    OddLists <- MCOddLists
    MaxTasks = 3
INVARIANTS
    RunsTheList
    FrameIsRight
    PicturesRight
PROPERTIES
    TasksEnd
CHECK_DEADLOCK FALSE
