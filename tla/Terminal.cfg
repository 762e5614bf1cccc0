CONSTANTS
    Views = {v1, v2}
    Watched = {v1}
    QueueSize = 2
    MaxEvents = 2
    MaxHeap = 4
    MaxParts = 2
    ShellViews = {s1, s2}
    NoCursor = NoCursor
    MaxOutput = 2
    MaxWritten = 5
    MaxShells = 2
SPECIFICATION Spec
INVARIANTS
    ViewKeepsUp
    ToolHasOneRow
    ScreenIsContiguous
    RunningShellIsCurrent
CHECK_DEADLOCK FALSE
