CONSTANTS
    Views = {v1}
    Watched = {v1}
    QueueSize = 2
    MaxEvents = 2
    MaxHeap = 3
    MaxParts = 2
    ShellViews = {s1, s2}
    NoCursor = NoCursor
    MaxOutput = 2
    MaxWritten = 0
    MaxShells = 2
SPECIFICATION Spec
INVARIANTS
    ViewIsTheTranscript
CHECK_DEADLOCK FALSE
