SPECIFICATION Spec
CONSTANTS
    None = None
    playback = playback
    picker = picker
    w1 = w1
    w2 = w2
    Callers <- MCCallers
    Operation <- MCOperation
    Droppable = {playback}
    Permits = 1
    Outputs <- MCOutputs
    Lingering = TRUE
    Queries <- MCQueries
    Shortest = 2
    MaxCached = 1
    Warmers = {w1, w2}
PROPERTY OverdueCallsReturn
