SPECIFICATION RoomSpec
CONSTANTS
    None = None
    i1 = i1
    i2 = i2
    u1 = u1
    u2 = u2
    t1 = t1
    Items = {i1, i2}
    Users = {u1, u2}
    TextChannels <- MCTextChannels
    VoiceChannels = {v1}
    RequestedBy <- MCRequestedBy
    ResponseChannel <- MCResponseChannel
    MaxTracks = 2
    HistoryLength = 1
    MaxBatch = 1
    MaxVolume = 1
    StartingVolume = 1
    Commands = {"Play"}
    MaxCommands = 2
    MaxMoves = 3
    Overlap = {"Events"}
CHECK_DEADLOCK FALSE
INVARIANTS
    ReturnIsNoticed
