SPECIFICATION FairReplaySpec
CONSTANTS
    None = None
    i1 = i1
    i2 = i2
    i3 = i3
    u1 = u1
    u2 = u2
    t1 = t1
    Items <- MCItems
    Users <- MCUsers
    TextChannels <- MCTextChannels
    VoiceChannels = {v1, v2}
    RequestedBy <- MCRequestedBy
    ResponseChannel <- MCResponseChannel
    MaxTracks = 2
    HistoryLength = 1
    MaxBatch = 2
    MaxVolume = 2
    StartingVolume = 1
INVARIANT RoomHearsTheSession
PROPERTIES
    NoNeedlessRestart
    SilenceEnds
