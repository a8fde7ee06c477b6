SPECIFICATION SessionSpec
CONSTANTS
    None = None
    i1 = i1
    i2 = i2
    u1 = u1
    t1 = t1
    Items <- MCItems
    Users <- MCUsers
    TextChannels <- MCTextChannels
    VoiceChannels = {v1, v2}
    RequestedBy <- MCRequestedBy
    ResponseChannel <- MCResponseChannel
    MaxTracks = 2
    HistoryLength = 1
    MaxBatch = 0
    MaxVolume = 1
    StartingVolume = 1
    MailboxCapacity = 2
    Requests = {"Enqueue", "Skip"}
    MaxRequests = 3
    MaxCompletions = 1
    StopReports = FALSE
    FaultyVoice = {}
SYMMETRY Interchangeable
CHECK_DEADLOCK FALSE
INVARIANT ChannelIsHeld
