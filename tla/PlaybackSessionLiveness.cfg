SPECIFICATION FairSessionSpec
CONSTANTS
    None = None
    i1 = i1
    i2 = i2
    u1 = u1
    t1 = t1
    Items <- MCItems
    Users <- MCUsers
    TextChannels <- MCTextChannels
    VoiceChannels = {v1}
    RequestedBy <- MCRequestedBy
    ResponseChannel <- MCResponseChannel
    MaxTracks = 2
    HistoryLength = 1
    MaxBatch = 0
    MaxVolume = 1
    StartingVolume = 1
    MailboxCapacity = 6
    Requests = {"Enqueue", "Skip", "Stop", "Park", "Join"}
    MaxRequests = 3
    MaxCompletions = 1
    StopReports = TRUE
    FaultyVoice = {"Prepare", "Join", "Play", "Driver"}
CHECK_DEADLOCK FALSE
INVARIANT PlayingIsHeard
PROPERTIES
    TracksGetStarted
    ShutdownEnds
    CancellationEnds
