SPECIFICATION Spec
CONSTANTS
    None = None
    i1 = i1
    i2 = i2
    i3 = i3
    i4 = i4
    u1 = u1
    u2 = u2
    t1 = t1
    Items <- MCItems
    Users <- MCUsers
    TextChannels <- MCTextChannels
    VoiceChannels = {v1, v2}
    RequestedBy <- MCRequestedBy
    ResponseChannel <- MCResponseChannel
    MaxTracks = 3
    HistoryLength = 2
    MaxBatch = 2
    MaxVolume = 1
    StartingVolume = 1
SYMMETRY Interchangeable
INVARIANTS
    TypeOK
    QueueIsSound
    NothingOutlivesItsTrack
    SilentChannelIsCountedDown
    PlayingIsNotCountedDown
    HistoryIsSound
PROPERTIES
    NoTrackVanishes
    VotesDieWithThePerformance
    FirstInLineIsNext
    RepeatAllNeverRunsDry
    KeepsThePromise
