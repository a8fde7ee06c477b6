SPECIFICATION Spec
CONSTANTS
    None = None
    u1 = u1
    u2 = u2
    c1 = c1
    c2 = c2
    Calls <- MCCalls
    Requests <- MCRequests
    VoiceChannels = {v1}
    Tracks = {t1}
    Authorized <- MCAuthorized
    MaxPending = 2
    PickerSize = 1
    MaxQueue = 2
INVARIANTS
    ChoicesQueueOnce
    NewestSearchesAreHeld
    TheRoomIsToldTheTruth
PROPERTIES
    EveryInteractionIsCountedOnce
CHECK_DEADLOCK FALSE
