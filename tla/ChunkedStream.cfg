SPECIFICATION Spec
CONSTANTS
    None = None
    opus = opus
    aac = aac
    Encodings = {opus, aac}
    Length <- MCLength
    ChunkSpan = 2
    ChunkAttempts = 3
    MaxUrlRefreshes = 3
    ProgressResetsRefreshes = 2
    Wanted = 3
INVARIANTS
    EndsWhole
    RequestsPerByteAreBounded
PROPERTIES
    StreamIsOrdered
    AbandonedReadsEnd
