SPECIFICATION ConnectionSpec
CONSTANTS
    Sessions = {s1}
    Dims = {overworld}
    StreamChunks = {c1, c2}
    Blocks = {0}
    Jobs = {1, 2}
    NoJob = 0
    NoSession = NoSession
    NoChunk = NoChunk
    MaxChanges = 1
    BatchSize = 1
    SubRegionMin = 1
    Lengths = {1, 3}
    MaxPackets = 4
    MaxReadBuffer = 4
    MaxBytes = 4
    FlushesInTime = TRUE
    WindowIds = {0, 1}
    MaxClicks = 4
    AnswersAlways = TRUE
CHECK_DEADLOCK FALSE
INVARIANTS
    ConnectionTypeOK
    GoodbyeArrives
    AppliedOnResyncedView
PROPERTIES
    NearbyIsSent
    
    PacketsAreDealtWith
    BytesInOrder
    BytesArrive
    LockIsReleased
