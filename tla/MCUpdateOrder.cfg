SPECIFICATION Spec
CONSTANTS
    Sessions = {s1}
    Dims = {overworld}
    StreamChunks = {c1}
    Blocks = {0, 1}
    Jobs = {1, 2, 3}
    NoJob = 0
    NoSession = NoSession
    NoChunk = NoChunk
    MaxChanges = 2
    BatchSize = 1
    SubRegionMin = 2
PROPERTY UpdatesInOrder
