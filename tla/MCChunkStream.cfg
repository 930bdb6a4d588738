SPECIFICATION Spec
CONSTANTS
    Sessions = {s1, s2}
    Dims = {overworld, nether}
    StreamChunks = {c1}
    Blocks = {0}
    Jobs = {1, 2, 3, 4}
    NoJob = 0
    NoSession = NoSession
    NoChunk = NoChunk
    MaxChanges = 1
    BatchSize = 1
    SubRegionMin = 2
SYMMETRY Symmetry
INVARIANTS
    TypeOK
    IndexExact
    SentIsOwed
    ViewCurrent
