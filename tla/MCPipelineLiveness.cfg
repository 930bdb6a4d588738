SPECIFICATION FairSpec
CONSTANTS
    c1 = c1
    r1 = r1
    r2 = r2
    Chunks = {c1}
    Regions = {r1}
    RegionOf <- MCRegionOf
    Contents <- MCContents
    NoContent = NoContent
    Handles = {h1, h2}
    NoRegion = NoRegion
    NSlots = 1
    MaxPending = 1
    Workers = {w1, w2}
    NoTask = NoTask
    ReadsMayFail = FALSE
    Edits = {e1}
    SpawnChunks = {}
    EntityChunks = {c1}
    MaxBleed = 1
    Budget = 2
    MaxBacklog = 1
PROPERTY WantedGetsReady
