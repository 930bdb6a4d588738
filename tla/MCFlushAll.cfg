SPECIFICATION StoreSpec
CONSTANTS
    c1 = c1
    c2 = c2
    c3 = c3
    r1 = r1
    r2 = r2
    Chunks = {c1, c3}
    Regions = {r1, r2}
    RegionOf <- MCRegionOf
    Contents = {v1}
    NoContent = NoContent
    Handles = {h1, h2, h3}
    NoRegion = NoRegion
    NSlots = 1
    MaxPending = 1
    Workers = {w1, w2}
    NoTask = NoTask
    ReadsMayFail = TRUE
    MaxTasks = 1
CONSTRAINT FewTasks
SYMMETRY Symmetry
INVARIANT FlushAllFlushes
