SPECIFICATION WorldSpec
CONSTANTS
    c1 = c1
    r1 = r1
    r2 = r2
    Chunks = {c1}
    Regions = {r1}
    RegionOf <- MCRegionOf
    Contents <- MCContents
    NoContent = NoContent
    Handles = {h1, h2}
    NoRegion = NoRegion
    NSlots = 1
    MaxPending = 1
    Workers = {w1, w2}
    NoTask = NoTask
    ReadsMayFail = TRUE
    Edits = {e1, e2}
    SpawnChunks = {}
    EntityChunks = {}
    MaxBleed = 1
    Budget = 2
    MaxBacklog = 1
    Parts = {"chunks", "ticks", "light", "tracking", "store"}
    ColumnTop = 3
    Sands = {sand1, sand2}
    SandDelay = 1
    PlateDelay = 1
    TickBudget = 1
    MaxDeferred = 1
    MaxSteps = 1
    Columns <- MCColumns
    Beside <- MCBeside
    Around <- MCAround
    Top = 3
    Full = 3
    Kinds <- MCKinds
    Air = "air"
    Opacity <- MCOpacity
    Emission <- MCEmission
    MaxQueued = 6
    MaxSolid = 2
    fallenTree = fallenTree
    Watchers = {p1, p2}
    Things = {fallenTree}
    Bobbers = {}
    OwnerOf <- MCOwnerOf
    Spots = {0, 2}
    RangeOf <- MCRangeOf
    UpdateEvery <- MCUpdateEvery
    TeleportEvery = 3
    MinStep = 0
    MaxStep = 2
    NotShown = NotShown
    Entities = {cow, cart}
    Places = {a, b}
CONSTRAINT Followed
ACTION_CONSTRAINT BlockFirst
SYMMETRY Symmetry
INVARIANTS
    WorldTypeOK
    NothingIsStuck
    EditsKept
    ShutdownKeepsReady
    NoTickIsForgotten
    SandIsKept
    LightIsRight
    ViewersAreExact
    MovesAddUp
    
PROPERTIES
    UsesStore
    GeneratedOnlyIfNew
    TickSeesRange
CHECK_DEADLOCK FALSE
