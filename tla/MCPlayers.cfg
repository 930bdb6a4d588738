SPECIFICATION PlayersSpec
CONSTANTS
    log = log
    plank = plank
    table = table
    chest = chest
    oven = oven
    Kinds = {log, plank, table}
    NoKind = NoKind
    MaxStackOf <- MCMaxStackOf
    GridSize = 2
    ArmorSize = 1
    MainSize = 1
    BarSize = 2
    ArmorKinds = {table}
    Recipe <- MCRecipe
    Worth <- MCWorth
    StartSlots <- MCStartSlots
    Players = {p1, p2}
    Boxes = {chest, oven}
    Furnaces = {oven}
    BoxSize = 2
    BagMainSize = 1
    BagBarSize = 1
    Smelts <- MCSmelts
    NoWindow = NoWindow
    StartBoxes <- MCStartBoxes
    StartBags <- MCStartBags
CONSTRAINT Unexcused
SYMMETRY PlayersSymmetry
INVARIANTS
    PlayersTypeOK
    NothingIsLost
CHECK_DEADLOCK FALSE
