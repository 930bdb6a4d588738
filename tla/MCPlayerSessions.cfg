SPECIFICATION FairSpec
CONSTANTS
    Sessions = {s1, s2}
    Names = {steve}
    NoName = NoName
    NoSession = NoSession
    NoEntity = NoEntity
    MaxPlayers = 2
    Timeout = 3
    AuthTimeout = 0
    SaveInterval = 2
    MaxHeld = 1
INVARIANTS
    TypeOK
    UniqueNames
    
PROPERTIES
    
    LeaverIsKept
    LoginEnds
