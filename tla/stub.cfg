SPECIFICATION Spec
CONSTANTS
    MemParas = 12
    PspSeg = 1
    PspParas = 1
    Others <- MCOthers
    Layouts <- MCLayouts
    Areas = {0, 2}
    LdtSize = 9
    ParaSize = 4
    SegLimit = 31
    FlatLimit = 99
    Worlds <- MCWorlds
    minkeep = 2
    ImageBase = 40
    InfoBase = 70
    InfoSize = 10
INVARIANTS TypeOK HostPoolHeld HostPoolCurrent PspKept AreaKept SelectorsTrue OthersUntouched HandoverOwned TellsOverlays LowInv
PROPERTIES StubEnds
CHECK_DEADLOCK FALSE
