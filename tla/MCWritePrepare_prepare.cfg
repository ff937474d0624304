SPECIFICATION PrepareSpec
CONSTANTS
    Planes = 2
    SysMax = 6
    TableLen = 2
    BankNum = 3
    MpNum = 6
    SSEnd = 2
    Serial = TRUE
    RealBlockNum = 8
    BadBsTh = 2
    SelectMax = 3
    MaxUnread = 1
    MaxMark = 1
    BadSets <- UpToThree
    DynBegin = 1
    DynamicNum = 2
    SnapshotNum = 1
    Capacities <- TwoCapacities
    Reserve = 0
    BankLimit = 200
    L2PLimit = 4
    Inherited <- InheritedTables
    MaxBad = 1
INVARIANTS
    NoBlockTwice
    OnlyGoodBlocks
    GroupsAreWhole
    TableAccepted
    RoomForHost
    AreasSuffice
CHECK_DEADLOCK FALSE
