SPECIFICATION Spec
CONSTANTS
    Planes = 2
    SysMax = 6
    TableLen = 2
    BankNum = 2
    SysBankNum = 2
    SblkBlks = 1
    ExtSys = 1
    ExtRdt = 1
    MpNum = 5
    MaxFaults = 2
    ResultPages = 2
    Pages = 4
    Pairs = 2
    Grown <- GrownGroups
    PerPage = 2
    PageLimit = 2
    OldCount = 9
    Flashes <- AllFlashes
INVARIANTS
    TakesNewest
    TableIsSnapshot
    CleanInherits
    OwnResult
    RebuildExact
CHECK_DEADLOCK FALSE
