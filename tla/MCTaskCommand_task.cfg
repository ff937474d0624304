SPECIFICATION TaskSpec
CONSTANTS
    Planes = 2
    SysMax = 4
    BankNum = 2
    SysBankNum = 2
    BlockNum = 6
    SysBlk = 1
    ExtRdt = 1
    ByteRange = 4
    Vendors <- SomeVendors
    Commands <- SomeCommands
    OldTables <- SomeTables
    MaxCalls = 2
    MaxLost = 1
    MaxFails = 2
    MaxSilent = 1
    CacheBanks = 2
    Buffers = 3
    Room = 1
    Cycles = 2
    MaxFlaws = 1
    DqsRange = 5
    DqRange = 5
    RxRange = 4
    Field = 8
    TxGap = 3
    TxEyes <- SomeTxEyes
    RxEyes <- SomeRxEyes
    CalBanks = 3
    Speeds = 2
    TxDrivings = 3
    RxDrivings = 3
    RxGap = 2
    Configs <- SomeConfigs
    SectorsOfK = 32
    MaxLate = 1
INVARIANTS
    ScanExact
    EraseMarksExact
    CacheVerdictTrue
    WidestWindow
    CalibratedMeansWorks
    InitVerdictTrue
PROPERTY
    TaskEnds
CHECK_DEADLOCK FALSE
