SPECIFICATION FairSpec
CONSTANTS
    Planes = 3
    SysMax = 3
    TableLen = 2
    BankNum = 2
    BlockNum = 9
    RealMpNum = 3
    SblkBlks = 1
    SysBankNum = 1
    SblkStart = 1
    BankStart = 0
    RdtBlks = 1
    WordBits = 32
    TagRange = 4
    MaxFail = 2
    MaxLate = 1
    Jobs <- EveryJob
INVARIANT
    RemapTableExact
PROPERTY
    EraseEnds
CHECK_DEADLOCK FALSE
