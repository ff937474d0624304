SPECIFICATION Spec
CONSTANTS
    Planes = 2
    SysMax = 4
    TableLen = 1
    BankNum = 2
    BlockNum = 8
    RealMpNum = 4
    SblkBlks = 1
    SysBankNum = 1
    SblkStart = 1
    BankStart = 0
    RdtBlks = 1
    WordBits = 32
    TagRange = 3
    MaxFail = 2
    MaxLate = 2
    Jobs <- EveryJob
INVARIANTS
    OutstandingExact
    DecodeExact
    MarkedOnlyIfFailed
    FailuresRecorded
    EraseSetExact
    TimeoutBlamesSilentBanks
    EraseAgainAloneInTime
CHECK_DEADLOCK FALSE
