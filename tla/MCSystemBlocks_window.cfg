SPECIFICATION Spec
CONSTANTS
    BankNum = 2
    SysBankNum = 2
    SblkBlks = 2
    ExtBlks = 2
    BankTh = 2
    BlkTh = 2
    WordBits = 32
    MaxFail = 2
    Jobs <- FormatJobs
PROPERTIES
    DropsOnlyFailed
CHECK_DEADLOCK FALSE
