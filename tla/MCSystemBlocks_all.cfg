SPECIFICATION Spec
CONSTANTS
    BankNum = 3
    SysBankNum = 2
    SblkBlks = 2
    ExtBlks = 2
    BankTh = 2
    BlkTh = 2
    WordBits = 32
    MaxFail = 2
    Jobs <- AllJobs
INVARIANTS
    MapIsExact
    EnoughCopies
    PagesAgree
    CopiesProtected
    CleanWrites
    UpdateLeavesCopies
CHECK_DEADLOCK FALSE
