SPECIFICATION FairSpec
CONSTANTS
    Configs <- ScanThenEraseConfigs
    AlwaysInit = TRUE
    MaxCommands = 2
PROPERTY ReadDefectMarkThenErase
CHECK_DEADLOCK FALSE
