SPECIFICATION FairSpec
CONSTANTS
    Configs <- SoundConfigs
    AlwaysInit = TRUE
    MaxCommands = 4
PROPERTY KeepsPromise
CHECK_DEADLOCK FALSE
