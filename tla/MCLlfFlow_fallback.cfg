SPECIFICATION Spec
CONSTANTS
    Configs <- FallBackConfigs
    AlwaysInit = TRUE
    MaxCommands = 2
INVARIANT WeAlreadyHaveDBT
CHECK_DEADLOCK FALSE
