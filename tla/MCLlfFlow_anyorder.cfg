SPECIFICATION FairSpec
CONSTANTS
    Configs <- AllConfigs
    AlwaysInit = FALSE
    MaxCommands = 3
INVARIANTS OkMeansFormatted NoUntestedImage AnswerOnce AssertsHold ForceInheritNeverFormats
PROPERTY CommandEnds
CHECK_DEADLOCK FALSE
