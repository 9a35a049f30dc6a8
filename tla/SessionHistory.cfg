SPECIFICATION Spec
CONSTANTS
    Limit = 2
    MaxTurns = 3
    MaxForks = 2
INVARIANTS
    MainMemoryIsDisk
    AnalysisFollowsPath
    NoForeignTurns
PROPERTIES
    ConversationsOnlyGrow
