SPECIFICATION TaskFairSpec
CONSTANTS
    m1 = m1  m2 = m2  p1 = p1
    Models = {m1, m2}
    Streams = {Turn}
    Chats = {Worker}
    Turn = Turn
    Worker = Worker
    Puts = {p1}
    Starts <- SmallStarts
    Lists <- SmallLists
    Routes <- SmallRoutes
    MaxRetries = 1
    MaxCommands = 2
    TaskQueue = 1
    MaxTurns = 2
    MaxTasks = 2
INVARIANTS
    ConfigurationHolds
    OneVoice
    FallsBackToAll
PROPERTIES
    TitlesMoveForward
    TasksEnd
CHECK_DEADLOCK FALSE
