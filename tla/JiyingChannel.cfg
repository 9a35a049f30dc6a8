SPECIFICATION JiyingFairSpec
CONSTANTS
    j1 = j1  j2 = j2
    Jobs = {j1, j2}
    Worker = Worker
    QueueCap = 1
    MaxEvents = 2
    MaxMishaps = 1
    NoJob = NoJob
    Nobody = Nobody
PROPERTIES
    AnswersInOrder OneTurnPerConnection EventsConfirmed
CHECK_DEADLOCK FALSE
