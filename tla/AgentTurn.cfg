SPECIFICATION FairSpec
CONSTANTS
    p1 = p1  p2 = p2  q1 = q1  o1 = o1
    Products = {p1, p2}
    Base = {p1, p2}
    Queries = {q1}
    OtherArgs = {o1}
    Alike <- NamesAlike
    MaxIter = 2
    MaxPerRound = 3
    MaxPerTurn = 4
    MaxLocators = 1
    MaxDetails = 2
    Repeats = 2
    None = None
INVARIANTS
    EvidenceBacked
    WithinBudget
PROPERTIES
    NoToolOnceCommitted
    KeepsContract
    TurnEnds
CHECK_DEADLOCK FALSE
