SPECIFICATION Spec
CONSTANTS
    a1 = a1  a2 = a2  t1 = t1  h1 = h1  g1 = g1  g2 = g2
    Tenants = {t1}
    Base = "base"
    Actors = {a1, a2}
    Ops = {"ensure", "observe", "consolidate", "human", "delete", "approve", "reject"}
    HumanNotes = {h1}
    AgentNotes = {g1, g2}
    BaseNotes = {}
    MaxRevs = 2
    MaxSec = 1
    MaxFailures = 1
SYMMETRY Interchangeable
INVARIANTS
    AgentSeesOnlyApproved
    KnowledgeSurvives
    RestartIsNeutral
CHECK_DEADLOCK FALSE
