SPECIFICATION LifeSpec
CONSTANTS
    j1 = j1  j2 = j2  t1 = t1  t2 = t2
    Tenants = {t1}
    NoTenant = NoTenant
    Jobs = {j1, j2}
    MaxJobs = 2
    MaxCrashes = 0
    MaxSwitches = 0
SYMMETRY Interchangeable
INVARIANTS
    LegacyDataArrives
CHECK_DEADLOCK FALSE
