SPECIFICATION LifeSpec
CONSTANTS
    j1 = j1  j2 = j2  t1 = t1  t2 = t2
    Tenants = {t1, t2}
    NoTenant = NoTenant
    Jobs = {j1, j2}
    MaxJobs = 4
    MaxCrashes = 2
    MaxSwitches = 2
SYMMETRY Interchangeable
INVARIANTS
    ProvisionedIsWhole
    ActiveIsProvisioned
CHECK_DEADLOCK FALSE
