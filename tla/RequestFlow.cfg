SPECIFICATION FlowSpec
CONSTANTS
    q1 = q1  q2 = q2  x1 = x1  x2 = x2  k1 = k1  j1 = j1  j2 = j2  u1 = u1  u2 = u2  c1 = c1  c2 = c2
    Keys = {k1}
    Tenants = {"t1"}
    TenantOf <- OneTenant
    Users = {u1, u2}
    Runs = {x1, x2}
    Chans = {}
    EventCap = 1
    ChanCap = 1
    MaxEmits = 0
    NoRun = NoRun
    NoKey = NoKey
    Customers = {c1, c2}
    Requests = {q1, q2}
    Jobs = {j1}
    MaxJobs = 1
    MaxCalls = 2
    MaxCrashes = 1
    MaxSwitches = 2
    NoTenant = "none"
    NoUser = NoUser
    NoCustomer = NoCustomer
    MaxGrants = 1
SYMMETRY TokenSymmetry
INVARIANTS
    RunsKeepTheirRights
    DeletedStaysQuiet
    OnlyToldRunsLose
    NoHistoryLeaks
PROPERTY
    CustomerStaysBound
CHECK_DEADLOCK FALSE
