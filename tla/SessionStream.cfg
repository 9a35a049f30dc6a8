SPECIFICATION StreamSpec
CONSTANTS
    k1 = k1  r1 = r1  r2 = r2  c1 = c1  c2 = c2  t1 = t1
    Keys = {k1}
    NoTenant = "none"
    Tenants = {"t1"}
    TenantOf <- OneTenant
    Users = {"u1"}
    Runs = {r1, r2}
    Chans = {c1, c2}
    EventCap = 2
    ChanCap = 1
    MaxEmits = 1
    NoRun = NoRun
    NoKey = NoKey
    Tabs = {t1}
    TabKey <- OneSession
    MaxEdits = 1
    Budget = 2
    Reloading = {t1}
    NoTab = NoTab
    NoConn = NoConn
SYMMETRY TokenSymmetry
INVARIANTS
    CompleteUnlessMishap
PROPERTY
    ShowsForward
CHECK_DEADLOCK FALSE
