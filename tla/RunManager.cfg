SPECIFICATION Spec
CONSTANTS
    k1 = k1  k2 = k2  r1 = r1  r2 = r2  c1 = c1  u1 = u1
    Keys = {k1, k2}
    NoTenant = "none"
    Tenants = {"t1", "t2"}
    TenantOf <- OneTenantEach
    Users = {u1}
    Runs = {r1, r2}
    Chans = {c1}
    EventCap = 2
    ChanCap = 2
    MaxEmits = 2
    NoRun = NoRun
    NoKey = NoKey
SYMMETRY TokenSymmetry
INVARIANTS
    RegistryNamesTheWriter
    BufferIsLatest
    ChannelAscends
    SessionsStayApart
CHECK_DEADLOCK FALSE
