SPECIFICATION Spec
CONSTANTS
    u1 = u1  u2 = u2  t1 = t1  t2 = t2  s1 = s1  s2 = s2  r1 = r1  r2 = r2
    Users = {u1, u2}
    Tenants = {t1, t2}
    Sessions = {s1, s2}
    Requests = {r1, r2}
    Founder = u1
    FirstTenant = t1
    MaxPassword = 1
    MaxCalls = 5
    NoUser = NoUser
    NoTenant = NoTenant
    NoSession = NoSession
    NoRequest = NoRequest
SYMMETRY RequestSymmetry
INVARIANTS
    PlatformAdminRemains
    SessionsKnowThePassword
    OneSession
PROPERTIES
    LastOwnerStays
    DeletedIsFinal
CHECK_DEADLOCK FALSE
