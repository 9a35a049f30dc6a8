------------------------------ MODULE Membership ------------------------------
(***************************************************************************)
(* The identity control plane (internal/identity): accounts, tenants,      *)
(* memberships and login sessions, and the requests that change them.      *)
(*                                                                         *)
(* A request is a goroutine of the HTTP server.  It runs the statements of *)
(* its handler one by one, and only four operations hold Store.mu from     *)
(* their check to their last write; an action here is one statement that   *)
(* writes, or the reads that precede it.  The argon2 hashing and the       *)
(* provisioning of a tenant, which take long, fall between two actions.    *)
(*                                                                         *)
(* Passwords are version numbers.  Names, slugs, e-mail addresses and CSRF *)
(* secrets are left out: a user is its e-mail address.                     *)
(***************************************************************************)
EXTENDS Naturals, FiniteSets

CONSTANTS
    Users, Tenants, Sessions,
    Requests,           \* one token per request in flight
    Founder,            \* the platform administrator -setup creates
    FirstTenant,        \* the tenant -setup creates
    MaxPassword,        \* bound of the model: password versions per user
    MaxCalls,           \* bound of the model: requests begun
    NoUser, NoTenant, NoSession, NoRequest

ASSUME SetupIsKnown    == Founder \in Users /\ FirstTenant \in Tenants
ASSUME UsersAreFinite   == IsFiniteSet(Users)
ASSUME BoundsAreNumbers == MaxPassword \in Nat /\ MaxCalls \in Nat
ASSUME NothingIsNew    == /\ NoUser \notin Users
                          /\ NoTenant \notin Tenants
                          /\ NoSession \notin Sessions
                          /\ NoRequest \notin Requests

VARIABLES
    status,     \* users.status
    admin,      \* users.platform_admin
    password,   \* users.password_hash
    weak,       \* the hash is below the cost baseline (NeedsRehash)
    tenant,     \* tenants.status
    role,       \* memberships.role, "none" without a membership
    session,    \* auth_sessions
    mu,         \* the holder of Store.mu
    pc, call,   \* where a request is, and what it has read
    crossed,    \* history: users of whom two credential requests overlapped
    calls       \* requests begun so far

userVars   == <<status, admin, password, weak>>
tenantVars == <<tenant, role>>
vars       == <<userVars, tenantVars, session, mu, pc, call, crossed, calls>>

-----------------------------------------------------------------------------

UserStatus   == {"absent", "active", "disabled"}
TenantStatus == {"absent", "provisioning", "active", "disabled", "failed", "deleted"}

(* analyst and reviewer have the same rights here: "member". *)
Role == {"owner", "admin", "member"}

Session == [user : Users \cup {NoUser}, tenant : Tenants \cup {NoTenant},
            live : BOOLEAN, password : Nat]

Unissued == [user |-> NoUser, tenant |-> NoTenant, live |-> FALSE, password |-> 0]

(* What a request keeps between two statements: its scope (by, home, rank, *)
(* platform, token) and the target and the value of the change in hand.    *)
Call == [by : Users \cup {NoUser}, home : Tenants \cup {NoTenant},
         rank : Role \cup {"none"}, platform : BOOLEAN,
         token : Sessions \cup {NoSession},
         user : Users \cup {NoUser}, tenant : Tenants \cup {NoTenant},
         value : Role \cup UserStatus \cup TenantStatus \cup {"none", "on", "off"},
         password : Nat]

Blank == [by |-> NoUser, home |-> NoTenant, rank |-> "none", platform |-> FALSE,
          token |-> NoSession, user |-> NoUser, tenant |-> NoTenant,
          value |-> "none", password |-> 0]

Credential == {"login.verified", "login.hashed", "login.revoked", "register.committed",
               "password.verified", "password.written", "reset.written"}

Locked == {"disable.checked", "disable.written", "admin.checked", "role.checked",
           "remove.checked", "remove.written"}

PC == Credential \cup Locked \cup
      {"idle", "scoped", "managing", "add.checked", "user.checked", "create.checked",
       "create.committed", "status.checked", "delete.checked", "tenant.closing",
       "resume.provisioned", "switch.checked"}

-----------------------------------------------------------------------------
(* What the tables say.                                                    *)

Open(t) == tenant[t] \in {"active", "failed"}
Gone(t) == tenant[t] \in {"absent", "deleted"}

(* The tenants u may work in. *)
OpenTo(u) == {t \in Tenants : Open(t) /\ role[t][u] # "none"}

Owns(t, u) == role[t][u] = "owner" /\ status[u] = "active"
OwnersOf(t) == {u \in Users : Owns(t, u)}

Administers(u) == admin[u] /\ status[u] = "active"
PlatformAdmins == {u \in Users : Administers(u)}

(* The session's token is accepted: session, user, tenant and membership. *)
Usable(s) == LET us == session[s].user
                 te == session[s].tenant
             IN  /\ session[s].live
                 /\ status[us] = "active"
                 /\ te \in OpenTo(us)

Scope(s) == LET us == session[s].user
                te == session[s].tenant
            IN  [Blank EXCEPT !.by = us, !.home = te, !.rank = role[te][us],
                              !.platform = admin[us], !.token = s]

(* Another owner, and another administrator, must remain. *)
CanBeDisabled(u) ==
    /\ admin[u] => Cardinality(PlatformAdmins) > 1
    /\ \A t \in Tenants : role[t][u] = "owner" /\ ~Gone(t) => Cardinality(OwnersOf(t)) > 1

MayManageTenant(c) == c.rank \in {"owner", "admin"}
MayManageRole(c, ro) == c.rank = "owner" \/ (c.rank = "admin" /\ ro = "member")

(* UPDATE auth_sessions SET revoked_at. *)
Revoke(some) == session' = [s \in Sessions |->
                    IF s \in some THEN [session[s] EXCEPT !.live = FALSE] ELSE session[s]]

RevokeUser(u, but) == Revoke({s \in Sessions : session[s].user = u /\ s # but})
RevokeTenant(t)    == Revoke({s \in Sessions : session[s].tenant = t})
RevokeTenantUser(t, u) ==
    Revoke({s \in Sessions : session[s].tenant = t /\ session[s].user = u})

(* INSERT of a user with its first membership. *)
InsertUser(u, plat) ==
    /\ status[u] = "absent"
    /\ status' = [status EXCEPT ![u] = "active"]
    /\ admin' = [admin EXCEPT ![u] = plat]
    /\ UNCHANGED <<password, weak>>

SetPassword(u, version) ==
    /\ password' = [password EXCEPT ![u] = version]
    /\ weak' = [weak EXCEPT ![u] = FALSE]
    /\ UNCHANGED <<status, admin>>

(* UPDATE tenants SET status, whatever it is by now. *)
SetTenant(t, st) == tenant' = [tenant EXCEPT ![t] = st]

SetRole(t, u, ro) == role' = [role EXCEPT ![t][u] = ro]

-----------------------------------------------------------------------------
(* Moves of a request. *)

Begin(r, label, c) ==
    /\ pc[r] = "idle" /\ calls < MaxCalls
    /\ calls' = calls + 1
    /\ pc' = [pc EXCEPT ![r] = label]
    /\ call' = [call EXCEPT ![r] = c]

Go(r, label, c) ==
    /\ pc' = [pc EXCEPT ![r] = label]
    /\ call' = [call EXCEPT ![r] = c]
    /\ UNCHANGED calls

Finish(r) == Go(r, "idle", Blank)

(* A statement of r that follows the label from. *)
At(r, from) == pc[r] = from

Platform(r) == At(r, "scoped") /\ call[r].platform

(* Mutants: the mutex does not wait; an unlock is missing. *)
Barge(r) == mu' = r
Keep(r)  == UNCHANGED mu

Lock(r)   == mu = NoRequest /\ mu' = r
Unlock(r) == mu' = NoRequest

(* A request about the credentials of u overlaps another one. *)
Cross(r, u) ==
    crossed' = IF \E q \in Requests \ {r} : pc[q] \in Credential /\ call[q].user = u
               THEN crossed \cup {u} ELSE crossed

-----------------------------------------------------------------------------
(* Accounts of one's own: register, log in, log out, change the password.  *)

RegisterCommit(r, u, t) ==
    /\ tenant[t] = "absent"
    /\ InsertUser(u, FALSE)
    /\ SetTenant(t, "provisioning") /\ SetRole(t, u, "owner")
    /\ Begin(r, "register.committed", [Blank EXCEPT !.user = u, !.tenant = t])
    /\ UNCHANGED <<session, mu, crossed>>

RegisterProvision(r) ==
    /\ At(r, "register.committed")
    /\ \/ SetTenant(call[r].tenant, "active") /\ Go(r, "login.revoked", call[r])
       \/ SetTenant(call[r].tenant, "failed") /\ Finish(r)
    /\ UNCHANGED <<userVars, role, session, mu, crossed>>

LoginVerify(r, u) ==
    /\ status[u] = "active"
    /\ Begin(r, "login.verified",
             [Blank EXCEPT !.user = u, !.password = password[u],
                           !.value = IF weak[u] THEN "on" ELSE "off"])
    /\ Cross(r, u)
    /\ UNCHANGED <<userVars, tenantVars, session, mu>>

(* The weak hash is replaced by a new one of the password that was read,   *)
(* then the workspace is chosen: the first membership that is open.        *)
LoginHash(r) ==
    /\ At(r, "login.verified")
    /\ IF call[r].value = "on" THEN SetPassword(call[r].user, call[r].password)
                               ELSE UNCHANGED userVars
    /\ \/ \E t \in OpenTo(call[r].user) : Go(r, "login.hashed", [call[r] EXCEPT !.tenant = t])
       \/ OpenTo(call[r].user) = {} /\ Finish(r)
    /\ UNCHANGED <<tenantVars, session, mu, crossed>>

(* Mutant: the sessions opened before stay. *)
LoginKeeps(r) ==
    /\ At(r, "login.hashed")
    /\ Go(r, "login.revoked", call[r])
    /\ UNCHANGED <<userVars, tenantVars, session, mu, crossed>>

LoginRevoke(r) ==
    /\ At(r, "login.hashed")
    /\ RevokeUser(call[r].user, NoSession)
    /\ Go(r, "login.revoked", call[r])
    /\ UNCHANGED <<userVars, tenantVars, mu, crossed>>

(* issueSession *)
LoginIssue(r, s) ==
    /\ At(r, "login.revoked")
    /\ session[s] = Unissued
    /\ session' = [session EXCEPT ![s] =
                     [user |-> call[r].user, tenant |-> call[r].tenant,
                      live |-> TRUE, password |-> call[r].password]]
    /\ Finish(r)
    /\ UNCHANGED <<userVars, tenantVars, mu, crossed>>

(* validate finds the session expired, or idle for too long. *)
Expire(s) ==
    /\ session[s].live
    /\ Revoke({s})
    /\ UNCHANGED <<userVars, tenantVars, mu, pc, call, crossed, calls>>

(* RequireAuth: the scope is read once and kept for the whole request. *)
Authenticate(r, s) ==
    /\ Usable(s)
    /\ Begin(r, "scoped", Scope(s))
    /\ UNCHANGED <<userVars, tenantVars, session, mu, crossed>>

(* A request that only reads, or is refused by one of the checks. *)
Refused(r) ==
    /\ pc[r] \in {"scoped", "managing"}
    /\ Finish(r)
    /\ UNCHANGED <<userVars, tenantVars, session, mu, crossed>>

Logout(r) ==
    /\ At(r, "scoped") /\ Usable(call[r].token)
    /\ Revoke({call[r].token})
    /\ Finish(r)
    /\ UNCHANGED <<userVars, tenantVars, mu, crossed>>

ChangeVerify(r) ==
    /\ At(r, "scoped") /\ Usable(call[r].token)
    /\ LET u == call[r].by IN
       /\ Go(r, "password.verified",
             [call[r] EXCEPT !.user = u, !.password = password[u]])
       /\ Cross(r, u)
    /\ UNCHANGED <<userVars, tenantVars, session, mu>>

(* The session that asked keeps its standing with the new password. *)
ChangeWrite(r) ==
    /\ At(r, "password.verified")
    /\ LET u == call[r].user
           new == password[u] + 1
       IN  /\ new <= MaxPassword
           /\ SetPassword(u, new)
           /\ session' = [session EXCEPT ![call[r].token].password = new]
    /\ Go(r, "password.written", call[r])
    /\ UNCHANGED <<tenantVars, mu, crossed>>

ChangeRevoke(r) ==
    /\ At(r, "password.written")
    /\ RevokeUser(call[r].user, call[r].token)
    /\ Finish(r)
    /\ UNCHANGED <<userVars, tenantVars, mu, crossed>>

SwitchCheck(r, t) ==
    /\ At(r, "scoped") /\ Usable(call[r].token)
    /\ t \in OpenTo(call[r].by)
    /\ Go(r, "switch.checked", [call[r] EXCEPT !.tenant = t])
    /\ UNCHANGED <<userVars, tenantVars, session, mu, crossed>>

(* UPDATE ... WHERE revoked_at IS NULL *)
SwitchWrite(r) ==
    /\ At(r, "switch.checked")
    /\ session' = IF session[call[r].token].live
                  THEN [session EXCEPT ![call[r].token].tenant = call[r].tenant]
                  ELSE session
    /\ Finish(r)
    /\ UNCHANGED <<userVars, tenantVars, mu, crossed>>

(* ResumeProvision, once the provisioner has answered. *)
ResumeCheck(r) ==
    /\ At(r, "scoped") /\ Usable(call[r].token)
    /\ LET t == session[call[r].token].tenant IN
       /\ tenant[t] = "failed"
       /\ Go(r, "resume.provisioned", [call[r] EXCEPT !.tenant = t])
    /\ UNCHANGED <<userVars, tenantVars, session, mu, crossed>>

ResumeWrite(r) ==
    /\ At(r, "resume.provisioned")
    /\ SetTenant(call[r].tenant, "active") \/ UNCHANGED tenant
    /\ Finish(r)
    /\ UNCHANGED <<userVars, role, session, mu, crossed>>

-----------------------------------------------------------------------------
(* The platform administrator and accounts.                                *)

DisableCheck(r, u) ==
    /\ Platform(r) /\ u # call[r].by
    /\ status[u] # "absent"
    /\ Lock(r)
    /\ CanBeDisabled(u)
    /\ Go(r, "disable.checked", [call[r] EXCEPT !.user = u])
    /\ UNCHANGED <<userVars, tenantVars, session, crossed>>

DisableWrite(r) ==
    /\ At(r, "disable.checked")
    /\ status' = [status EXCEPT ![call[r].user] = "disabled"]
    /\ Go(r, "disable.written", call[r])
    /\ UNCHANGED <<admin, password, weak, tenantVars, session, mu, crossed>>

DisableRevoke(r) ==
    /\ At(r, "disable.written")
    /\ RevokeUser(call[r].user, NoSession)
    /\ Unlock(r) /\ Finish(r)
    /\ UNCHANGED <<userVars, tenantVars, crossed>>

Enable(r, u) ==
    /\ Platform(r) /\ u # call[r].by
    /\ status[u] = "disabled" /\ mu = NoRequest
    /\ status' = [status EXCEPT ![u] = "active"]
    /\ Finish(r)
    /\ UNCHANGED <<admin, password, weak, tenantVars, session, mu, crossed>>

ResetWrite(r, u) ==
    /\ Platform(r) /\ status[u] # "absent"
    /\ password[u] < MaxPassword
    /\ SetPassword(u, password[u] + 1)
    /\ Go(r, "reset.written", [call[r] EXCEPT !.user = u])
    /\ Cross(r, u)
    /\ UNCHANGED <<tenantVars, session, mu>>

(* Mutant: the administrator's own session is spared. *)
ResetSparesOwn(r) ==
    /\ At(r, "reset.written")
    /\ RevokeUser(call[r].user, call[r].token)
    /\ Finish(r)
    /\ UNCHANGED <<userVars, tenantVars, mu, crossed>>

ResetRevoke(r) ==
    /\ At(r, "reset.written")
    /\ RevokeUser(call[r].user, NoSession)
    /\ Finish(r)
    /\ UNCHANGED <<userVars, tenantVars, mu, crossed>>

AdminCheck(r, u, on) ==
    /\ Platform(r)
    /\ on \/ u # call[r].by
    /\ status[u] # "absent"
    /\ Lock(r)
    /\ (~on /\ admin[u]) => Cardinality(PlatformAdmins) > 1
    /\ Go(r, "admin.checked",
          [call[r] EXCEPT !.user = u, !.value = IF on THEN "on" ELSE "off"])
    /\ UNCHANGED <<userVars, tenantVars, session, crossed>>

AdminWrite(r) ==
    /\ At(r, "admin.checked")
    /\ admin' = [admin EXCEPT ![call[r].user] = (call[r].value = "on")]
    /\ Unlock(r) /\ Finish(r)
    /\ UNCHANGED <<status, password, weak, tenantVars, session, crossed>>

(* AdminCreateUser reads the tenant; the unique e-mail address decides.    *)
CreateUserCheck(r, t) ==
    /\ Platform(r) /\ ~Gone(t)
    /\ Go(r, "user.checked", [call[r] EXCEPT !.tenant = t])
    /\ UNCHANGED <<userVars, tenantVars, session, mu, crossed>>

CreateUserWrite(r, u, ro, plat) ==
    /\ At(r, "user.checked")
    /\ InsertUser(u, plat)
    /\ SetRole(call[r].tenant, u, ro)
    /\ Finish(r)
    /\ UNCHANGED <<tenant, session, mu, crossed>>

-----------------------------------------------------------------------------
(* The platform administrator and tenants.                                 *)

(* The owner exists and is active, or does not exist yet. *)
CreateTenantCheck(r, t, u) ==
    /\ Platform(r)
    /\ tenant[t] = "absent" /\ status[u] # "disabled"
    /\ Go(r, "create.checked",
          [call[r] EXCEPT !.tenant = t, !.user = u, !.value = status[u]])
    /\ UNCHANGED <<userVars, tenantVars, session, mu, crossed>>

CreateTenantCommit(r) ==
    /\ At(r, "create.checked")
    /\ LET t == call[r].tenant
           u == call[r].user
           taken == tenant[t] # "absent" \/ (call[r].value = "absent" /\ status[u] # "absent")
       IN  \/ /\ taken /\ Finish(r) /\ UNCHANGED <<userVars, tenantVars>>
           \/ /\ ~taken
              /\ IF call[r].value = "absent" THEN InsertUser(u, FALSE) ELSE UNCHANGED userVars
              /\ SetTenant(t, "provisioning") /\ SetRole(t, u, "owner")
              /\ Go(r, "create.committed", call[r])
    /\ UNCHANGED <<session, mu, crossed>>

CreateTenantProvision(r) ==
    /\ At(r, "create.committed")
    /\ \E st \in {"active", "failed"} : SetTenant(call[r].tenant, st)
    /\ Finish(r)
    /\ UNCHANGED <<userVars, role, session, mu, crossed>>

(* Mutant: a deleted tenant may be activated. *)
StatusCheckAny(r, t, st) ==
    /\ Platform(r)
    /\ t # call[r].home \/ st = "active"
    /\ tenant[t] # "absent"
    /\ Go(r, "status.checked", [call[r] EXCEPT !.tenant = t, !.value = st])
    /\ UNCHANGED <<userVars, tenantVars, session, mu, crossed>>

(* A failed tenant is provisioned first; when that fails, nothing changes. *)
StatusCheck(r, t, st) ==
    /\ Platform(r)
    /\ t # call[r].home \/ st = "active"
    /\ ~Gone(t)
    /\ Go(r, "status.checked", [call[r] EXCEPT !.tenant = t, !.value = st])
    /\ UNCHANGED <<userVars, tenantVars, session, mu, crossed>>

StatusWrite(r) ==
    /\ At(r, "status.checked")
    /\ SetTenant(call[r].tenant, call[r].value)
    /\ IF call[r].value = "disabled" THEN Go(r, "tenant.closing", call[r]) ELSE Finish(r)
    /\ UNCHANGED <<userVars, role, session, mu, crossed>>

DeleteCheck(r, t) ==
    /\ Platform(r) /\ t # call[r].home /\ ~Gone(t)
    /\ Go(r, "delete.checked", [call[r] EXCEPT !.tenant = t])
    /\ UNCHANGED <<userVars, tenantVars, session, mu, crossed>>

DeleteWrite(r) ==
    /\ At(r, "delete.checked")
    /\ SetTenant(call[r].tenant, "deleted")
    /\ Go(r, "tenant.closing", call[r])
    /\ UNCHANGED <<userVars, role, session, mu, crossed>>

TenantRevoke(r) ==
    /\ At(r, "tenant.closing")
    /\ RevokeTenant(call[r].tenant)
    /\ Finish(r)
    /\ UNCHANGED <<userVars, tenantVars, mu, crossed>>

-----------------------------------------------------------------------------
(* Members of a tenant, managed by its owner or admin, or by the platform  *)
(* administrator, who gets a made-up owner's scope of that tenant.         *)

AsOwnerOf(r, t) ==
    /\ Platform(r) /\ ~Gone(t)
    /\ Go(r, "managing", [call[r] EXCEPT !.home = t, !.rank = "owner"])
    /\ UNCHANGED <<userVars, tenantVars, session, mu, crossed>>

Manages(r) == pc[r] \in {"scoped", "managing"} /\ MayManageTenant(call[r])

AddCheck(r, u, ro) ==
    /\ Manages(r) /\ MayManageRole(call[r], ro)
    /\ ~Gone(call[r].home)
    /\ status[u] = "absent" \/ (status[u] = "active" /\ role[call[r].home][u] = "none")
    /\ Go(r, "add.checked",
          [call[r] EXCEPT !.tenant = call[r].home, !.user = u, !.value = ro,
                          !.platform = (status[u] = "absent")])
    /\ UNCHANGED <<userVars, tenantVars, session, mu, crossed>>

(* The primary keys refuse a second user, or a second membership. *)
AddWrite(r) ==
    /\ At(r, "add.checked")
    /\ LET u == call[r].user
           t == call[r].tenant
           taken == IF call[r].platform THEN status[u] # "absent" ELSE role[t][u] # "none"
       IN  \/ taken /\ UNCHANGED <<userVars, role>>
           \/ /\ ~taken /\ SetRole(t, u, call[r].value)
              /\ IF call[r].platform THEN InsertUser(u, FALSE) ELSE UNCHANGED userVars
    /\ Finish(r)
    /\ UNCHANGED <<tenant, session, mu, crossed>>

SetRoleCheck(r, u, ro) ==
    /\ Manages(r) /\ Lock(r)
    /\ LET t == call[r].home IN
       /\ role[t][u] # "none"
       /\ MayManageRole(call[r], role[t][u]) /\ MayManageRole(call[r], ro)
       /\ role[t][u] = "owner" /\ ro # "owner" => Cardinality(OwnersOf(t)) > 1
       /\ Go(r, "role.checked", [call[r] EXCEPT !.tenant = t, !.user = u, !.value = ro])
    /\ UNCHANGED <<userVars, tenantVars, session, crossed>>

SetRoleWrite(r) ==
    /\ At(r, "role.checked")
    /\ SetRole(call[r].tenant, call[r].user, call[r].value)
    /\ Unlock(r) /\ Finish(r)
    /\ UNCHANGED <<userVars, tenant, session, crossed>>

RemoveCheck(r, u) ==
    /\ Manages(r) /\ Lock(r)
    /\ LET t == call[r].home IN
       /\ role[t][u] # "none" /\ MayManageRole(call[r], role[t][u])
       /\ u # call[r].by
       /\ role[t][u] = "owner" => Cardinality(OwnersOf(t)) > 1
       /\ Go(r, "remove.checked", [call[r] EXCEPT !.tenant = t, !.user = u])
    /\ UNCHANGED <<userVars, tenantVars, session, crossed>>

RemoveWrite(r) ==
    /\ At(r, "remove.checked")
    /\ SetRole(call[r].tenant, call[r].user, "none")
    /\ Go(r, "remove.written", call[r])
    /\ UNCHANGED <<userVars, tenant, session, mu, crossed>>

RemoveRevoke(r) ==
    /\ At(r, "remove.written")
    /\ RevokeTenantUser(call[r].tenant, call[r].user)
    /\ Unlock(r) /\ Finish(r)
    /\ UNCHANGED <<userVars, tenantVars, crossed>>

-----------------------------------------------------------------------------

(* -setup has created the first tenant with its owner, the platform        *)
(* administrator, whose hash has since fallen below the cost baseline.     *)
Init ==
    /\ status = [u \in Users |-> IF u = Founder THEN "active" ELSE "absent"]
    /\ admin = [u \in Users |-> u = Founder]
    /\ password = [u \in Users |-> 0]
    /\ weak = [u \in Users |-> u = Founder]
    /\ tenant = [t \in Tenants |-> IF t = FirstTenant THEN "active" ELSE "absent"]
    /\ role = [t \in Tenants |-> [u \in Users |->
                 IF t = FirstTenant /\ u = Founder THEN "owner" ELSE "none"]]
    /\ session = [s \in Sessions |-> Unissued]
    /\ mu = NoRequest
    /\ pc = [r \in Requests |-> "idle"]
    /\ call = [r \in Requests |-> Blank]
    /\ crossed = {}
    /\ calls = 0

OwnAccount(r) ==
    \/ \E u \in Users, t \in Tenants : RegisterCommit(r, u, t)
    \/ \E u \in Users : LoginVerify(r, u)
    \/ \E s \in Sessions : LoginIssue(r, s) \/ Authenticate(r, s)
    \/ \E t \in Tenants : SwitchCheck(r, t)
    \/ RegisterProvision(r) \/ LoginHash(r) \/ LoginRevoke(r)
    \/ Refused(r) \/ Logout(r)
    \/ ChangeVerify(r) \/ ChangeWrite(r) \/ ChangeRevoke(r)
    \/ SwitchWrite(r) \/ ResumeCheck(r) \/ ResumeWrite(r)

Accounts(r) ==
    \/ \E u \in Users : \/ DisableCheck(r, u) \/ Enable(r, u) \/ ResetWrite(r, u)
                        \/ \E on \in BOOLEAN : AdminCheck(r, u, on)
                        \/ \E ro \in Role, plat \in BOOLEAN : CreateUserWrite(r, u, ro, plat)
    \/ \E t \in Tenants : CreateUserCheck(r, t)
    \/ DisableWrite(r) \/ DisableRevoke(r) \/ ResetRevoke(r) \/ AdminWrite(r)

Workspaces(r) ==
    \/ \E t \in Tenants : \/ \E u \in Users : CreateTenantCheck(r, t, u)
                          \/ \E st \in {"active", "disabled"} : StatusCheck(r, t, st)
                          \/ DeleteCheck(r, t)
    \/ CreateTenantCommit(r) \/ CreateTenantProvision(r)
    \/ StatusWrite(r) \/ DeleteWrite(r) \/ TenantRevoke(r)

Members(r) ==
    \/ \E t \in Tenants : AsOwnerOf(r, t)
    \/ \E u \in Users : \/ \E ro \in Role : AddCheck(r, u, ro) \/ SetRoleCheck(r, u, ro)
                        \/ RemoveCheck(r, u)
    \/ AddWrite(r) \/ SetRoleWrite(r) \/ RemoveWrite(r) \/ RemoveRevoke(r)

Next ==
    \/ \E r \in Requests : OwnAccount(r) \/ Accounts(r) \/ Workspaces(r) \/ Members(r)
    \/ \E s \in Sessions : Expire(s)

Spec == Init /\ [][Next]_vars

-----------------------------------------------------------------------------
(* Properties.                                                             *)

TypeOK ==
    /\ status \in [Users -> UserStatus]
    /\ admin \in [Users -> BOOLEAN]
    /\ password \in [Users -> Nat]
    /\ weak \in [Users -> BOOLEAN]
    /\ tenant \in [Tenants -> TenantStatus]
    /\ role \in [Tenants -> [Users -> Role \cup {"none"}]]
    /\ session \in [Sessions -> Session]
    /\ mu \in Requests \cup {NoRequest}
    /\ pc \in [Requests -> PC]
    /\ call \in [Requests -> Call]
    /\ crossed \subseteq Users
    /\ calls \in Nat

(* The critical sections of Store.mu exclude each other. *)
MuIsHeld == \A r \in Requests : pc[r] \in Locked <=> mu = r

(* A checked request is about to take u out of the owners of t. *)
Threatened(t, u) ==
    \E r \in Requests :
        /\ call[r].user = u
        /\ \/ pc[r] = "disable.checked"
           \/ pc[r] = "role.checked" /\ call[r].tenant = t /\ call[r].value # "owner"
           \/ pc[r] = "remove.checked" /\ call[r].tenant = t

SafeOwner(t) == \E u \in Users : Owns(t, u) /\ ~Threatened(t, u)

(* service.go:940 and 1457: no interleaving of disabling, demoting and     *)
(* removing leaves a live tenant that had an owner, whom no request was    *)
(* about to take away, without one.                                        *)
LastOwnerStays ==
    [][\A t \in Tenants : ~Gone(t) /\ SafeOwner(t) /\ ~Gone(t)' => SafeOwner(t)']_vars

(* service.go:940: somebody can always administer the platform. *)
PlatformAdminRemains == PlatformAdmins # {}

(* service.go:893 and 441: once a reset or a change of the password is     *)
(* done, every session left was opened with the new one -- unless requests *)
(* about this user's credentials overlapped (service.go:408).              *)
SessionsKnowThePassword ==
    \A s \in Sessions : session[s].live =>
        LET u == session[s].user IN
        \/ session[s].password = password[u]
        \/ u \in crossed
        \/ \E r \in Requests : /\ pc[r] \in {"password.written", "reset.written"}
                               /\ call[r].user = u

(* service.go:407: a user has one live session, unless two of its logins   *)
(* overlapped.                                                             *)
OneSession ==
    \A s1, s2 \in Sessions :
        session[s1].live /\ session[s2].live /\ session[s1].user = session[s2].user
            => s1 = s2 \/ session[s1].user \in crossed

(* A write of this tenant's status is under way. *)
StatusPending(t) ==
    \E r \in Requests : /\ call[r].tenant = t
                        /\ pc[r] \in {"status.checked", "create.checked", "create.committed",
                                      "register.committed", "resume.provisioned"}

DeletedForGood(t) == tenant[t] = "deleted" /\ ~StatusPending(t)

(* service.go:1231: deleted is final, once the requests that had read an   *)
(* earlier status are through.                                             *)
DeletedIsFinal == [][\A t \in Tenants : DeletedForGood(t) => DeletedForGood(t)']_vars

=============================================================================
