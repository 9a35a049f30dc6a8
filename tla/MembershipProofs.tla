--------------------------- MODULE MembershipProofs ---------------------------
(***************************************************************************)
(* What the identity control plane guarantees for every finite number of   *)
(* users and any number of tenants, sessions and requests in flight.       *)
(*                                                                         *)
(* Thirty-two of the actions are a move of a request outside the critical  *)
(* sections of Store.mu; they share one lemma, PlainMove.  The ten that    *)
(* take, use or release the mutex are treated one by one.                  *)
(*                                                                         *)
(* The last part follows the requests about one user's credentials, which  *)
(* no mutex keeps apart: what their overlap may spoil is recorded.         *)
(***************************************************************************)
EXTENDS Membership, FiniteSetTheorems, TLAPS

Value == Role \cup UserStatus \cup TenantStatus \cup {"none", "on", "off"}

(* TypeOK in parts, with what a label says of the call.                    *)
Tables == /\ status \in [Users -> UserStatus] /\ admin \in [Users -> BOOLEAN]
          /\ password \in [Users -> Nat] /\ weak \in [Users -> BOOLEAN]
          /\ tenant \in [Tenants -> TenantStatus]
          /\ role \in [Tenants -> [Users -> Role \cup {"none"}]]

SessionsTyped == /\ session \in [Sessions -> Session]
                 /\ \A s \in Sessions : session[s].live => session[s].user \in Users

Fits(label, c) == /\ label \in Credential => c.user \in Users
                  /\ label = "status.checked" => c.value \in {"active", "disabled"}
                  /\ label = "scoped" => c.by \in Users
                  /\ label \in {"scoped", "managing"} => c.home \in Tenants
                  /\ label = "admin.checked" => c.value \in {"on", "off"}
                  /\ label \in {"add.checked", "role.checked"} => c.value \in Role

Talks == /\ pc \in [Requests -> PC] /\ call \in [Requests -> Call] /\ calls \in Nat
         /\ \A r \in Requests : Fits(pc[r], call[r])

TypeInv == /\ Tables /\ SessionsTyped /\ Talks
           /\ mu \in Requests \cup {NoRequest} /\ crossed \subseteq Users

(* A checked request is about to take the administration from u.           *)
AdminThreatened(u) ==
    \E r \in Requests :
        /\ call[r].user = u
        /\ \/ pc[r] = "disable.checked"
           \/ pc[r] = "admin.checked" /\ call[r].value = "off"

AdminSafe == \E u \in Users : Administers(u) /\ ~AdminThreatened(u)

Inv == TypeInv /\ MuIsHeld /\ AdminSafe

(* What a step of r outside the mutex does to the owners and               *)
(* administrators, to the mutex, and to the other requests.                *)
Others(r) == \A q \in Requests \ {r} : pc'[q] = pc[q] /\ call'[q] = call[q]

Keeps == /\ \A u \in Users : Administers(u) => Administers(u)'
         /\ \A t \in Tenants, u \in Users : ~Gone(t) /\ Owns(t, u) => Owns(t, u)'

Calm(r) == pc[r] \notin Locked /\ pc'[r] \notin Locked /\ mu' = mu /\ Keeps

(* r is about to write the status of t. *)
Pending == {"status.checked", "create.checked", "create.committed",
            "register.committed", "resume.provisioned"}
IsPending(r, t) == call[r].tenant = t /\ pc[r] \in Pending

(* What r does to a deleted tenant, and what it will do to one. *)
Tidy(r, label, c) ==
    \A t \in Tenants :
        tenant[t] = "deleted" /\ ~IsPending(r, t) =>
            tenant'[t] = "deleted" /\ ~(label \in Pending /\ c.tenant = t)

TidyStep(r) == \A t \in Tenants : tenant[t] = "deleted" /\ ~IsPending(r, t) =>
                                      tenant'[t] = "deleted" /\ ~IsPending(r, t)'

Good(r) == TypeInv' /\ Others(r) /\ TidyStep(r)

-----------------------------------------------------------------------------
(* Calls. *)

LEMMA BlankIsCall == Blank \in Call /\ Blank.tenant = NoTenant
  BY DEF Blank, Call

LEMMA FieldsAreTyped ==
  ASSUME NEW c \in Call
  PROVE  /\ c.user \in Users \cup {NoUser} /\ c.by \in Users \cup {NoUser}
         /\ c.tenant \in Tenants \cup {NoTenant} /\ c.home \in Tenants \cup {NoTenant}
         /\ c.token \in Sessions \cup {NoSession}
         /\ c.value \in Value /\ c.password \in Nat /\ c.platform \in BOOLEAN
  BY DEF Call, Value

(* A call that is given another target or value is a call. *)
LEMMA UpdatesAreCalls ==
  ASSUME NEW c \in Call, NEW u \in Users, NEW t \in Tenants, NEW v \in Value,
         NEW p \in Nat, NEW b \in BOOLEAN
  PROVE  /\ [c EXCEPT !.tenant = t] \in Call
         /\ [c EXCEPT !.user = u] \in Call
         /\ [c EXCEPT !.user = u, !.password = p] \in Call
         /\ [c EXCEPT !.user = u, !.value = v] \in Call
         /\ [c EXCEPT !.tenant = t, !.value = v] \in Call
         /\ [c EXCEPT !.tenant = t, !.user = u] \in Call
         /\ [c EXCEPT !.tenant = t, !.user = u, !.value = v] \in Call
         /\ [c EXCEPT !.tenant = t, !.user = u, !.value = v, !.platform = b] \in Call
         /\ [c EXCEPT !.home = t, !.rank = "owner"] \in Call
         /\ [c EXCEPT !.user = u, !.tenant = t] \in Call
         /\ [c EXCEPT !.user = u, !.password = p, !.value = v] \in Call
<1>1. [c EXCEPT !.tenant = t] \in Call  BY DEF Call
<1>2. [c EXCEPT !.user = u] \in Call  BY DEF Call
<1>3. [c EXCEPT !.user = u, !.password = p] \in Call  BY DEF Call
<1>4. [c EXCEPT !.user = u, !.value = v] \in Call  BY DEF Call, Value
<1>5. [c EXCEPT !.tenant = t, !.value = v] \in Call  BY DEF Call, Value
<1>6. [c EXCEPT !.tenant = t, !.user = u] \in Call  BY DEF Call
<1>7. [c EXCEPT !.tenant = t, !.user = u, !.value = v] \in Call  BY DEF Call, Value
<1>8. [c EXCEPT !.tenant = t, !.user = u, !.value = v, !.platform = b] \in Call  BY DEF Call, Value
<1>9. [c EXCEPT !.home = t, !.rank = "owner"] \in Call  BY DEF Call, Role
<1>10. [c EXCEPT !.user = u, !.tenant = t] \in Call  BY DEF Call
<1>11. [c EXCEPT !.user = u, !.password = p, !.value = v] \in Call  BY DEF Call, Value
<1> QED  BY <1>1, <1>2, <1>3, <1>4, <1>5, <1>6, <1>7, <1>8, <1>9, <1>10, <1>11

(* What the scope of an authenticated request is. *)
LEMMA ScopeIsCall ==
  ASSUME TypeInv, NEW s \in Sessions, Usable(s)
  PROVE  Scope(s) \in Call /\ Scope(s).by \in Users /\ Scope(s).home \in Tenants
<1>1. /\ session[s].user \in Users /\ session[s].tenant \in Tenants
  BY DEF TypeInv, SessionsTyped, Usable, OpenTo
<1>2. /\ role[session[s].tenant][session[s].user] \in Role \cup {"none"}
      /\ admin[session[s].user] \in BOOLEAN
  BY <1>1 DEF TypeInv, Tables
<1> DEFINE c == [Blank EXCEPT !.by = session[s].user, !.home = session[s].tenant,
                              !.rank = role[session[s].tenant][session[s].user],
                              !.platform = admin[session[s].user], !.token = s]
<1>3. c \in Call /\ c.by \in Users /\ c.home \in Tenants
  BY <1>1, <1>2 DEF Blank, Call
<1> QED  BY <1>3 DEF Scope

-----------------------------------------------------------------------------
(* Moves. *)

LEMMA Move ==
  ASSUME TypeInv, NEW r \in Requests, NEW label \in PC, NEW c \in Call, Fits(label, c),
         Go(r, label, c) \/ Begin(r, label, c)
  PROVE  Talks' /\ pc'[r] = label /\ call'[r] = c /\ Others(r)
<1>1. /\ pc \in [Requests -> PC] /\ call \in [Requests -> Call] /\ calls \in Nat
      /\ \A q \in Requests : Fits(pc[q], call[q])
  BY DEF TypeInv, Talks
<1>2. calls' \in Nat  BY <1>1 DEF Go, Begin
<1>3. pc' = [pc EXCEPT ![r] = label] /\ call' = [call EXCEPT ![r] = c]  BY DEF Go, Begin
<1>4. /\ pc' \in [Requests -> PC] /\ call' \in [Requests -> Call]
      /\ pc'[r] = label /\ call'[r] = c /\ Others(r)
  BY <1>1, <1>3 DEF Others
<1>5. ASSUME NEW q \in Requests PROVE Fits(pc'[q], call'[q])
  <2>1. CASE q = r  BY <2>1, <1>4
  <2>2. CASE q # r  BY <2>2, <1>4, <1>1 DEF Others
  <2> QED  BY <2>1, <2>2
<1>6. (\A q \in Requests : Fits(pc[q], call[q]))'  BY <1>5 DEF Fits
<1> QED  BY <1>2, <1>4, <1>6 DEF Talks

(* A move outside the mutex is good and calm if what it writes is.         *)
LEMMA PlainMove ==
  ASSUME TypeInv, NEW r \in Requests, NEW label \in PC, NEW c \in Call, Fits(label, c),
         Go(r, label, c) \/ Begin(r, label, c),
         Tables', SessionsTyped', Keeps, mu' = mu, crossed' \subseteq Users,
         pc[r] \notin Locked, label \notin Locked, Tidy(r, label, c)
  PROVE  Good(r) /\ Calm(r)
<1>1. Talks' /\ pc'[r] = label /\ call'[r] = c /\ Others(r)  BY Move
<1>2. TypeInv'  BY <1>1 DEF TypeInv
<1>3. TidyStep(r)  BY <1>1 DEF Tidy, TidyStep, IsPending
<1>4. Calm(r)  BY <1>1 DEF Calm
<1> QED  BY <1>1, <1>2, <1>3, <1>4 DEF Good

(* The same for a move that writes neither tables nor sessions. *)
LEMMA QuietMove ==
  ASSUME TypeInv, NEW r \in Requests, NEW label \in PC, NEW c \in Call, Fits(label, c),
         Go(r, label, c) \/ Begin(r, label, c),
         UNCHANGED <<userVars, tenantVars, session, mu>>, crossed' \subseteq Users,
         pc[r] \notin Locked, label \notin Locked, Tidy(r, label, c)
  PROVE  Good(r) /\ Calm(r)
<1>1. Tables' /\ SessionsTyped'  BY DEF TypeInv, Tables, SessionsTyped, userVars, tenantVars
<1>2. Keeps  BY DEF Keeps, Administers, Gone, Owns, userVars, tenantVars
<1> QED  BY <1>1, <1>2, PlainMove

LEMMA RevokedAreTyped ==
  ASSUME SessionsTyped, NEW some, Revoke(some)
  PROVE  SessionsTyped'
  BY DEF SessionsTyped, Session, Revoke

(* The same for a move that revokes sessions. *)
LEMMA RevokingMove ==
  ASSUME TypeInv, NEW r \in Requests, NEW label \in PC, NEW c \in Call, Fits(label, c),
         Go(r, label, c), NEW some, Revoke(some),
         UNCHANGED <<userVars, tenantVars, mu, crossed>>,
         pc[r] \notin Locked, label \notin Locked, label \notin Pending
  PROVE  Good(r) /\ Calm(r)
<1>1. Tables' /\ SessionsTyped'  BY RevokedAreTyped DEF TypeInv, Tables, userVars, tenantVars
<1>2. Keeps  BY DEF Keeps, Administers, Gone, Owns, userVars, tenantVars
<1>3. Tidy(r, label, c)  BY DEF Tidy, tenantVars
<1>4. crossed' \subseteq Users  BY DEF TypeInv
<1> QED  BY <1>1, <1>2, <1>3, <1>4, PlainMove

(* A request about somebody's credentials remembers a user. *)
LEMMA CrossedAreUsers ==
  ASSUME TypeInv, NEW r \in Requests, NEW u \in Users, Cross(r, u)
  PROVE  crossed' \subseteq Users
  BY DEF TypeInv, Cross

-----------------------------------------------------------------------------
(* Accounts of one's own. *)

LEMMA OwnAccountMoves ==
  ASSUME TypeInv, NEW r \in Requests, OwnAccount(r)
  PROVE  Good(r) /\ Calm(r)
<1> DEFINE c == call[r]
<1>a. /\ c \in Call /\ Fits(pc[r], c)
      /\ Tables /\ SessionsTyped /\ crossed \subseteq Users
  BY DEF TypeInv, Talks
<1>b. Blank \in Call /\ Blank.tenant = NoTenant /\ Fits("idle", Blank) /\ "idle" \in PC \ Locked
  BY BlankIsCall DEF Fits, Credential, PC, Locked
<1>d. "none" \in Value /\ "on" \in Value /\ "off" \in Value  BY DEF Value
<1>1. ASSUME NEW u \in Users, NEW t \in Tenants, RegisterCommit(r, u, t) PROVE Good(r) /\ Calm(r)
  <2> DEFINE d == [Blank EXCEPT !.user = u, !.tenant = t]
  <2>1. d \in Call /\ d.user = u /\ d.tenant = t  BY <1>b, UpdatesAreCalls, <1>d DEF Blank
  <2>2. Begin(r, "register.committed", d) /\ pc[r] = "idle"  BY <1>1 DEF RegisterCommit, Begin
  <2>3. /\ Fits("register.committed", d) /\ "register.committed" \in PC \ Locked
        /\ pc[r] \notin Locked
    BY <2>1, <2>2 DEF Fits, Credential, PC, Locked
  <2>4. Tables'  BY <1>a, <1>1 DEF RegisterCommit, InsertUser, SetTenant, SetRole, Tables,
                                   UserStatus, TenantStatus, Role
  <2>5. SessionsTyped' /\ mu' = mu /\ crossed' \subseteq Users
    BY <1>a, <1>1 DEF RegisterCommit, SessionsTyped
  <2>6. Keeps  BY <1>a, <1>1 DEF RegisterCommit, InsertUser, SetTenant, SetRole, Keeps,
                                 Administers, Owns, Gone, Tables
  <2>7. Tidy(r, "register.committed", d)
    BY <1>a, <1>1, <2>1 DEF RegisterCommit, SetTenant, Tidy, Tables
  <2> QED  BY <2>1, <2>2, <2>3, <2>4, <2>5, <2>6, <2>7, PlainMove
<1>2. ASSUME NEW u \in Users, LoginVerify(r, u) PROVE Good(r) /\ Calm(r)
  <2> DEFINE v == IF weak[u] THEN "on" ELSE "off"
             d == [Blank EXCEPT !.user = u, !.password = password[u], !.value = v]
  <2>1. password[u] \in Nat /\ v \in Value  BY <1>a, <1>d DEF Tables
  <2>2. d \in Call /\ d.user = u  BY <2>1 DEF Blank, Call, Value
  <2>3. Begin(r, "login.verified", d) /\ pc[r] = "idle"  BY <1>2 DEF LoginVerify, Begin
  <2>4. /\ Fits("login.verified", d) /\ "login.verified" \in PC \ Locked
        /\ pc[r] \notin Locked
    BY <2>2, <2>3 DEF Fits, Credential, PC, Locked
  <2>5. crossed' \subseteq Users  BY <1>2, CrossedAreUsers DEF LoginVerify
  <2>6. UNCHANGED <<userVars, tenantVars, session, mu>>  BY <1>2 DEF LoginVerify
  <2>7. Tidy(r, "login.verified", d)  BY <2>6 DEF Tidy, Pending, tenantVars
  <2> QED  BY <2>2, <2>3, <2>4, <2>5, <2>6, <2>7, QuietMove
<1>3. ASSUME NEW s \in Sessions, LoginIssue(r, s) PROVE Good(r) /\ Calm(r)
  <2>1. pc[r] = "login.revoked" /\ c.user \in Users
    BY <1>a, <1>3 DEF LoginIssue, At, Fits, Credential
  <2>2. /\ Go(r, "idle", Blank) /\ pc[r] \notin Locked /\ mu' = mu /\ crossed' \subseteq Users
        /\ UNCHANGED <<userVars, tenantVars>>
    BY <1>a, <1>3, <2>1 DEF LoginIssue, Finish, Locked
  <2>3. Tables'  BY <1>a, <2>2 DEF Tables, userVars, tenantVars
  <2>4. SessionsTyped'
    <3>1. c.tenant \in Tenants \cup {NoTenant} /\ c.password \in Nat  BY <1>a, FieldsAreTyped
    <3>2. [user |-> c.user, tenant |-> c.tenant, live |-> TRUE, password |-> c.password] \in Session
      BY <2>1, <3>1 DEF Session
    <3> QED  BY <1>a, <1>3, <2>1, <3>2 DEF LoginIssue, SessionsTyped
  <2>5. Keeps  BY <2>2 DEF Keeps, Administers, Gone, Owns, userVars, tenantVars
  <2>6. Tidy(r, "idle", Blank)  BY <2>2 DEF Tidy, Pending, tenantVars
  <2> QED  BY <1>b, <2>2, <2>3, <2>4, <2>5, <2>6, PlainMove
<1>4. ASSUME NEW s \in Sessions, Authenticate(r, s) PROVE Good(r) /\ Calm(r)
  <2>1. Scope(s) \in Call /\ Scope(s).by \in Users /\ Scope(s).home \in Tenants
    BY <1>4, ScopeIsCall DEF Authenticate
  <2>2. /\ Begin(r, "scoped", Scope(s)) /\ pc[r] = "idle" /\ crossed' \subseteq Users
        /\ UNCHANGED <<userVars, tenantVars, session, mu>>
    BY <1>a, <1>4 DEF Authenticate, Begin
  <2>3. /\ Fits("scoped", Scope(s)) /\ "scoped" \in PC \ Locked /\ pc[r] \notin Locked
    BY <2>1, <2>2 DEF Fits, Credential, PC, Locked
  <2>4. Tidy(r, "scoped", Scope(s))  BY <2>2 DEF Tidy, Pending, tenantVars
  <2> QED  BY <2>1, <2>2, <2>3, <2>4, QuietMove
<1>5. ASSUME NEW t \in Tenants, SwitchCheck(r, t) PROVE Good(r) /\ Calm(r)
  <2> DEFINE d == [c EXCEPT !.tenant = t]
  <2>1. d \in Call  BY <1>a DEF Call
  <2>2. /\ Go(r, "switch.checked", d) /\ pc[r] = "scoped" /\ crossed' \subseteq Users
        /\ UNCHANGED <<userVars, tenantVars, session, mu>>
    BY <1>a, <1>5 DEF SwitchCheck, At
  <2>3. /\ Fits("switch.checked", d) /\ "switch.checked" \in PC \ Locked /\ pc[r] \notin Locked
    BY <2>2 DEF Fits, Credential, PC, Locked
  <2>4. Tidy(r, "switch.checked", d)  BY <2>2 DEF Tidy, Pending, tenantVars
  <2> QED  BY <2>1, <2>2, <2>3, <2>4, QuietMove
<1>6. CASE RegisterProvision(r)
  <2>1. /\ pc[r] = "register.committed" /\ pc[r] \notin Locked /\ c.user \in Users
        /\ SessionsTyped' /\ mu' = mu /\ crossed' \subseteq Users
    BY <1>a, <1>6 DEF RegisterProvision, At, Locked, Fits, Credential, SessionsTyped
  <2>2. Tables'  BY <1>a, <1>6 DEF RegisterProvision, SetTenant, Tables, TenantStatus, userVars
  <2>3. Keeps
    BY <1>a, <1>6 DEF RegisterProvision, SetTenant, userVars, Keeps, Administers, Owns
  <2>4. Fits("login.revoked", c) /\ "login.revoked" \in PC \ Locked
    BY <2>1 DEF Fits, PC, Credential, Locked
  <2>5. /\ Tidy(r, "login.revoked", c) /\ Tidy(r, "idle", Blank)
    BY <1>a, <1>6, <2>1 DEF RegisterProvision, SetTenant, Tidy, IsPending, Pending, Tables
  <2>6. CASE Go(r, "login.revoked", c)  BY <1>a, <2>1, <2>2, <2>3, <2>4, <2>5, <2>6, PlainMove
  <2>7. CASE Go(r, "idle", Blank)  BY <1>b, <2>1, <2>2, <2>3, <2>5, <2>7, PlainMove
  <2> QED  BY <1>6, <2>6, <2>7 DEF RegisterProvision, Finish
<1>7. CASE LoginHash(r)
  <2>1. /\ pc[r] = "login.verified" /\ pc[r] \notin Locked /\ c.user \in Users
        /\ SessionsTyped' /\ mu' = mu /\ crossed' \subseteq Users /\ UNCHANGED tenantVars
    BY <1>a, <1>7 DEF LoginHash, At, Locked, Fits, Credential, SessionsTyped
  <2>2. c.password \in Nat  BY <1>a, FieldsAreTyped
  <2>3. Tables'
    BY <1>a, <1>7, <2>1, <2>2 DEF LoginHash, SetPassword, Tables, userVars, tenantVars
  <2>4. Keeps
    BY <1>7, <2>1 DEF LoginHash, SetPassword, userVars, tenantVars, Keeps, Administers, Owns, Gone
  <2>5. ASSUME NEW t \in Tenants, Go(r, "login.hashed", [c EXCEPT !.tenant = t])
        PROVE  Good(r) /\ Calm(r)
    <3> DEFINE d == [c EXCEPT !.tenant = t]
    <3>1. d \in Call /\ d.user = c.user  BY <1>a DEF Call
    <3>2. Fits("login.hashed", d) /\ "login.hashed" \in PC \ Locked
      BY <2>1, <3>1 DEF Fits, PC, Credential, Locked
    <3>3. Tidy(r, "login.hashed", d)  BY <2>1 DEF Tidy, Pending, tenantVars
    <3> QED  BY <2>1, <2>3, <2>4, <2>5, <3>1, <3>2, <3>3, PlainMove
  <2>6. CASE Go(r, "idle", Blank)
    <3>1. Tidy(r, "idle", Blank)  BY <2>1 DEF Tidy, Pending, tenantVars
    <3> QED  BY <1>b, <2>1, <2>3, <2>4, <2>6, <3>1, PlainMove
  <2> QED  BY <1>7, <2>5, <2>6 DEF LoginHash, Finish, OpenTo
<1>8. CASE LoginRevoke(r)
  <2>1. /\ Go(r, "login.revoked", c) /\ pc[r] = "login.hashed" /\ c.user \in Users
        /\ UNCHANGED <<userVars, tenantVars, mu, crossed>>
        /\ Revoke({s \in Sessions : session[s].user = c.user /\ s # NoSession})
    BY <1>a, <1>8 DEF LoginRevoke, At, RevokeUser, Fits, Credential
  <2>2. /\ Fits("login.revoked", c) /\ "login.revoked" \in PC \ Locked
        /\ "login.revoked" \notin Pending /\ pc[r] \notin Locked
    BY <2>1 DEF Fits, PC, Credential, Locked, Pending
  <2> QED  BY <1>a, <2>1, <2>2, RevokingMove
<1>9. CASE Refused(r)
  <2>1. /\ Go(r, "idle", Blank) /\ pc[r] \notin Locked /\ crossed' \subseteq Users
        /\ UNCHANGED <<userVars, tenantVars, session, mu>>
    BY <1>a, <1>9 DEF Refused, Finish, Locked
  <2>2. Tidy(r, "idle", Blank)  BY <2>1 DEF Tidy, Pending, tenantVars
  <2> QED  BY <1>b, <2>1, <2>2, QuietMove
<1>10. CASE Logout(r)
  <2>1. /\ Go(r, "idle", Blank) /\ pc[r] \notin Locked /\ "idle" \notin Pending
        /\ UNCHANGED <<userVars, tenantVars, mu, crossed>> /\ Revoke({c.token})
    BY <1>10 DEF Logout, At, Finish, Locked, Pending
  <2> QED  BY <1>b, <2>1, RevokingMove
<1>11. CASE ChangeVerify(r)
  <2> DEFINE d == [c EXCEPT !.user = c.by, !.password = password[c.by]]
  <2>0. c.by \in Users /\ password[c.by] \in Nat
    BY <1>a, <1>11 DEF ChangeVerify, At, Fits, Tables
  <2>1. d \in Call /\ d.user \in Users  BY <1>a, <2>0 DEF Call
  <2>2. /\ Go(r, "password.verified", d) /\ pc[r] = "scoped"
        /\ UNCHANGED <<userVars, tenantVars, session, mu>>
    BY <1>11 DEF ChangeVerify, At
  <2>3. crossed' \subseteq Users  BY <1>11, <2>0, CrossedAreUsers DEF ChangeVerify
  <2>4. /\ Fits("password.verified", d) /\ "password.verified" \in PC \ Locked
        /\ pc[r] \notin Locked
    BY <2>1, <2>2 DEF Fits, Credential, PC, Locked
  <2>5. Tidy(r, "password.verified", d)  BY <2>2 DEF Tidy, Pending, tenantVars
  <2> QED  BY <2>1, <2>2, <2>3, <2>4, <2>5, QuietMove
<1>12. CASE ChangeWrite(r)
  <2>1. /\ Go(r, "password.written", c) /\ pc[r] = "password.verified" /\ c.user \in Users
        /\ mu' = mu /\ crossed' \subseteq Users /\ UNCHANGED tenantVars
    BY <1>a, <1>12 DEF ChangeWrite, At, Fits, Credential
  <2>2. password[c.user] + 1 \in Nat  BY <1>a, <2>1 DEF Tables
  <2>3. Tables'
    BY <1>a, <1>12, <2>1, <2>2 DEF ChangeWrite, SetPassword, Tables, tenantVars
  <2>4. SessionsTyped'  BY <1>a, <1>12, <2>2 DEF ChangeWrite, SessionsTyped, Session
  <2>5. Keeps
    BY <1>12, <2>1 DEF ChangeWrite, SetPassword, tenantVars, Keeps, Administers, Owns, Gone
  <2>6. /\ Fits("password.written", c) /\ "password.written" \in PC \ Locked
        /\ pc[r] \notin Locked
    BY <2>1 DEF Fits, Credential, PC, Locked
  <2>7. Tidy(r, "password.written", c)  BY <2>1 DEF Tidy, Pending, tenantVars
  <2> QED  BY <1>a, <2>1, <2>3, <2>4, <2>5, <2>6, <2>7, PlainMove
<1>13. CASE ChangeRevoke(r)
  <2>1. /\ Go(r, "idle", Blank) /\ pc[r] \notin Locked /\ "idle" \notin Pending
        /\ UNCHANGED <<userVars, tenantVars, mu, crossed>>
        /\ Revoke({s \in Sessions : session[s].user = c.user /\ s # c.token})
    BY <1>13 DEF ChangeRevoke, At, Finish, Locked, Pending, RevokeUser
  <2> QED  BY <1>b, <2>1, RevokingMove
<1>14. CASE SwitchWrite(r)
  <2>1. /\ Go(r, "idle", Blank) /\ pc[r] \notin Locked /\ mu' = mu /\ crossed' \subseteq Users
        /\ UNCHANGED <<userVars, tenantVars>>
    BY <1>a, <1>14 DEF SwitchWrite, At, Finish, Locked
  <2>2. Tables'  BY <1>a, <2>1 DEF Tables, userVars, tenantVars
  <2>3. c.tenant \in Tenants \cup {NoTenant}  BY <1>a, FieldsAreTyped
  <2>4. SessionsTyped'  BY <1>a, <1>14, <2>3 DEF SwitchWrite, SessionsTyped, Session
  <2>5. Keeps  BY <2>1 DEF Keeps, Administers, Gone, Owns, userVars, tenantVars
  <2>6. Tidy(r, "idle", Blank)  BY <2>1 DEF Tidy, Pending, tenantVars
  <2> QED  BY <1>b, <2>1, <2>2, <2>4, <2>5, <2>6, PlainMove
<1>15. CASE ResumeCheck(r)
  <2> DEFINE t == session[c.token].tenant
             d == [c EXCEPT !.tenant = t]
  <2>0. t \in Tenants  BY <1>15 DEF ResumeCheck, Usable, OpenTo
  <2>1. d \in Call /\ d.tenant = t  BY <1>a, <2>0 DEF Call
  <2>2. /\ Go(r, "resume.provisioned", d) /\ pc[r] = "scoped" /\ crossed' \subseteq Users
        /\ UNCHANGED <<userVars, tenantVars, session, mu>> /\ tenant[t] = "failed"
    BY <1>a, <1>15 DEF ResumeCheck, At
  <2>3. /\ Fits("resume.provisioned", d) /\ "resume.provisioned" \in PC \ Locked
        /\ pc[r] \notin Locked
    BY <2>2 DEF Fits, Credential, PC, Locked
  <2>4. Tidy(r, "resume.provisioned", d)  BY <2>1, <2>2 DEF Tidy, tenantVars
  <2> QED  BY <2>1, <2>2, <2>3, <2>4, QuietMove
<1>16. CASE ResumeWrite(r)
  <2>1. /\ Go(r, "idle", Blank) /\ pc[r] = "resume.provisioned" /\ pc[r] \notin Locked
        /\ mu' = mu /\ crossed' \subseteq Users /\ SessionsTyped' /\ UNCHANGED <<userVars, role>>
        /\ tenant' = [tenant EXCEPT ![c.tenant] = "active"] \/ tenant' = tenant
    BY <1>a, <1>16 DEF ResumeWrite, At, Finish, Locked, SetTenant, SessionsTyped
  <2>2. Tables'  BY <1>a, <2>1 DEF Tables, userVars, TenantStatus
  <2>3. Keeps  BY <2>1 DEF Keeps, Administers, Owns, userVars
  <2>4. Tidy(r, "idle", Blank)  BY <1>a, <2>1 DEF Tidy, IsPending, Pending, Tables
  <2> QED  BY <1>b, <2>1, <2>2, <2>3, <2>4, PlainMove
<1> QED
  BY <1>1, <1>2, <1>3, <1>4, <1>5, <1>6, <1>7, <1>8, <1>9, <1>10, <1>11, <1>12, <1>13,
     <1>14, <1>15, <1>16 DEF OwnAccount

-----------------------------------------------------------------------------
(* The platform administrator. *)

LEMMA WorkspaceMoves ==
  ASSUME TypeInv, NEW r \in Requests, Workspaces(r)
  PROVE  Good(r) /\ Calm(r)
<1> DEFINE c == call[r]
<1>a. /\ c \in Call /\ Fits(pc[r], c)
      /\ Tables /\ SessionsTyped /\ crossed \subseteq Users
  BY DEF TypeInv, Talks
<1>b. Blank \in Call /\ Blank.tenant = NoTenant /\ Fits("idle", Blank) /\ "idle" \in PC \ Locked
  BY BlankIsCall DEF Fits, Credential, PC, Locked
<1>1. ASSUME NEW t \in Tenants, NEW u \in Users, CreateTenantCheck(r, t, u)
      PROVE  Good(r) /\ Calm(r)
  <2> DEFINE d == [c EXCEPT !.tenant = t, !.user = u, !.value = status[u]]
  <2>1. status[u] \in Value  BY <1>a DEF Tables, Value
  <2>2. d \in Call /\ d.tenant = t
    <3>1. d \in Call  BY <1>a, <2>1, UpdatesAreCalls
    <3> QED  BY <1>a, <3>1 DEF Call
  <2>3. /\ Go(r, "create.checked", d) /\ pc[r] = "scoped" /\ crossed' \subseteq Users
        /\ UNCHANGED <<userVars, tenantVars, session, mu>> /\ tenant[t] = "absent"
    BY <1>a, <1>1 DEF CreateTenantCheck, Platform, At
  <2>4. Fits("create.checked", d) /\ "create.checked" \in PC \ Locked /\ pc[r] \notin Locked
    BY <2>3 DEF Fits, Credential, PC, Locked
  <2>5. Tidy(r, "create.checked", d)  BY <2>2, <2>3 DEF Tidy, tenantVars
  <2> QED  BY <2>2, <2>3, <2>4, <2>5, QuietMove
<1>2. ASSUME NEW t \in Tenants, NEW st \in {"active", "disabled"}, StatusCheck(r, t, st)
      PROVE  Good(r) /\ Calm(r)
  <2> DEFINE d == [c EXCEPT !.tenant = t, !.value = st]
  <2>1. st \in Value  BY DEF Value, TenantStatus
  <2>2. d \in Call /\ d.tenant = t /\ d.value = st
    <3>1. d \in Call  BY <1>a, <2>1 DEF Call, Value
    <3> QED  BY <1>a, <3>1 DEF Call
  <2>3. /\ Go(r, "status.checked", d) /\ pc[r] = "scoped" /\ crossed' \subseteq Users
        /\ UNCHANGED <<userVars, tenantVars, session, mu>> /\ tenant[t] # "deleted"
    BY <1>a, <1>2 DEF StatusCheck, Platform, At, Gone
  <2>4. Fits("status.checked", d) /\ "status.checked" \in PC \ Locked /\ pc[r] \notin Locked
    BY <2>2, <2>3 DEF Fits, Credential, PC, Locked
  <2>5. Tidy(r, "status.checked", d)  BY <2>2, <2>3 DEF Tidy, tenantVars
  <2> QED  BY <2>2, <2>3, <2>4, <2>5, QuietMove
<1>3. ASSUME NEW t \in Tenants, DeleteCheck(r, t) PROVE Good(r) /\ Calm(r)
  <2> DEFINE d == [c EXCEPT !.tenant = t]
  <2>1. d \in Call  BY <1>a DEF Call
  <2>2. /\ Go(r, "delete.checked", d) /\ pc[r] = "scoped" /\ crossed' \subseteq Users
        /\ UNCHANGED <<userVars, tenantVars, session, mu>>
    BY <1>a, <1>3 DEF DeleteCheck, Platform, At
  <2>3. Fits("delete.checked", d) /\ "delete.checked" \in PC \ Locked /\ pc[r] \notin Locked
    BY <2>2 DEF Fits, Credential, PC, Locked
  <2>4. Tidy(r, "delete.checked", d)  BY <2>2 DEF Tidy, Pending, tenantVars
  <2> QED  BY <2>1, <2>2, <2>3, <2>4, QuietMove
<1>4. CASE CreateTenantCommit(r)
  <2>1. /\ pc[r] = "create.checked" /\ pc[r] \notin Locked
        /\ SessionsTyped' /\ mu' = mu /\ crossed' \subseteq Users
    BY <1>a, <1>4 DEF CreateTenantCommit, At, Locked, SessionsTyped
  <2>2. CASE Go(r, "idle", Blank) /\ UNCHANGED <<userVars, tenantVars>>
    <3>1. Tidy(r, "idle", Blank)  BY <2>2 DEF Tidy, Pending, tenantVars
    <3>2. UNCHANGED session  BY <1>4 DEF CreateTenantCommit
    <3> QED  BY <1>b, <2>1, <2>2, <3>1, <3>2, QuietMove
  <2>3. CASE /\ tenant[c.tenant] = "absent"
             /\ InsertUser(c.user, FALSE) \/ UNCHANGED userVars
             /\ SetTenant(c.tenant, "provisioning") /\ SetRole(c.tenant, c.user, "owner")
             /\ Go(r, "create.committed", c)
    <3>1. Tables'  BY <1>a, <2>3 DEF Tables, InsertUser, SetTenant, SetRole, userVars,
                                     UserStatus, TenantStatus, Role
    <3>2. Keeps  BY <1>a, <2>3 DEF Tables, InsertUser, SetTenant, SetRole, userVars, Keeps,
                                   Administers, Owns, Gone
    <3>3. Tidy(r, "create.committed", c)  BY <1>a, <2>3 DEF Tidy, SetTenant, Tables
    <3>4. Fits("create.committed", c) /\ "create.committed" \in PC \ Locked
      BY DEF Fits, Credential, PC, Locked
    <3> QED  BY <1>a, <2>1, <2>3, <3>1, <3>2, <3>3, <3>4, PlainMove
  <2> QED  BY <1>4, <2>2, <2>3 DEF CreateTenantCommit, Finish
<1>5. CASE CreateTenantProvision(r)
  <2>1. /\ Go(r, "idle", Blank) /\ pc[r] = "create.committed" /\ pc[r] \notin Locked
        /\ mu' = mu /\ crossed' \subseteq Users /\ SessionsTyped' /\ UNCHANGED <<userVars, role>>
    BY <1>a, <1>5 DEF CreateTenantProvision, At, Finish, Locked, SessionsTyped
  <2>2. PICK st \in {"active", "failed"} : tenant' = [tenant EXCEPT ![c.tenant] = st]
    BY <1>5 DEF CreateTenantProvision, SetTenant
  <2>3. Tables'  BY <1>a, <2>1, <2>2 DEF Tables, userVars, TenantStatus
  <2>4. Keeps  BY <2>1 DEF Keeps, Administers, Owns, userVars
  <2>5. Tidy(r, "idle", Blank)  BY <1>a, <2>1, <2>2 DEF Tidy, IsPending, Pending, Tables
  <2> QED  BY <1>b, <2>1, <2>3, <2>4, <2>5, PlainMove
<1>6. CASE StatusWrite(r)
  <2>1. /\ pc[r] = "status.checked" /\ pc[r] \notin Locked /\ c.value \in {"active", "disabled"}
        /\ mu' = mu /\ crossed' \subseteq Users /\ SessionsTyped' /\ UNCHANGED <<userVars, role>>
        /\ tenant' = [tenant EXCEPT ![c.tenant] = c.value]
    BY <1>a, <1>6 DEF StatusWrite, At, Locked, SetTenant, SessionsTyped, Fits
  <2>2. Tables'  BY <1>a, <2>1 DEF Tables, userVars, TenantStatus
  <2>3. Keeps  BY <2>1 DEF Keeps, Administers, Owns, userVars
  <2>4. Tidy(r, "idle", Blank) /\ Tidy(r, "tenant.closing", c)
    BY <1>a, <2>1 DEF Tidy, IsPending, Pending, Tables
  <2>5. Fits("tenant.closing", c) /\ "tenant.closing" \in PC \ Locked
    BY DEF Fits, Credential, PC, Locked
  <2>6. CASE Go(r, "tenant.closing", c)  BY <1>a, <2>1, <2>2, <2>3, <2>4, <2>5, <2>6, PlainMove
  <2>7. CASE Go(r, "idle", Blank)  BY <1>b, <2>1, <2>2, <2>3, <2>4, <2>7, PlainMove
  <2> QED  BY <1>6, <2>6, <2>7 DEF StatusWrite, Finish
<1>7. CASE DeleteWrite(r)
  <2>1. /\ Go(r, "tenant.closing", c) /\ pc[r] = "delete.checked" /\ pc[r] \notin Locked
        /\ mu' = mu /\ crossed' \subseteq Users /\ SessionsTyped' /\ UNCHANGED <<userVars, role>>
        /\ tenant' = [tenant EXCEPT ![c.tenant] = "deleted"]
    BY <1>a, <1>7 DEF DeleteWrite, At, Locked, SetTenant, SessionsTyped
  <2>2. Tables'  BY <1>a, <2>1 DEF Tables, userVars, TenantStatus
  <2>3. Keeps  BY <2>1 DEF Keeps, Administers, Owns, userVars
  <2>4. Tidy(r, "tenant.closing", c)  BY <1>a, <2>1 DEF Tidy, Pending, Tables
  <2>5. Fits("tenant.closing", c) /\ "tenant.closing" \in PC \ Locked
    BY DEF Fits, Credential, PC, Locked
  <2> QED  BY <1>a, <2>1, <2>2, <2>3, <2>4, <2>5, PlainMove
<1>8. CASE TenantRevoke(r)
  <2>1. /\ Go(r, "idle", Blank) /\ pc[r] \notin Locked /\ "idle" \notin Pending
        /\ UNCHANGED <<userVars, tenantVars, mu, crossed>>
        /\ Revoke({s \in Sessions : session[s].tenant = c.tenant})
    BY <1>8 DEF TenantRevoke, At, Finish, Locked, Pending, RevokeTenant
  <2> QED  BY <1>b, <2>1, RevokingMove
<1> QED  BY <1>1, <1>2, <1>3, <1>4, <1>5, <1>6, <1>7, <1>8 DEF Workspaces

(* The moves outside the mutex, of the other two groups. *)
PlainAccounts(r) ==
    \/ \E u \in Users : \/ Enable(r, u) \/ ResetWrite(r, u)
                        \/ \E ro \in Role, plat \in BOOLEAN : CreateUserWrite(r, u, ro, plat)
    \/ \E t \in Tenants : CreateUserCheck(r, t) \/ AsOwnerOf(r, t)
    \/ \E u \in Users, ro \in Role : AddCheck(r, u, ro)
    \/ ResetRevoke(r) \/ AddWrite(r)

LEMMA PlainAccountMoves ==
  ASSUME TypeInv, NEW r \in Requests, PlainAccounts(r)
  PROVE  Good(r) /\ Calm(r)
<1> DEFINE c == call[r]
<1>a. /\ c \in Call /\ Fits(pc[r], c)
      /\ Tables /\ SessionsTyped /\ crossed \subseteq Users
  BY DEF TypeInv, Talks
<1>b. Blank \in Call /\ Blank.tenant = NoTenant /\ Fits("idle", Blank) /\ "idle" \in PC \ Locked
  BY BlankIsCall DEF Fits, Credential, PC, Locked
<1>1. ASSUME NEW u \in Users, Enable(r, u) PROVE Good(r) /\ Calm(r)
  <2>1. /\ Go(r, "idle", Blank) /\ pc[r] = "scoped" /\ pc[r] \notin Locked
        /\ mu' = mu /\ crossed' \subseteq Users /\ SessionsTyped'
        /\ UNCHANGED <<admin, password, weak, tenantVars>>
        /\ status' = [status EXCEPT ![u] = "active"]
    BY <1>a, <1>1 DEF Enable, Platform, At, Finish, Locked, SessionsTyped
  <2>2. Tables'  BY <1>a, <2>1 DEF Tables, tenantVars, UserStatus
  <2>3. Keeps  BY <1>a, <2>1 DEF Tables, Keeps, Administers, Owns, Gone, tenantVars
  <2>4. Tidy(r, "idle", Blank)  BY <2>1 DEF Tidy, Pending, tenantVars
  <2> QED  BY <1>b, <2>1, <2>2, <2>3, <2>4, PlainMove
<1>2. ASSUME NEW u \in Users, ResetWrite(r, u) PROVE Good(r) /\ Calm(r)
  <2> DEFINE d == [c EXCEPT !.user = u]
  <2>1. d \in Call /\ d.user = u  BY <1>a DEF Call
  <2>2. /\ Go(r, "reset.written", d) /\ pc[r] = "scoped" /\ pc[r] \notin Locked
        /\ mu' = mu /\ SessionsTyped' /\ UNCHANGED <<status, admin, tenantVars>>
        /\ password' = [password EXCEPT ![u] = password[u] + 1]
        /\ weak' = [weak EXCEPT ![u] = FALSE]
    BY <1>a, <1>2 DEF ResetWrite, SetPassword, Platform, At, Locked, SessionsTyped
  <2>3. crossed' \subseteq Users  BY <1>2, CrossedAreUsers DEF ResetWrite
  <2>4. Tables'  BY <1>a, <2>2 DEF Tables, tenantVars
  <2>5. Keeps  BY <2>2 DEF Keeps, Administers, Owns, Gone, tenantVars
  <2>6. Tidy(r, "reset.written", d)  BY <2>2 DEF Tidy, Pending, tenantVars
  <2>7. Fits("reset.written", d) /\ "reset.written" \in PC \ Locked
    BY <2>1 DEF Fits, Credential, PC, Locked
  <2> QED  BY <2>1, <2>2, <2>3, <2>4, <2>5, <2>6, <2>7, PlainMove
<1>3. ASSUME NEW u \in Users, NEW ro \in Role, NEW plat \in BOOLEAN, CreateUserWrite(r, u, ro, plat)
      PROVE  Good(r) /\ Calm(r)
  <2>1. /\ Go(r, "idle", Blank) /\ pc[r] = "user.checked" /\ pc[r] \notin Locked
        /\ mu' = mu /\ crossed' \subseteq Users /\ SessionsTyped' /\ tenant' = tenant
        /\ InsertUser(u, plat) /\ SetRole(c.tenant, u, ro)
    BY <1>a, <1>3 DEF CreateUserWrite, At, Finish, Locked, SessionsTyped
  <2>2. Tables'  BY <1>a, <2>1 DEF Tables, InsertUser, SetRole, UserStatus
  <2>3. Keeps
    BY <1>a, <2>1 DEF Tables, InsertUser, SetRole, Keeps, Administers, Owns, Gone
  <2>4. Tidy(r, "idle", Blank)  BY <2>1 DEF Tidy, Pending
  <2> QED  BY <1>b, <2>1, <2>2, <2>3, <2>4, PlainMove
<1>4. ASSUME NEW t \in Tenants, CreateUserCheck(r, t) PROVE Good(r) /\ Calm(r)
  <2> DEFINE d == [c EXCEPT !.tenant = t]
  <2>1. d \in Call  BY <1>a DEF Call
  <2>2. /\ Go(r, "user.checked", d) /\ pc[r] = "scoped" /\ crossed' \subseteq Users
        /\ UNCHANGED <<userVars, tenantVars, session, mu>>
    BY <1>a, <1>4 DEF CreateUserCheck, Platform, At
  <2>3. Fits("user.checked", d) /\ "user.checked" \in PC \ Locked /\ pc[r] \notin Locked
    BY <2>2 DEF Fits, Credential, PC, Locked
  <2>4. Tidy(r, "user.checked", d)  BY <2>2 DEF Tidy, Pending, tenantVars
  <2> QED  BY <2>1, <2>2, <2>3, <2>4, QuietMove
<1>5. ASSUME NEW t \in Tenants, AsOwnerOf(r, t) PROVE Good(r) /\ Calm(r)
  <2> DEFINE d == [c EXCEPT !.home = t, !.rank = "owner"]
  <2>1. d \in Call /\ d.home = t  BY <1>a DEF Call, Role
  <2>2. /\ Go(r, "managing", d) /\ pc[r] = "scoped" /\ crossed' \subseteq Users
        /\ UNCHANGED <<userVars, tenantVars, session, mu>>
    BY <1>a, <1>5 DEF AsOwnerOf, Platform, At
  <2>3. Fits("managing", d) /\ "managing" \in PC \ Locked /\ pc[r] \notin Locked
    BY <2>1, <2>2 DEF Fits, Credential, PC, Locked
  <2>4. Tidy(r, "managing", d)  BY <2>2 DEF Tidy, Pending, tenantVars
  <2> QED  BY <2>1, <2>2, <2>3, <2>4, QuietMove
<1>6. ASSUME NEW u \in Users, NEW ro \in Role, AddCheck(r, u, ro) PROVE Good(r) /\ Calm(r)
  <2> DEFINE d == [c EXCEPT !.tenant = c.home, !.user = u, !.value = ro,
                            !.platform = (status[u] = "absent")]
  <2>1. /\ Go(r, "add.checked", d) /\ pc[r] \in {"scoped", "managing"}
        /\ pc[r] \notin Locked /\ crossed' \subseteq Users
        /\ UNCHANGED <<userVars, tenantVars, session, mu>>
    BY <1>a, <1>6 DEF AddCheck, Manages, Locked
  <2>2. c.home \in Tenants /\ ro \in Value  BY <1>a, <2>1 DEF Fits, Value
  <2>3. d \in Call
    <3>1. (status[u] = "absent") \in BOOLEAN  OBVIOUS
    <3> QED  BY <1>a, <2>2, <3>1, UpdatesAreCalls
  <2>4. d.value = ro  BY <1>a DEF Call
  <2>5. Fits("add.checked", d) /\ "add.checked" \in PC \ Locked
    BY <2>4 DEF Fits, Credential, PC, Locked
  <2>6. Tidy(r, "add.checked", d)  BY <2>1 DEF Tidy, Pending, tenantVars
  <2> QED  BY <2>1, <2>3, <2>5, <2>6, QuietMove
<1>7. CASE ResetRevoke(r)
  <2>1. /\ Go(r, "idle", Blank) /\ pc[r] \notin Locked /\ "idle" \notin Pending
        /\ UNCHANGED <<userVars, tenantVars, mu, crossed>>
        /\ Revoke({s \in Sessions : session[s].user = c.user /\ s # NoSession})
    BY <1>7 DEF ResetRevoke, At, Finish, Locked, Pending, RevokeUser
  <2> QED  BY <1>b, <2>1, RevokingMove
<1>8. CASE AddWrite(r)
  <2>1. /\ Go(r, "idle", Blank) /\ pc[r] = "add.checked" /\ pc[r] \notin Locked
        /\ mu' = mu /\ crossed' \subseteq Users /\ SessionsTyped' /\ tenant' = tenant
        /\ c.value \in Role
    BY <1>a, <1>8 DEF AddWrite, At, Finish, Locked, SessionsTyped, Fits
  <2>2. Tidy(r, "idle", Blank)  BY <2>1 DEF Tidy, Pending
  <2>3. CASE UNCHANGED <<userVars, role>>
    <3>1. Tables'  BY <1>a, <2>1, <2>3 DEF Tables, userVars
    <3>2. Keeps  BY <2>1, <2>3 DEF Keeps, Administers, Owns, Gone, userVars
    <3> QED  BY <1>b, <2>1, <2>2, <3>1, <3>2, PlainMove
  <2>4. CASE /\ SetRole(c.tenant, c.user, c.value)
             /\ \/ status[c.user] = "absent" /\ InsertUser(c.user, FALSE)
                \/ role[c.tenant][c.user] = "none" /\ UNCHANGED userVars
    <3>1. Tables'
      BY <1>a, <2>1, <2>4 DEF Tables, InsertUser, SetRole, userVars, UserStatus
    <3>2. Keeps
      BY <1>a, <2>1, <2>4 DEF Tables, InsertUser, SetRole, userVars, Keeps, Administers, Owns, Gone
    <3> QED  BY <1>b, <2>1, <2>2, <3>1, <3>2, PlainMove
  <2> QED  BY <1>8, <2>3, <2>4 DEF AddWrite
<1> QED  BY <1>1, <1>2, <1>3, <1>4, <1>5, <1>6, <1>7, <1>8 DEF PlainAccounts

-----------------------------------------------------------------------------
(* The critical sections of Store.mu. *)

LEMMA AnotherOne ==
  ASSUME NEW S \in SUBSET Users, Cardinality(S) > 1, NEW u
  PROVE  \E y \in S : y # u
<1>1. IsFiniteSet(S)  BY UsersAreFinite, FS_Subset
<1>2. Cardinality({}) = 0 /\ Cardinality({u}) = 1  BY FS_EmptySet, FS_Singleton
<1>3. SUFFICES ASSUME \A y \in S : y = u PROVE FALSE  OBVIOUS
<1>4. S = {} \/ S = {u}  BY <1>3
<1> QED  BY <1>2, <1>4

(* Each tenant that is not gone keeps an owner nobody is about to take away. *)
OwnersKept == \A t \in Tenants : ~Gone(t) /\ SafeOwner(t) /\ ~Gone(t)' => SafeOwner(t)'

(* r takes the mutex, or has it and keeps or releases it: then no other    *)
(* request threatens anybody, before or after.                             *)
LEMMA MutexMove ==
  ASSUME Inv, NEW r \in Requests, NEW label \in PC, NEW c \in Call, Fits(label, c),
         Go(r, label, c), Tables', SessionsTyped',
         UNCHANGED <<crossed, tenant>>, label \notin Pending,
         mu = IF pc[r] \in Locked THEN r ELSE NoRequest,
         mu' = IF label \in Locked THEN r ELSE NoRequest
  PROVE  /\ Good(r) /\ MuIsHeld'
         /\ \A u : AdminThreatened(u) <=>
                   /\ call[r].user = u
                   /\ pc[r] = "disable.checked" \/ (pc[r] = "admin.checked" /\ call[r].value = "off")
         /\ \A u : AdminThreatened(u)' <=>
                   /\ c.user = u
                   /\ label = "disable.checked" \/ (label = "admin.checked" /\ c.value = "off")
         /\ \A t, u : Threatened(t, u) <=>
                   /\ call[r].user = u
                   /\ \/ pc[r] = "disable.checked"
                      \/ pc[r] = "role.checked" /\ call[r].tenant = t /\ call[r].value # "owner"
                      \/ pc[r] = "remove.checked" /\ call[r].tenant = t
         /\ \A t, u : Threatened(t, u)' <=>
                   /\ c.user = u
                   /\ \/ label = "disable.checked"
                      \/ label = "role.checked" /\ c.tenant = t /\ c.value # "owner"
                      \/ label = "remove.checked" /\ c.tenant = t
<1>1. Talks' /\ pc'[r] = label /\ call'[r] = c /\ Others(r)  BY Move DEF Inv
<1>2. mu' \in Requests \cup {NoRequest} /\ crossed' \subseteq Users  BY DEF Inv, TypeInv
<1>3. TypeInv'  BY <1>1, <1>2 DEF TypeInv
<1>4. TidyStep(r)  BY <1>1 DEF TidyStep, IsPending
<1>5. \A q \in Requests \ {r} : pc[q] \notin Locked /\ pc'[q] \notin Locked
  <2>1. \A q \in Requests : pc[q] \in Locked <=> mu = q  BY DEF Inv, MuIsHeld
  <2>2. \A q \in Requests \ {r} : mu # q  BY NothingIsNew
  <2> QED  BY <1>1, <2>1, <2>2 DEF Others
<1>6. MuIsHeld'
  <2>1. \A q \in Requests : pc'[q] \in Locked <=> mu' = q
    BY <1>1, <1>5, NothingIsNew
  <2> QED  BY <2>1 DEF MuIsHeld
<1>7. \A q \in Requests \ {r} :
        /\ pc[q] # "disable.checked" /\ pc[q] # "admin.checked"
        /\ pc[q] # "role.checked" /\ pc[q] # "remove.checked"
        /\ pc'[q] # "disable.checked" /\ pc'[q] # "admin.checked"
        /\ pc'[q] # "role.checked" /\ pc'[q] # "remove.checked"
  BY <1>5 DEF Locked
<1>8. ASSUME NEW u
      PROVE  /\ AdminThreatened(u) <=>
                   /\ call[r].user = u
                   /\ pc[r] = "disable.checked" \/ (pc[r] = "admin.checked" /\ call[r].value = "off")
             /\ AdminThreatened(u)' <=>
                   /\ c.user = u
                   /\ label = "disable.checked" \/ (label = "admin.checked" /\ c.value = "off")
  BY <1>1, <1>7 DEF AdminThreatened
<1>9. ASSUME NEW t, NEW u
      PROVE  /\ Threatened(t, u) <=>
                   /\ call[r].user = u
                   /\ \/ pc[r] = "disable.checked"
                      \/ pc[r] = "role.checked" /\ call[r].tenant = t /\ call[r].value # "owner"
                      \/ pc[r] = "remove.checked" /\ call[r].tenant = t
             /\ Threatened(t, u)' <=>
                   /\ c.user = u
                   /\ \/ label = "disable.checked"
                      \/ label = "role.checked" /\ c.tenant = t /\ c.value # "owner"
                      \/ label = "remove.checked" /\ c.tenant = t
  BY <1>1, <1>7 DEF Threatened
<1> QED  BY <1>1, <1>3, <1>4, <1>6, <1>8, <1>9 DEF Good

(* Taking the mutex and checking, the tables being left alone. *)
LEMMA CheckMove ==
  ASSUME Inv, NEW r \in Requests, NEW label \in Locked, NEW c \in Call, Fits(label, c),
         Go(r, label, c), Lock(r), pc[r] \notin Locked,
         UNCHANGED <<userVars, tenantVars, session, crossed>>,
         label = "disable.checked" \/ (label = "admin.checked" /\ c.value = "off")
            => \E y \in Users : Administers(y) /\ y # c.user,
         \A t \in Tenants :
            /\ ~Gone(t) /\ \E y \in Users : Owns(t, y)
            /\ \/ label = "disable.checked"
               \/ label = "role.checked" /\ c.tenant = t /\ c.value # "owner"
               \/ label = "remove.checked" /\ c.tenant = t
            => \E y \in Users : Owns(t, y) /\ y # c.user
  PROVE  Good(r) /\ MuIsHeld' /\ AdminSafe' /\ OwnersKept
<1>1. Tables' /\ SessionsTyped'
  BY DEF Inv, TypeInv, Tables, SessionsTyped, userVars, tenantVars
<1>2. /\ label \in PC /\ label \notin Pending
      /\ mu = IF pc[r] \in Locked THEN r ELSE NoRequest
      /\ mu' = IF label \in Locked THEN r ELSE NoRequest
      /\ UNCHANGED <<crossed, tenant>>
  BY DEF Locked, Pending, PC, Lock, tenantVars
<1>3. /\ Good(r) /\ MuIsHeld'
      /\ \A u : AdminThreatened(u)' <=>
                /\ c.user = u
                /\ label = "disable.checked" \/ (label = "admin.checked" /\ c.value = "off")
      /\ \A t, u : Threatened(t, u)' <=>
                /\ c.user = u
                /\ \/ label = "disable.checked"
                   \/ label = "role.checked" /\ c.tenant = t /\ c.value # "owner"
                   \/ label = "remove.checked" /\ c.tenant = t
  BY <1>1, <1>2, MutexMove
<1>4. /\ \A u \in Users : Administers(u)' <=> Administers(u)
      /\ \A t \in Tenants, u \in Users : Owns(t, u)' <=> Owns(t, u)
  BY DEF Administers, Owns, userVars, tenantVars
<1>5. AdminSafe'
  <2>1. \E y \in Users : Administers(y)  BY DEF Inv, AdminSafe
  <2>2. \E y \in Users : Administers(y)' /\ ~AdminThreatened(y)'  BY <1>3, <1>4, <2>1
  <2> QED  BY <2>2 DEF AdminSafe
<1>6. OwnersKept
  <2>1. SUFFICES ASSUME NEW t \in Tenants, ~Gone(t), SafeOwner(t) PROVE SafeOwner(t)'
    BY DEF OwnersKept
  <2>2. \E y \in Users : Owns(t, y)  BY <2>1 DEF SafeOwner
  <2>3. \E y \in Users : Owns(t, y)' /\ ~Threatened(t, y)'  BY <1>3, <1>4, <2>1, <2>2
  <2> QED  BY <2>3 DEF SafeOwner
<1> QED  BY <1>3, <1>5, <1>6

(* Writing or leaving: whoever was not threatened stays what he was, and   *)
(* afterwards nobody is threatened.                                        *)
LEMMA WriteMove ==
  ASSUME Inv, NEW r \in Requests, NEW label \in PC, NEW c \in Call, Fits(label, c),
         Go(r, label, c), Tables', SessionsTyped',
         UNCHANGED <<crossed, tenant>>, pc[r] \in Locked,
         label \in {"idle", "disable.written", "remove.written"},
         mu' = IF label = "idle" THEN NoRequest ELSE r,
         \A u \in Users :
            Administers(u) /\ ~( /\ call[r].user = u
                                 /\ \/ pc[r] = "disable.checked"
                                    \/ pc[r] = "admin.checked" /\ call[r].value = "off")
            => Administers(u)',
         \A t \in Tenants, u \in Users :
            Owns(t, u) /\ ~( /\ call[r].user = u
                             /\ \/ pc[r] = "disable.checked"
                                \/ /\ pc[r] = "role.checked" /\ call[r].tenant = t
                                   /\ call[r].value # "owner"
                                \/ pc[r] = "remove.checked" /\ call[r].tenant = t)
            => Owns(t, u)'
  PROVE  Good(r) /\ MuIsHeld' /\ AdminSafe' /\ OwnersKept
<1>1. label \notin Pending /\ mu' = IF label \in Locked THEN r ELSE NoRequest
  BY DEF Locked, Pending
<1>2. mu = IF pc[r] \in Locked THEN r ELSE NoRequest  BY DEF Inv, MuIsHeld
<1>3. /\ Good(r) /\ MuIsHeld'
      /\ \A u : AdminThreatened(u) <=>
                /\ call[r].user = u
                /\ pc[r] = "disable.checked" \/ (pc[r] = "admin.checked" /\ call[r].value = "off")
      /\ \A u : ~AdminThreatened(u)'
      /\ \A t, u : Threatened(t, u) <=>
                /\ call[r].user = u
                /\ \/ pc[r] = "disable.checked"
                   \/ pc[r] = "role.checked" /\ call[r].tenant = t /\ call[r].value # "owner"
                   \/ pc[r] = "remove.checked" /\ call[r].tenant = t
      /\ \A t, u : ~Threatened(t, u)'
  BY <1>1, <1>2, MutexMove
<1>4. \A u \in Users : Administers(u) /\ ~AdminThreatened(u) => Administers(u)'  BY <1>3
<1>5. \A t \in Tenants, u \in Users : Owns(t, u) /\ ~Threatened(t, u) => Owns(t, u)'  BY <1>3
<1>6. AdminSafe'
  <2>1. PICK y \in Users : Administers(y) /\ ~AdminThreatened(y)  BY DEF Inv, AdminSafe
  <2>2. Administers(y)' /\ ~AdminThreatened(y)'  BY <1>3, <1>4, <2>1
  <2> QED  BY <2>2 DEF AdminSafe
<1>7. OwnersKept
  <2>1. SUFFICES ASSUME NEW t \in Tenants, SafeOwner(t) PROVE SafeOwner(t)'  BY DEF OwnersKept
  <2>2. PICK y \in Users : Owns(t, y) /\ ~Threatened(t, y)  BY <2>1 DEF SafeOwner
  <2>3. Owns(t, y)' /\ ~Threatened(t, y)'  BY <1>3, <1>5, <2>2
  <2> QED  BY <2>3 DEF SafeOwner
<1> QED  BY <1>3, <1>6, <1>7

LEMMA DisableSection ==
  ASSUME Inv, NEW r \in Requests,
         \/ \E u \in Users : DisableCheck(r, u)
         \/ DisableWrite(r) \/ DisableRevoke(r)
  PROVE  Good(r) /\ MuIsHeld' /\ AdminSafe' /\ OwnersKept
<1> DEFINE c == call[r]
<1>a. c \in Call /\ Fits(pc[r], c) /\ Tables /\ SessionsTyped  BY DEF Inv, TypeInv, Talks
<1>1. ASSUME NEW u \in Users, DisableCheck(r, u)
      PROVE  Good(r) /\ MuIsHeld' /\ AdminSafe' /\ OwnersKept
  <2> DEFINE d == [c EXCEPT !.user = u]
  <2>1. d \in Call /\ d.user = u  BY <1>a DEF Call
  <2>2. /\ Go(r, "disable.checked", d) /\ Lock(r) /\ pc[r] \notin Locked
        /\ UNCHANGED <<userVars, tenantVars, session, crossed>> /\ CanBeDisabled(u)
    BY <1>1 DEF DisableCheck, Platform, At, Locked
  <2>3. Fits("disable.checked", d) /\ "disable.checked" \in Locked
    BY DEF Fits, Credential, Locked
  <2>4. \E y \in Users : Administers(y) /\ y # u
    <3>1. CASE Administers(u)
      <4>1. \E y \in PlatformAdmins : y # u
        BY <2>2, <3>1, AnotherOne DEF CanBeDisabled, Administers, PlatformAdmins
      <4> QED  BY <4>1 DEF PlatformAdmins
    <3>2. CASE ~Administers(u)  BY <3>2 DEF Inv, AdminSafe
    <3> QED  BY <3>1, <3>2
  <2>5. ASSUME NEW t \in Tenants, ~Gone(t), NEW x \in Users, Owns(t, x)
        PROVE  \E y \in Users : Owns(t, y) /\ y # u
    <3>1. CASE Owns(t, u)
      <4>1. Cardinality(OwnersOf(t)) > 1  BY <2>2, <2>5, <3>1 DEF CanBeDisabled, Owns
      <4>2. OwnersOf(t) \in SUBSET Users  BY DEF OwnersOf
      <4>3. \E y \in OwnersOf(t) : y # u  BY <4>1, <4>2, AnotherOne
      <4> QED  BY <4>3 DEF OwnersOf
    <3>2. CASE ~Owns(t, u)  BY <2>5, <3>2
    <3> QED  BY <3>1, <3>2
  <2> QED  BY <2>1, <2>2, <2>3, <2>4, <2>5, CheckMove
<1>2. CASE DisableWrite(r)
  <2>1. /\ Go(r, "disable.written", c) /\ pc[r] = "disable.checked" /\ pc[r] \in Locked
        /\ UNCHANGED <<crossed, tenant, role, admin, password, weak, session, mu>>
        /\ status' = [status EXCEPT ![c.user] = "disabled"]
    BY <1>2 DEF DisableWrite, At, Locked, tenantVars
  <2>2. /\ Fits("disable.written", c) /\ "disable.written" \in PC
    BY DEF Fits, Credential, PC, Locked
  <2>3. Tables' /\ SessionsTyped'
    BY <1>a, <2>1 DEF Tables, SessionsTyped, UserStatus
  <2>4. mu' = r  BY <2>1 DEF Inv, MuIsHeld
  <2>5. \A u \in Users : Administers(u) /\ c.user # u => Administers(u)'
    BY <1>a, <2>1 DEF Administers, Tables
  <2>6. \A t \in Tenants, u \in Users : Owns(t, u) /\ c.user # u => Owns(t, u)'
    BY <1>a, <2>1 DEF Owns, Tables
  <2> QED  BY <1>a, <2>1, <2>2, <2>3, <2>4, <2>5, <2>6, WriteMove
<1>3. CASE DisableRevoke(r)
  <2>1. /\ Go(r, "idle", Blank) /\ pc[r] \in Locked /\ mu' = NoRequest
        /\ UNCHANGED <<crossed, tenant, role, userVars>>
        /\ Revoke({s \in Sessions : session[s].user = c.user /\ s # NoSession})
    BY <1>3 DEF DisableRevoke, At, Locked, Unlock, Finish, RevokeUser, tenantVars
  <2>2. /\ Fits("idle", Blank) /\ "idle" \in PC /\ Blank \in Call
    BY BlankIsCall DEF Fits, Credential, PC, Locked
  <2>3. Tables' /\ SessionsTyped'  BY <1>a, <2>1, RevokedAreTyped DEF Tables, userVars
  <2>4. \A u \in Users : Administers(u) => Administers(u)'
    BY <2>1 DEF Administers, userVars
  <2>5. \A t \in Tenants, u \in Users : Owns(t, u) => Owns(t, u)'  BY <2>1 DEF Owns, userVars
  <2> QED  BY <2>1, <2>2, <2>3, <2>4, <2>5, WriteMove
<1> QED  BY <1>1, <1>2, <1>3

LEMMA AdminSection ==
  ASSUME Inv, NEW r \in Requests,
         (\E u \in Users, on \in BOOLEAN : AdminCheck(r, u, on)) \/ AdminWrite(r)
  PROVE  Good(r) /\ MuIsHeld' /\ AdminSafe' /\ OwnersKept
<1> DEFINE c == call[r]
<1>a. c \in Call /\ Fits(pc[r], c) /\ Tables /\ SessionsTyped  BY DEF Inv, TypeInv, Talks
<1>1. ASSUME NEW u \in Users, NEW on \in BOOLEAN, AdminCheck(r, u, on)
      PROVE  Good(r) /\ MuIsHeld' /\ AdminSafe' /\ OwnersKept
  <2> DEFINE v == IF on THEN "on" ELSE "off"
             d == [c EXCEPT !.user = u, !.value = v]
  <2>1. d \in Call /\ d.user = u /\ d.value = v  BY <1>a DEF Call
  <2>2. /\ Go(r, "admin.checked", d) /\ Lock(r) /\ pc[r] \notin Locked
        /\ UNCHANGED <<userVars, tenantVars, session, crossed>>
        /\ (~on /\ admin[u]) => Cardinality(PlatformAdmins) > 1
    BY <1>1 DEF AdminCheck, Platform, At, Locked
  <2>3. Fits("admin.checked", d) /\ "admin.checked" \in Locked
    BY <2>1 DEF Fits, Credential, Locked
  <2>4. v = "off" => \E y \in Users : Administers(y) /\ y # u
    <3>1. CASE Administers(u)
      <4>1. v = "off" => \E y \in PlatformAdmins : y # u
        BY <2>2, <3>1, AnotherOne DEF Administers, PlatformAdmins
      <4> QED  BY <4>1 DEF PlatformAdmins
    <3>2. CASE ~Administers(u)  BY <3>2 DEF Inv, AdminSafe
    <3> QED  BY <3>1, <3>2
  <2> QED  BY <2>1, <2>2, <2>3, <2>4, CheckMove
<1>2. CASE AdminWrite(r)
  <2>1. /\ Go(r, "idle", Blank) /\ pc[r] = "admin.checked" /\ pc[r] \in Locked /\ mu' = NoRequest
        /\ UNCHANGED <<crossed, tenant, role, status, password, weak, session>>
        /\ admin' = [admin EXCEPT ![c.user] = (c.value = "on")] /\ c.value \in {"on", "off"}
    BY <1>a, <1>2 DEF AdminWrite, At, Locked, Unlock, Finish, tenantVars, Fits
  <2>2. /\ Fits("idle", Blank) /\ "idle" \in PC /\ Blank \in Call
    BY BlankIsCall DEF Fits, Credential, PC, Locked
  <2>3. SessionsTyped'  BY <1>a, <2>1 DEF SessionsTyped
  <2>4. Tables'
    <3>1. (c.value = "on") \in BOOLEAN  OBVIOUS
    <3>2. admin' \in [Users -> BOOLEAN]  BY <1>a, <2>1, <3>1, Zenon DEF Tables
    <3> QED  BY <1>a, <2>1, <3>2 DEF Tables
  <2>5. \A u \in Users : Administers(u) /\ ~(c.user = u /\ c.value = "off") => Administers(u)'
    BY <1>a, <2>1 DEF Administers, Tables
  <2>6. \A t \in Tenants, u \in Users : Owns(t, u) => Owns(t, u)'  BY <2>1 DEF Owns
  <2> QED  BY <2>1, <2>2, <2>3, <2>4, <2>5, <2>6, WriteMove
<1> QED  BY <1>1, <1>2

LEMMA RoleSection ==
  ASSUME Inv, NEW r \in Requests,
         \/ \E u \in Users, ro \in Role : SetRoleCheck(r, u, ro)
         \/ SetRoleWrite(r)
  PROVE  Good(r) /\ MuIsHeld' /\ AdminSafe' /\ OwnersKept
<1> DEFINE c == call[r]
<1>a. c \in Call /\ Fits(pc[r], c) /\ Tables /\ SessionsTyped  BY DEF Inv, TypeInv, Talks
<1>1. ASSUME NEW u \in Users, NEW ro \in Role, SetRoleCheck(r, u, ro)
      PROVE  Good(r) /\ MuIsHeld' /\ AdminSafe' /\ OwnersKept
  <2> DEFINE h == c.home
             d == [c EXCEPT !.tenant = h, !.user = u, !.value = ro]
  <2>1. /\ Go(r, "role.checked", d) /\ Lock(r) /\ pc[r] \in {"scoped", "managing"}
        /\ pc[r] \notin Locked /\ UNCHANGED <<userVars, tenantVars, session, crossed>>
        /\ role[h][u] = "owner" /\ ro # "owner" => Cardinality(OwnersOf(h)) > 1
    BY <1>1 DEF SetRoleCheck, Manages, Locked
  <2>2. h \in Tenants  BY <1>a, <2>1 DEF Fits
  <2>3. d \in Call
    <3>1. ro \in Value  BY DEF Value
    <3> QED  BY <1>a, <2>2, <3>1, UpdatesAreCalls
  <2>4. d.user = u /\ d.value = ro /\ d.tenant = h  BY <1>a DEF Call
  <2>5. Fits("role.checked", d) /\ "role.checked" \in Locked
    BY <2>4 DEF Fits, Credential, Locked
  <2>6. ASSUME NEW x \in Users, Owns(h, x), ro # "owner"
        PROVE  \E y \in Users : Owns(h, y) /\ y # u
    <3>1. CASE Owns(h, u)
      <4>1. \E y \in OwnersOf(h) : y # u
        BY <2>1, <2>6, <3>1, AnotherOne DEF Owns, OwnersOf
      <4> QED  BY <4>1 DEF OwnersOf
    <3>2. CASE ~Owns(h, u)  BY <2>6, <3>2
    <3> QED  BY <3>1, <3>2
  <2>7. \A t \in Tenants :
          (\E x \in Users : Owns(t, x)) /\ d.tenant = t /\ d.value # "owner"
             => \E y \in Users : Owns(t, y) /\ y # d.user
    BY <2>4, <2>6
  <2>8. "role.checked" # "admin.checked" /\ "role.checked" # "disable.checked"
        /\ "role.checked" # "remove.checked"
    OBVIOUS
  <2> HIDE DEF d
  <2> QED  BY <2>1, <2>3, <2>5, <2>7, <2>8, CheckMove
<1>2. CASE SetRoleWrite(r)
  <2>1. /\ Go(r, "idle", Blank) /\ pc[r] = "role.checked" /\ pc[r] \in Locked /\ mu' = NoRequest
        /\ UNCHANGED <<crossed, tenant, userVars, session>> /\ c.value \in Role
        /\ role' = [role EXCEPT ![c.tenant][c.user] = c.value]
    BY <1>a, <1>2 DEF SetRoleWrite, SetRole, At, Locked, Unlock, Finish, Fits
  <2>2. /\ Fits("idle", Blank) /\ "idle" \in PC /\ Blank \in Call
    BY BlankIsCall DEF Fits, Credential, PC, Locked
  <2>3. Tables' /\ SessionsTyped'  BY <1>a, <2>1 DEF Tables, SessionsTyped, userVars
  <2>4. \A u \in Users : Administers(u) => Administers(u)'  BY <2>1 DEF Administers, userVars
  <2>5. \A t \in Tenants, u \in Users :
          Owns(t, u) /\ ~(c.user = u /\ c.tenant = t /\ c.value # "owner") => Owns(t, u)'
    BY <1>a, <2>1 DEF Owns, Tables, userVars
  <2> QED  BY <2>1, <2>2, <2>3, <2>4, <2>5, WriteMove
<1> QED  BY <1>1, <1>2

LEMMA RemoveSection ==
  ASSUME Inv, NEW r \in Requests,
         \/ \E u \in Users : RemoveCheck(r, u)
         \/ RemoveWrite(r) \/ RemoveRevoke(r)
  PROVE  Good(r) /\ MuIsHeld' /\ AdminSafe' /\ OwnersKept
<1> DEFINE c == call[r]
<1>a. c \in Call /\ Fits(pc[r], c) /\ Tables /\ SessionsTyped  BY DEF Inv, TypeInv, Talks
<1>1. ASSUME NEW u \in Users, RemoveCheck(r, u)
      PROVE  Good(r) /\ MuIsHeld' /\ AdminSafe' /\ OwnersKept
  <2> DEFINE h == c.home
             d == [c EXCEPT !.tenant = h, !.user = u]
  <2>1. /\ Go(r, "remove.checked", d) /\ Lock(r) /\ pc[r] \in {"scoped", "managing"}
        /\ pc[r] \notin Locked /\ UNCHANGED <<userVars, tenantVars, session, crossed>>
        /\ role[h][u] = "owner" => Cardinality(OwnersOf(h)) > 1
    BY <1>1 DEF RemoveCheck, Manages, Locked
  <2>2. h \in Tenants  BY <1>a, <2>1 DEF Fits
  <2>3. d \in Call /\ d.user = u /\ d.tenant = h  BY <1>a, <2>2 DEF Call
  <2>4. Fits("remove.checked", d) /\ "remove.checked" \in Locked  BY DEF Fits, Credential, Locked
  <2>5. ASSUME NEW x \in Users, Owns(h, x) PROVE \E y \in Users : Owns(h, y) /\ y # u
    <3>1. CASE Owns(h, u)
      <4>1. \E y \in OwnersOf(h) : y # u  BY <2>1, <3>1, AnotherOne DEF Owns, OwnersOf
      <4> QED  BY <4>1 DEF OwnersOf
    <3>2. CASE ~Owns(h, u)  BY <2>5, <3>2
    <3> QED  BY <3>1, <3>2
  <2>6. \A t \in Tenants :
          (\E x \in Users : Owns(t, x)) /\ d.tenant = t
             => \E y \in Users : Owns(t, y) /\ y # d.user
    BY <2>3, <2>5
  <2>7. "remove.checked" # "admin.checked" /\ "remove.checked" # "disable.checked"
        /\ "remove.checked" # "role.checked"
    OBVIOUS
  <2> HIDE DEF d
  <2> QED  BY <2>1, <2>3, <2>4, <2>6, <2>7, CheckMove
<1>2. CASE RemoveWrite(r)
  <2>1. /\ Go(r, "remove.written", c) /\ pc[r] = "remove.checked" /\ pc[r] \in Locked
        /\ UNCHANGED <<crossed, tenant, userVars, session, mu>>
        /\ role' = [role EXCEPT ![c.tenant][c.user] = "none"]
    BY <1>2 DEF RemoveWrite, SetRole, At, Locked
  <2>2. /\ Fits("remove.written", c) /\ "remove.written" \in PC
    BY DEF Fits, Credential, PC, Locked
  <2>3. Tables' /\ SessionsTyped'  BY <1>a, <2>1 DEF Tables, SessionsTyped, userVars
  <2>4. mu' = r  BY <2>1 DEF Inv, MuIsHeld
  <2>5. \A u \in Users : Administers(u) => Administers(u)'  BY <2>1 DEF Administers, userVars
  <2>6. \A t \in Tenants, u \in Users : Owns(t, u) /\ ~(c.user = u /\ c.tenant = t) => Owns(t, u)'
    BY <1>a, <2>1 DEF Owns, Tables, userVars
  <2> QED  BY <1>a, <2>1, <2>2, <2>3, <2>4, <2>5, <2>6, WriteMove
<1>3. CASE RemoveRevoke(r)
  <2>1. /\ Go(r, "idle", Blank) /\ pc[r] \in Locked /\ mu' = NoRequest
        /\ UNCHANGED <<crossed, tenant, role, userVars>>
        /\ Revoke({s \in Sessions : session[s].tenant = c.tenant /\ session[s].user = c.user})
    BY <1>3 DEF RemoveRevoke, At, Locked, Unlock, Finish, RevokeTenantUser, tenantVars
  <2>2. /\ Fits("idle", Blank) /\ "idle" \in PC /\ Blank \in Call
    BY BlankIsCall DEF Fits, Credential, PC, Locked
  <2>3. Tables' /\ SessionsTyped'  BY <1>a, <2>1, RevokedAreTyped DEF Tables, userVars
  <2>4. \A u \in Users : Administers(u) => Administers(u)'
    BY <2>1 DEF Administers, userVars
  <2>5. \A t \in Tenants, u \in Users : Owns(t, u) => Owns(t, u)'  BY <2>1 DEF Owns, userVars
  <2> QED  BY <2>1, <2>2, <2>3, <2>4, <2>5, WriteMove
<1> QED  BY <1>1, <1>2, <1>3

-----------------------------------------------------------------------------
(* The inductive invariant. *)

(* A calm move leaves what the mutex protects as it is. *)
LEMMA CalmSteps ==
  ASSUME Inv, NEW r \in Requests, Good(r), Calm(r)
  PROVE  MuIsHeld' /\ AdminSafe' /\ OwnersKept
<1>1. pc[r] \notin Locked /\ pc'[r] \notin Locked /\ mu' = mu /\ Keeps  BY DEF Calm
<1>2. \A q \in Requests \ {r} : pc'[q] = pc[q] /\ call'[q] = call[q]  BY DEF Good, Others
<1>3. MuIsHeld'  BY <1>1, <1>2 DEF Inv, MuIsHeld
<1>4. ~(pc'[r] = "disable.checked" \/ pc'[r] = "admin.checked"
        \/ pc'[r] = "role.checked" \/ pc'[r] = "remove.checked")
  BY <1>1 DEF Locked
<1>5. \A u : AdminThreatened(u)' => AdminThreatened(u)  BY <1>2, <1>4 DEF AdminThreatened
<1>6. \A t, u : Threatened(t, u)' => Threatened(t, u)  BY <1>2, <1>4 DEF Threatened
<1>7. AdminSafe'  BY <1>1, <1>5 DEF Inv, AdminSafe, Keeps
<1>8. OwnersKept  BY <1>1, <1>6 DEF OwnersKept, SafeOwner, Keeps
<1> QED  BY <1>3, <1>7, <1>8

LEMMA RequestSteps ==
  ASSUME Inv, NEW r \in Requests, OwnAccount(r) \/ Accounts(r) \/ Workspaces(r) \/ Members(r)
  PROVE  Good(r) /\ MuIsHeld' /\ AdminSafe' /\ OwnersKept
<1>1. TypeInv  BY DEF Inv
<1>2. CASE OwnAccount(r)  BY <1>1, <1>2, OwnAccountMoves, CalmSteps
<1>3. CASE Workspaces(r)  BY <1>1, <1>3, WorkspaceMoves, CalmSteps
<1>4. CASE PlainAccounts(r)  BY <1>1, <1>4, PlainAccountMoves, CalmSteps
<1>5. CASE (\E u \in Users : DisableCheck(r, u)) \/ DisableWrite(r) \/ DisableRevoke(r)
  BY <1>5, DisableSection
<1>6. CASE (\E u \in Users, on \in BOOLEAN : AdminCheck(r, u, on)) \/ AdminWrite(r)
  BY <1>6, AdminSection
<1>7. CASE (\E u \in Users, ro \in Role : SetRoleCheck(r, u, ro)) \/ SetRoleWrite(r)
  BY <1>7, RoleSection
<1>8. CASE (\E u \in Users : RemoveCheck(r, u)) \/ RemoveWrite(r) \/ RemoveRevoke(r)
  BY <1>8, RemoveSection
<1>9. CASE Accounts(r)  BY <1>4, <1>5, <1>6, <1>9 DEF Accounts, PlainAccounts
<1>10. CASE Members(r)  BY <1>4, <1>7, <1>8, <1>10 DEF Members, PlainAccounts
<1> QED  BY <1>2, <1>3, <1>9, <1>10

(* A step about a deleted tenant that nobody is about to write.            *)
Final == \A t \in Tenants : DeletedForGood(t) => DeletedForGood(t)'

LEMMA InitInv == Init => Inv
<1> SUFFICES ASSUME Init PROVE Inv  OBVIOUS
<1>1. Tables  BY SetupIsKnown DEF Init, Tables, UserStatus, TenantStatus, Role
<1>2. SessionsTyped  BY DEF Init, SessionsTyped, Session, Unissued
<1>3. Talks
  <2>1. "idle" \in PC /\ Fits("idle", Blank) /\ Blank \in Call
    BY BlankIsCall DEF PC, Fits, Credential
  <2> QED  BY <2>1 DEF Init, Talks
<1>4. mu \in Requests \cup {NoRequest} /\ crossed \subseteq Users  BY DEF Init
<1>5. MuIsHeld  BY NothingIsNew DEF Init, MuIsHeld, Locked
<1>6. Administers(Founder) /\ ~AdminThreatened(Founder)
  BY SetupIsKnown DEF Init, Administers, AdminThreatened
<1>7. AdminSafe  BY <1>6, SetupIsKnown DEF AdminSafe
<1> QED  BY <1>1, <1>2, <1>3, <1>4, <1>5, <1>7 DEF Inv, TypeInv

LEMMA Steps == Inv /\ [Next]_vars => Inv' /\ OwnersKept /\ Final
<1> SUFFICES ASSUME Inv, [Next]_vars PROVE Inv' /\ OwnersKept /\ Final  OBVIOUS
<1>1. ASSUME NEW r \in Requests, OwnAccount(r) \/ Accounts(r) \/ Workspaces(r) \/ Members(r)
      PROVE  Inv' /\ OwnersKept /\ Final
  <2>1. Good(r) /\ MuIsHeld' /\ AdminSafe' /\ OwnersKept  BY <1>1, RequestSteps
  <2>2. Inv'  BY <2>1 DEF Inv, Good
  <2>3. Final
    <3>1. SUFFICES ASSUME NEW t \in Tenants, tenant[t] = "deleted",
                          \A q \in Requests : ~IsPending(q, t)
                   PROVE  tenant'[t] = "deleted" /\ \A q \in Requests : ~IsPending(q, t)'
      BY DEF Final, DeletedForGood, StatusPending, IsPending, Pending
    <3>2. tenant'[t] = "deleted" /\ ~IsPending(r, t)'  BY <2>1, <3>1 DEF Good, TidyStep
    <3>3. \A q \in Requests \ {r} : ~IsPending(q, t)'
      BY <2>1, <3>1 DEF Good, Others, IsPending
    <3> QED  BY <3>2, <3>3
  <2> QED  BY <2>1, <2>2, <2>3
<1>2. ASSUME NEW s \in Sessions, Expire(s) PROVE Inv' /\ OwnersKept /\ Final
  <2>1. Revoke({s}) /\ UNCHANGED <<userVars, tenantVars, mu, pc, call, crossed, calls>>
    BY <1>2 DEF Expire
  <2>2. SessionsTyped'  BY <2>1, RevokedAreTyped DEF Inv, TypeInv
  <2>3. Tables' /\ Talks' /\ mu' = mu /\ crossed' = crossed
    BY <2>1 DEF Inv, TypeInv, Tables, Talks, userVars, tenantVars
  <2>4. TypeInv'  BY <2>2, <2>3 DEF Inv, TypeInv
  <2>5. MuIsHeld' /\ AdminSafe'
    BY <2>1 DEF Inv, MuIsHeld, AdminSafe, Administers, AdminThreatened, userVars
  <2>6. OwnersKept
    BY <2>1 DEF OwnersKept, SafeOwner, Owns, Threatened, userVars, tenantVars
  <2>7. Final  BY <2>1 DEF Final, DeletedForGood, StatusPending, tenantVars
  <2> QED  BY <2>4, <2>5, <2>6, <2>7 DEF Inv
<1>3. CASE UNCHANGED vars
  <2>1. UNCHANGED <<userVars, tenantVars, session, mu, pc, call, crossed, calls>>
    BY <1>3 DEF vars
  <2>2. TypeInv'
    BY <2>1 DEF Inv, TypeInv, Tables, SessionsTyped, Talks, userVars, tenantVars
  <2>3. MuIsHeld' /\ AdminSafe'
    BY <2>1 DEF Inv, MuIsHeld, AdminSafe, Administers, AdminThreatened, userVars
  <2>4. OwnersKept
    BY <2>1 DEF OwnersKept, SafeOwner, Owns, Threatened, userVars, tenantVars
  <2>5. Final  BY <2>1 DEF Final, DeletedForGood, StatusPending, tenantVars
  <2> QED  BY <2>2, <2>3, <2>4, <2>5 DEF Inv
<1> QED  BY <1>1, <1>2, <1>3 DEF Next

LEMMA Invariance == Spec => []Inv
<1>1. Init => Inv  BY InitInv
<1>2. Inv /\ [Next]_vars => Inv'  BY Steps
<1> QED  BY <1>1, <1>2, PTL DEF Spec

(* Every variable keeps its type: identity/service.go and store.go.        *)
THEOREM TypeCorrect == Spec => []TypeOK
<1>1. Inv => TypeOK  BY DEF Inv, TypeInv, Tables, SessionsTyped, Talks, TypeOK
<1> QED  BY <1>1, Invariance, PTL

(* At most one request is between the check and the last write of a        *)
(* critical section of Store.mu, and it is the holder (service.go:940).    *)
THEOREM CriticalSections == Spec => []MuIsHeld
<1>1. Inv => MuIsHeld  BY DEF Inv
<1> QED  BY <1>1, Invariance, PTL

(* However many administrators disable and demote each other at once, an   *)
(* active one remains (service.go:940).                                    *)
THEOREM AdministratorRemains == Spec => []PlatformAdminRemains
<1>1. Inv => PlatformAdminRemains
  BY DEF Inv, AdminSafe, PlatformAdminRemains, PlatformAdmins
<1> QED  BY <1>1, Invariance, PTL

(* No step takes the last owner of a live tenant away, for any number of   *)
(* concurrent requests (service.go:940 and 1457).                          *)
THEOREM OwnerRemains == Spec => LastOwnerStays
<1>1. Inv /\ [Next]_vars => [OwnersKept]_vars  BY Steps
<1>2. OwnersKept <=> \A t \in Tenants : ~Gone(t) /\ SafeOwner(t) /\ ~Gone(t)' => SafeOwner(t)'
  BY DEF OwnersKept
<1> QED  BY <1>1, <1>2, Invariance, PTL DEF Spec, LastOwnerStays

(* A deleted tenant whose status no request is about to write stays        *)
(* deleted (service.go:1231).                                              *)
THEOREM DeletedStaysDeleted == Spec => DeletedIsFinal
<1>1. Inv /\ [Next]_vars => [Final]_vars  BY Steps
<1>2. Final <=> \A t \in Tenants : DeletedForGood(t) => DeletedForGood(t)'  BY DEF Final
<1> QED  BY <1>1, <1>2, Invariance, PTL DEF Spec, DeletedIsFinal

-----------------------------------------------------------------------------
(* Passwords and login sessions.                                           *)

(* r is about the credentials of u. *)
Cred(r, u) == pc[r] \in Credential /\ call[r].user = u

(* Nobody is about to issue, change or hold what belongs to no account.    *)
Known ==
    /\ \A u \in Users : status[u] = "absent" => password[u] = 0
    /\ \A r \in Requests : pc[r] \in Credential => status[call[r].user] # "absent"
    /\ \A s \in Sessions : session[s].live => status[session[s].user] # "absent"

(* The token of a request is of the user it acts for. *)
TokenFits(r) ==
    /\ pc[r] = "scoped" =>
          call[r].token \in Sessions /\ session[call[r].token].user = call[r].by
    /\ pc[r] \in {"password.verified", "password.written"} =>
          call[r].token \in Sessions /\ session[call[r].token].user = call[r].user

Tokens == \A r \in Requests : TokenFits(r)

(* A user's only credential request is at work alone: a login holds the    *)
(* password, finds no session when it issues one, and the session of a     *)
(* change has the new one.                                                 *)
Single(u) == \A q, r \in Requests : Cred(q, u) /\ Cred(r, u) => q = r

Login == {"register.committed", "login.verified", "login.hashed", "login.revoked"}

Holds(r, u) == call[r].user = u =>
    /\ pc[r] \in Login => call[r].password = password[u]
    /\ pc[r] \in {"register.committed", "login.revoked"} =>
          \A s \in Sessions : session[s].live => session[s].user # u
    /\ pc[r] = "password.written" /\ session[call[r].token].live =>
          session[call[r].token].password = password[u]

Renewing(r, u) == pc[r] \in {"password.written", "reset.written"} /\ call[r].user = u

Knows(u) == \A s \in Sessions : session[s].live /\ session[s].user = u =>
                session[s].password = password[u] \/ \E r \in Requests : Renewing(r, u)

One(u) == \A x, y \in Sessions :
              /\ session[x].live /\ session[x].user = u
              /\ session[y].live /\ session[y].user = u
              => x = y

Honest(u) == Single(u) /\ Knows(u) /\ One(u) /\ \A r \in Requests : Holds(r, u)

CredInv == Known /\ Tokens /\ \A u \in Users \ crossed : Honest(u)

(* Sessions end, or move to another tenant; an account does not vanish;    *)
(* and what is known of the password of a user without overlapping         *)
(* requests changes only in the hands of r.                                *)
Shrinks == \A s \in Sessions : /\ session'[s].user = session[s].user
                               /\ session'[s].password = session[s].password
                               /\ session'[s].live => session[s].live

Renews(r, u) == pc'[r] \in {"password.written", "reset.written"} /\ call'[r].user = u

Settled(r) ==
    /\ crossed \subseteq crossed'
    /\ \A s \in Sessions : /\ session'[s].user = session[s].user
                           /\ session'[s].live => session[s].live
                           /\ \/ session'[s].password = session[s].password
                              \/ Renews(r, session[s].user)
    /\ \A u \in Users :
          /\ status'[u] = "absent" => status[u] = "absent" /\ password'[u] = password[u]
          /\ u \notin crossed' => password'[u] = password[u] \/ Renews(r, u)

LEMMA CredKept ==
  ASSUME Inv, Inv', CredInv, NEW r \in Requests, Others(r), Settled(r), TokenFits(r)',
         \A u \in Users : Cred(r, u)' =>
            /\ status'[u] # "absent"
            /\ Cred(r, u) \/ u \in crossed' \/ \A q \in Requests \ {r} : ~ Cred(q, u),
         \A u \in Users \ crossed' : Holds(r, u)',
         \A u \in Users \ crossed' : Renewing(r, u) => Renewing(r, u)' \/ Knows(u)'
  PROVE  CredInv'
<1> DEFINE was(q) == pc'[q] = pc[q] /\ call'[q] = call[q]
<1>1. \A q \in Requests \ {r} : was(q)  BY DEF Others
<1>2. \A s \in Sessions : session[s].live => session[s].user \in Users
  BY DEF Inv, TypeInv, SessionsTyped
<1>3. \A q \in Requests : /\ pc[q] \in Credential => call[q].user \in Users
                          /\ pc'[q] \in Credential => call'[q].user \in Users
  BY DEF Inv, TypeInv, Talks, Fits
<1>4. Known'
  <2>1. \A u \in Users : status'[u] = "absent" => password'[u] = 0
    BY DEF Settled, CredInv, Known
  <2>2. ASSUME NEW q \in Requests, pc'[q] \in Credential PROVE status'[call'[q].user] # "absent"
    <3>1. CASE q = r
      <4>1. PICK u : u = call'[r].user  OBVIOUS
      <4>2. u \in Users /\ Cred(r, u)'  BY <1>3, <2>2, <3>1, <4>1 DEF Cred
      <4> QED  BY <4>1, <4>2, <3>1
    <3>2. CASE q # r
      <4>1. was(q) /\ pc[q] \in Credential /\ call[q].user \in Users  BY <1>1, <1>3, <2>2, <3>2
      <4>2. status[call[q].user] # "absent"  BY <4>1 DEF CredInv, Known
      <4> QED  BY <4>1, <4>2 DEF Settled
    <3> QED  BY <3>1, <3>2
  <2>3. ASSUME NEW s \in Sessions, session'[s].live PROVE status'[session'[s].user] # "absent"
    <3>1. session[s].live /\ session'[s].user = session[s].user  BY <2>3 DEF Settled
    <3>2. status[session[s].user] # "absent" /\ session[s].user \in Users
      BY <1>2, <3>1 DEF CredInv, Known
    <3> QED  BY <3>1, <3>2 DEF Settled
  <2> QED  BY <2>1, <2>2, <2>3 DEF Known
<1>5. Tokens'
  <2>1. ASSUME NEW q \in Requests PROVE TokenFits(q)'
    <3>1. CASE q = r  BY <3>1
    <3>2. CASE q # r
      <4>1. was(q) /\ TokenFits(q)  BY <1>1, <3>2 DEF CredInv, Tokens
      <4> QED  BY <4>1 DEF TokenFits, Settled
    <3> QED  BY <3>1, <3>2
  <2> QED  BY <2>1 DEF Tokens
<1>6. ASSUME NEW u \in Users \ crossed' PROVE Honest(u)'
  <2>1. Honest(u) /\ (password'[u] = password[u] \/ Renews(r, u))  BY DEF CredInv, Settled
  <2>2. Single(u)'
    <3>1. \A q \in Requests \ {r} : Cred(q, u)' <=> Cred(q, u)  BY <1>1 DEF Cred
    <3>2. Cred(r, u)' => Cred(r, u) \/ \A q \in Requests \ {r} : ~ Cred(q, u)  OBVIOUS
    <3>3. \A q, p \in Requests : Cred(q, u) /\ Cred(p, u) => q = p  BY <2>1 DEF Honest, Single
    <3>4. \A q, p \in Requests : Cred(q, u)' /\ Cred(p, u)' => q = p  BY <3>1, <3>2, <3>3
    <3> QED  BY <3>4 DEF Single
  <2>3. Knows(u)'
    <3>1. CASE Renews(r, u)
      <4>1. Renewing(r, u)'  BY <3>1 DEF Renewing, Renews
      <4> QED  BY <4>1 DEF Knows
    <3>2. CASE \E q \in Requests : Renewing(q, u)
      <4>1. PICK q \in Requests : Renewing(q, u)  BY <3>2
      <4>2. CASE q = r
        <5>1. Renewing(r, u)' \/ Knows(u)'  BY <4>1, <4>2
        <5> QED  BY <5>1 DEF Knows
      <4>3. CASE q # r
        <5>1. Renewing(q, u)'  BY <1>1, <4>1, <4>3 DEF Renewing
        <5> QED  BY <5>1 DEF Knows
      <4> QED  BY <4>2, <4>3
    <3>3. CASE ~ Renews(r, u) /\ ~ \E q \in Requests : Renewing(q, u)
      <4>1. \A s \in Sessions : session[s].live /\ session[s].user = u =>
                                    session[s].password = password[u]
        BY <2>1, <3>3 DEF Honest, Knows
      <4> QED  BY <2>1, <3>3, <4>1 DEF Knows, Settled
    <3> QED  BY <3>1, <3>2, <3>3
  <2>4. One(u)'  BY <2>1 DEF Honest, One, Settled
  <2>5. ASSUME NEW q \in Requests PROVE Holds(q, u)'
    <3>1. CASE q = r  BY <3>1
    <3>2. CASE q # r /\ Renews(r, u)
      <4>1. Cred(r, u)'  BY <3>2 DEF Renews, Cred, Credential
      <4>2. ~ Cred(q, u)'  BY <2>2, <3>2, <4>1 DEF Single
      <4> QED  BY <4>2 DEF Cred, Holds, Login, Credential
    <3>3. CASE q # r /\ ~ Renews(r, u)
      <4>1. was(q) /\ Holds(q, u) /\ TokenFits(q)
        BY <1>1, <2>1, <3>3 DEF Honest, CredInv, Tokens
      <4>2. ASSUME pc[q] = "password.written", call[q].user = u, session'[call[q].token].live
            PROVE  /\ session[call[q].token].live
                   /\ session'[call[q].token].password = session[call[q].token].password
        BY <3>3, <4>1, <4>2 DEF TokenFits, Settled
      <4>3. \A s \in Sessions : /\ session'[s].live => session[s].live
                                /\ session'[s].user = session[s].user
        BY DEF Settled
      <4> QED  BY <2>1, <3>3, <4>1, <4>2, <4>3 DEF Holds
    <3> QED  BY <3>1, <3>2, <3>3
  <2> QED  BY <2>2, <2>3, <2>4, <2>5 DEF Honest
<1> QED  BY <1>4, <1>5, <1>6 DEF CredInv

(* A step that begins no work on credentials and does not end a change.    *)
Renewed == {"password.written", "reset.written"}

LEMMA CredAway ==
  ASSUME Inv, Inv', CredInv, NEW r \in Requests, Others(r), Shrinks, crossed' = crossed,
         password' = password,
         \A u \in Users : status'[u] = "absent" => status[u] = "absent",
         pc'[r] \notin Credential \cup {"scoped"}, pc[r] \notin Renewed
  PROVE  CredInv'
<1>1. Settled(r)  BY DEF Settled, Shrinks
<1>2. \A u \in Users : ~ Cred(r, u)' /\ Holds(r, u)' /\ ~ Renewing(r, u)
  BY DEF Cred, Holds, Renewing, Credential, Login, Renewed
<1>3. TokenFits(r)'  BY DEF TokenFits, Credential
<1> QED  BY <1>1, <1>2, <1>3, CredKept

LEMMA Landed ==
  ASSUME TypeInv, NEW r \in Requests, NEW label, NEW c,
         Go(r, label, c) \/ Begin(r, label, c)
  PROVE  pc'[r] = label /\ call'[r] = c
<1>1. pc' = [pc EXCEPT ![r] = label] /\ call' = [call EXCEPT ![r] = c]  BY DEF Go, Begin
<1> QED  BY <1>1 DEF TypeInv, Talks

LEMMA RevokeShrinks ==
  ASSUME SessionsTyped, NEW some, Revoke(some)
  PROVE  Shrinks
  BY DEF SessionsTyped, Session, Revoke, Shrinks

(* The steps that have nothing to do with credentials, by what they write. *)
ReadsOnly(r) ==
    \/ Refused(r) \/ ResumeCheck(r) \/ ResumeWrite(r)
    \/ \E u \in Users : \/ DisableCheck(r, u) \/ RemoveCheck(r, u)
                        \/ \E on \in BOOLEAN : AdminCheck(r, u, on)
                        \/ \E ro \in Role : AddCheck(r, u, ro) \/ SetRoleCheck(r, u, ro)
    \/ \E t \in Tenants : \/ SwitchCheck(r, t) \/ CreateUserCheck(r, t) \/ AsOwnerOf(r, t)
                          \/ \E u \in Users : CreateTenantCheck(r, t, u)
                          \/ \E st \in {"active", "disabled"} : StatusCheck(r, t, st)
                          \/ DeleteCheck(r, t)
    \/ CreateTenantProvision(r) \/ StatusWrite(r) \/ DeleteWrite(r)
    \/ SetRoleWrite(r) \/ RemoveWrite(r)

WritesUsers(r) ==
    \/ \E u \in Users : \/ Enable(r, u)
                        \/ \E ro \in Role, plat \in BOOLEAN : CreateUserWrite(r, u, ro, plat)
    \/ DisableWrite(r) \/ AdminWrite(r) \/ CreateTenantCommit(r) \/ AddWrite(r)

EndsSessions(r) == \/ Logout(r) \/ DisableRevoke(r) \/ TenantRevoke(r) \/ RemoveRevoke(r)
                   \/ SwitchWrite(r)

LEMMA AwaySteps ==
  ASSUME Inv, Inv', CredInv, NEW r \in Requests, Others(r),
         ReadsOnly(r) \/ WritesUsers(r) \/ EndsSessions(r)
  PROVE  CredInv'
<1>a. TypeInv /\ Tables /\ SessionsTyped  BY DEF Inv, TypeInv
<1> DEFINE Away(label) == label \notin Credential \cup {"scoped"}
<1>1. ASSUME ReadsOnly(r)
      PROVE  /\ UNCHANGED <<userVars, session, crossed>> /\ pc[r] \notin Renewed
             /\ \E label, c : Away(label) /\ Go(r, label, c)
  <2>1. CASE Refused(r) \/ ResumeCheck(r) \/ ResumeWrite(r)
    BY <2>1 DEF Refused, ResumeCheck, ResumeWrite, Finish, At, Credential, Renewed
  <2>2. CASE \E u \in Users : DisableCheck(r, u) \/ RemoveCheck(r, u)
    BY <2>2 DEF DisableCheck, RemoveCheck, Manages, Platform, At, Credential, Renewed
  <2>3. CASE \E u \in Users, on \in BOOLEAN : AdminCheck(r, u, on)
    BY <2>3 DEF AdminCheck, Platform, At, Credential, Renewed
  <2>4. CASE \E u \in Users, ro \in Role : AddCheck(r, u, ro)
    BY <2>4 DEF AddCheck, Manages, Credential, Renewed
  <2>5. CASE \E u \in Users, ro \in Role : SetRoleCheck(r, u, ro)
    BY <2>5 DEF SetRoleCheck, Manages, Credential, Renewed
  <2>6. CASE \E t \in Tenants : SwitchCheck(r, t) \/ CreateUserCheck(r, t) \/ AsOwnerOf(r, t)
    BY <2>6 DEF SwitchCheck, CreateUserCheck, AsOwnerOf, Platform, At, Credential, Renewed
  <2>7. CASE \E t \in Tenants, u \in Users : CreateTenantCheck(r, t, u)
    BY <2>7 DEF CreateTenantCheck, Platform, At, Credential, Renewed
  <2>8. CASE \E t \in Tenants, st \in {"active", "disabled"} : StatusCheck(r, t, st)
    BY <2>8 DEF StatusCheck, Platform, At, Credential, Renewed
  <2>9. CASE \E t \in Tenants : DeleteCheck(r, t)
    BY <2>9 DEF DeleteCheck, Platform, At, Credential, Renewed
  <2>10. CASE CreateTenantProvision(r) \/ StatusWrite(r) \/ DeleteWrite(r)
    BY <2>10 DEF CreateTenantProvision, StatusWrite, DeleteWrite, Finish, At, Credential, Renewed
  <2>11. CASE SetRoleWrite(r) \/ RemoveWrite(r)
    BY <2>11 DEF SetRoleWrite, RemoveWrite, Finish, At, Credential, Renewed
  <2> QED  BY <1>1, <2>1, <2>2, <2>3, <2>4, <2>5, <2>6, <2>7, <2>8, <2>9, <2>10, <2>11
           DEF ReadsOnly
<1>2. ASSUME WritesUsers(r)
      PROVE  /\ UNCHANGED <<password, session, crossed>> /\ pc[r] \notin Renewed
             /\ \A u \in Users : status'[u] = "absent" => status[u] = "absent"
             /\ \E label, c : Away(label) /\ Go(r, label, c)
  <2>1. CASE \E u \in Users : Enable(r, u)
    BY <1>a, <2>1 DEF Enable, Tables, Finish, Platform, At, Credential, Renewed
  <2>2. CASE \E u \in Users, ro \in Role, plat \in BOOLEAN : CreateUserWrite(r, u, ro, plat)
    BY <1>a, <2>2 DEF CreateUserWrite, InsertUser, Tables, Finish, At, Credential, Renewed
  <2>3. CASE DisableWrite(r) \/ AdminWrite(r)
    BY <1>a, <2>3 DEF DisableWrite, AdminWrite, Tables, Finish, At, Credential, Renewed
  <2>4. CASE CreateTenantCommit(r)
    BY <1>a, <2>4 DEF CreateTenantCommit, InsertUser, userVars, Tables, Finish, At, Credential,
                      Renewed
  <2>5. CASE AddWrite(r)
    BY <1>a, <2>5 DEF AddWrite, InsertUser, userVars, Tables, Finish, At, Credential, Renewed
  <2> QED  BY <1>2, <2>1, <2>2, <2>3, <2>4, <2>5 DEF WritesUsers
<1>3. ASSUME EndsSessions(r)
      PROVE  /\ Shrinks /\ UNCHANGED <<userVars, crossed>> /\ pc[r] \notin Renewed
             /\ \E label, c : Away(label) /\ Go(r, label, c)
  <2>1. CASE Logout(r)
    BY <1>a, <2>1, RevokeShrinks DEF Logout, Finish, At, Credential, Renewed
  <2>2. CASE DisableRevoke(r)
    BY <1>a, <2>2, RevokeShrinks DEF DisableRevoke, RevokeUser, Finish, At, Credential, Renewed
  <2>3. CASE TenantRevoke(r)
    BY <1>a, <2>3, RevokeShrinks DEF TenantRevoke, RevokeTenant, Finish, At, Credential, Renewed
  <2>4. CASE RemoveRevoke(r)
    BY <1>a, <2>4, RevokeShrinks DEF RemoveRevoke, RevokeTenantUser, Finish, At, Credential, Renewed
  <2>5. CASE SwitchWrite(r)
    <3>1. Shrinks  BY <1>a, <2>5 DEF SwitchWrite, SessionsTyped, Session, Shrinks
    <3> QED  BY <2>5, <3>1 DEF SwitchWrite, Finish, At, Credential, Renewed
  <2> QED  BY <1>3, <2>1, <2>2, <2>3, <2>4, <2>5 DEF EndsSessions
<1>4. session' = session => Shrinks  BY DEF Shrinks
<1>5. /\ Shrinks /\ crossed' = crossed /\ password' = password /\ pc[r] \notin Renewed
      /\ \A u \in Users : status'[u] = "absent" => status[u] = "absent"
      /\ \E label, c : Away(label) /\ Go(r, label, c)
  BY <1>1, <1>2, <1>3, <1>4 DEF userVars
<1>6. PICK label, c : Away(label) /\ Go(r, label, c)  BY <1>5
<1>7. pc'[r] = label  BY <1>a, <1>6, Landed
<1>8. pc'[r] \notin Credential \cup {"scoped"}  BY <1>6, <1>7
<1> QED  BY <1>5, <1>8, CredAway

LEMMA CrossSays ==
  ASSUME NEW r \in Requests, NEW u \in Users, Cross(r, u)
  PROVE  /\ crossed \subseteq crossed' /\ crossed' \subseteq crossed \cup {u}
         /\ u \in crossed' \/ \A q \in Requests \ {r} : ~ Cred(q, u)
  BY DEF Cross, Cred

(* A step that writes no account and no session.                           *)
LEMMA Same ==
  ASSUME NEW r, UNCHANGED <<userVars, session>>, crossed \subseteq crossed'
  PROVE  Settled(r)
  BY DEF userVars, Settled

LEMMA AuthenticateStep ==
  ASSUME Inv, Inv', CredInv, NEW r \in Requests, Others(r), NEW s \in Sessions, Authenticate(r, s)
  PROVE  CredInv'
<1>1. /\ UNCHANGED <<userVars, session, crossed>> /\ pc[r] = "idle"
      /\ Begin(r, "scoped", Scope(s)) /\ TypeInv
  BY DEF Authenticate, Begin, Inv
<1>2. pc'[r] = "scoped" /\ call'[r] = Scope(s)  BY <1>1, Landed
<1>3. Scope(s).token = s /\ Scope(s).by = session[s].user
  BY DEF Scope, Blank
<1>4. TokenFits(r)'  BY <1>1, <1>2, <1>3 DEF TokenFits
<1>5. \A u \in Users : ~ Cred(r, u)' /\ Holds(r, u)' /\ ~ Renewing(r, u)
  BY <1>1, <1>2 DEF Cred, Holds, Renewing, Credential, Login
<1>6. Settled(r)  BY <1>1, Same
<1> QED  BY <1>4, <1>5, <1>6, CredKept

LEMMA RegisterStep ==
  ASSUME Inv, Inv', CredInv, NEW r \in Requests, Others(r), NEW u \in Users, NEW t \in Tenants,
         RegisterCommit(r, u, t)
  PROVE  CredInv'
<1> DEFINE d == [Blank EXCEPT !.user = u, !.tenant = t]
<1>1. /\ UNCHANGED <<password, session, crossed>> /\ pc[r] = "idle" /\ status[u] = "absent"
      /\ status' = [status EXCEPT ![u] = "active"] /\ Begin(r, "register.committed", d)
      /\ TypeInv /\ Tables
  BY DEF RegisterCommit, InsertUser, Begin, Inv, TypeInv
<1>2. pc'[r] = "register.committed" /\ call'[r] = d  BY <1>1, Landed
<1>3. d.user = u /\ d.password = 0  BY DEF Blank
<1>4. \A v \in Users : status'[v] = IF v = u THEN "active" ELSE status[v]  BY <1>1 DEF Tables
<1>5. Settled(r)  BY <1>1, <1>4 DEF Settled
<1>6. TokenFits(r)' /\ \A v \in Users : ~ Renewing(r, v)  BY <1>1, <1>2 DEF TokenFits, Renewing
<1>7. \A q \in Requests : ~ Cred(q, u)  BY <1>1 DEF CredInv, Known, Cred
<1>8. \A s \in Sessions : session'[s].live => session'[s].user # u
  BY <1>1 DEF CredInv, Known
<1>9. \A v \in Users : call'[r].user = v => v = u  BY <1>2, <1>3
<1>10. password'[u] = 0  BY <1>1 DEF CredInv, Known
<1>11. \A v \in Users : Holds(r, v)'
  BY <1>2, <1>3, <1>8, <1>9, <1>10 DEF Holds, Login
<1>12. \A v \in Users : Cred(r, v)' => status'[v] # "absent" /\ \A q \in Requests : ~ Cred(q, v)
  BY <1>4, <1>7, <1>9 DEF Cred
<1> QED  BY <1>5, <1>6, <1>11, <1>12, CredKept

LEMMA VerifyStep ==
  ASSUME Inv, Inv', CredInv, NEW r \in Requests, Others(r), NEW u \in Users, LoginVerify(r, u)
  PROVE  CredInv'
<1> DEFINE d == [Blank EXCEPT !.user = u, !.password = password[u],
                              !.value = IF weak[u] THEN "on" ELSE "off"]
<1>1. /\ UNCHANGED <<userVars, session>> /\ pc[r] = "idle" /\ status[u] = "active"
      /\ Begin(r, "login.verified", d) /\ Cross(r, u) /\ TypeInv
  BY DEF LoginVerify, Begin, Inv
<1>2. pc'[r] = "login.verified" /\ call'[r] = d  BY <1>1, Landed
<1>3. d.user = u /\ d.password = password[u]  BY DEF Blank
<1>4. Settled(r)  BY <1>1, CrossSays, Same
<1>5. TokenFits(r)' /\ \A v \in Users : ~ Renewing(r, v)  BY <1>1, <1>2 DEF TokenFits, Renewing
<1>6. \A v \in Users : call'[r].user = v => v = u  BY <1>2, <1>3
<1>7. \A v \in Users : Holds(r, v)'  BY <1>1, <1>2, <1>3, <1>6 DEF Holds, Login, userVars
<1>8. \A v \in Users : Cred(r, v)' =>
         status'[v] # "absent" /\ (v \in crossed' \/ \A q \in Requests \ {r} : ~ Cred(q, v))
  BY <1>1, <1>6, CrossSays DEF Cred, userVars
<1> QED  BY <1>4, <1>5, <1>7, <1>8, CredKept

LEMMA ChangeVerifyStep ==
  ASSUME Inv, Inv', CredInv, NEW r \in Requests, Others(r), ChangeVerify(r)
  PROVE  CredInv'
<1> DEFINE u == call[r].by
           d == [call[r] EXCEPT !.user = u, !.password = password[u]]
<1>1. /\ UNCHANGED <<userVars, session>> /\ pc[r] = "scoped" /\ Usable(call[r].token)
      /\ Go(r, "password.verified", d) /\ Cross(r, u)
      /\ TypeInv /\ call[r] \in Call /\ u \in Users
  BY DEF ChangeVerify, At, Inv, TypeInv, Talks, Fits
<1>2. pc'[r] = "password.verified" /\ call'[r] = d  BY <1>1, Landed
<1>3. d.user = u /\ d.token = call[r].token  BY <1>1 DEF Call
<1>4. call[r].token \in Sessions /\ session[call[r].token].user = u
  BY <1>1 DEF CredInv, Tokens, TokenFits
<1>5. status[u] = "active"  BY <1>1, <1>4 DEF Usable
<1>6. Settled(r)  BY <1>1, CrossSays, Same
<1>7. TokenFits(r)' /\ \A v \in Users : ~ Renewing(r, v)
  BY <1>1, <1>2, <1>3, <1>4 DEF TokenFits, Renewing
<1>8. \A v \in Users : Holds(r, v)'  BY <1>2 DEF Holds, Login
<1>9. \A v \in Users : Cred(r, v)' =>
         status'[v] # "absent" /\ (v \in crossed' \/ \A q \in Requests \ {r} : ~ Cred(q, v))
  BY <1>1, <1>2, <1>3, <1>5, CrossSays DEF Cred, userVars
<1> QED  BY <1>6, <1>7, <1>8, <1>9, CredKept

LEMMA RegisterProvisionStep ==
  ASSUME Inv, Inv', CredInv, NEW r \in Requests, Others(r), RegisterProvision(r)
  PROVE  CredInv'
<1> DEFINE u == call[r].user
<1>1. /\ UNCHANGED <<userVars, session, crossed>> /\ pc[r] = "register.committed"
      /\ Go(r, "login.revoked", call[r]) \/ Go(r, "idle", Blank)
      /\ TypeInv /\ u \in Users
  BY DEF RegisterProvision, Finish, At, Inv, TypeInv, Talks, Fits, Credential
<1>2. \/ pc'[r] = "login.revoked" /\ call'[r] = call[r]
      \/ pc'[r] = "idle"
  BY <1>1, Landed
<1>3. Settled(r)  BY <1>1, Same
<1>4. TokenFits(r)' /\ \A v \in Users : ~ Renewing(r, v)  BY <1>1, <1>2 DEF TokenFits, Renewing
<1>5. \A v \in Users \ crossed' : Holds(r, v)'
  <2>1. \A v \in Users \ crossed' : Holds(r, v)  BY <1>1 DEF CredInv, Honest
  <2> QED  BY <1>1, <1>2, <2>1 DEF Holds, Login, userVars
<1>6. \A v \in Users : Cred(r, v)' => status'[v] # "absent" /\ Cred(r, v)
  BY <1>1, <1>2 DEF Cred, Credential, CredInv, Known, userVars
<1> QED  BY <1>3, <1>4, <1>5, <1>6, CredKept

LEMMA HashStep ==
  ASSUME Inv, Inv', CredInv, NEW r \in Requests, Others(r), LoginHash(r)
  PROVE  CredInv'
<1> DEFINE u == call[r].user
           p == call[r].password
<1>1. /\ UNCHANGED <<status, session, crossed>> /\ pc[r] = "login.verified"
      /\ password' = [password EXCEPT ![u] = p] \/ password' = password
      /\ \/ \E t \in Tenants : Go(r, "login.hashed", [call[r] EXCEPT !.tenant = t])
         \/ Go(r, "idle", Blank)
      /\ TypeInv /\ Tables /\ call[r] \in Call /\ u \in Users
  BY DEF LoginHash, SetPassword, userVars, Finish, At, OpenTo, Inv, TypeInv, Talks, Fits,
         Credential
<1>2. \/ pc'[r] = "login.hashed" /\ call'[r].user = u /\ call'[r].password = p
      \/ pc'[r] = "idle"
  <2>1. ASSUME NEW t \in Tenants, Go(r, "login.hashed", [call[r] EXCEPT !.tenant = t])
        PROVE  pc'[r] = "login.hashed" /\ call'[r].user = u /\ call'[r].password = p
    <3>1. pc'[r] = "login.hashed" /\ call'[r] = [call[r] EXCEPT !.tenant = t]
      BY <1>1, <2>1, Landed
    <3> QED  BY <1>1, <3>1 DEF Call
  <2>2. Go(r, "idle", Blank) => pc'[r] = "idle"  BY <1>1, Landed
  <2> QED  BY <1>1, <2>1, <2>2
<1>3. u \notin crossed => p = password[u]  BY <1>1 DEF CredInv, Honest, Holds, Login
<1>4. status[u] # "absent"  BY <1>1 DEF CredInv, Known, Credential
<1>5. \A v \in Users : password'[v] = password[v] \/ (v = u /\ password'[v] = p)
  BY <1>1 DEF Tables
<1>6. Settled(r)  BY <1>1, <1>3, <1>4, <1>5 DEF Settled
<1>7. TokenFits(r)' /\ \A v \in Users : ~ Renewing(r, v)  BY <1>1, <1>2 DEF TokenFits, Renewing
<1>8. \A v \in Users \ crossed' : Holds(r, v)'
  BY <1>1, <1>2, <1>3, <1>5 DEF Holds, Login
<1>9. \A v \in Users : Cred(r, v)' => status'[v] # "absent" /\ Cred(r, v)
  BY <1>1, <1>2, <1>4 DEF Cred, Credential
<1> QED  BY <1>6, <1>7, <1>8, <1>9, CredKept

(* A revocation that ends everything the user has open.                    *)
LEMMA NothingOpen ==
  ASSUME SessionsTyped, NEW u, NEW but, RevokeUser(u, but)
  PROVE  /\ Shrinks
         /\ \A s \in Sessions : session'[s].live /\ session'[s].user = u => s = but
<1>1. Shrinks  BY RevokeShrinks DEF RevokeUser
<1>2. ASSUME NEW s \in Sessions, session[s].user = u, s # but PROVE ~ session'[s].live
  <2>1. session'[s] = [session[s] EXCEPT !.live = FALSE]  BY <1>2 DEF RevokeUser, Revoke
  <2> QED  BY <2>1 DEF SessionsTyped, Session
<1> QED  BY <1>1, <1>2 DEF Shrinks

LEMMA RevokingSettles ==
  ASSUME NEW r, Shrinks, UNCHANGED <<userVars, crossed>>
  PROVE  Settled(r)
  BY DEF Shrinks, Settled, userVars

LEMMA LoginRevokeStep ==
  ASSUME Inv, Inv', CredInv, NEW r \in Requests, Others(r), LoginRevoke(r)
  PROVE  CredInv'
<1> DEFINE u == call[r].user
<1>1. /\ UNCHANGED <<userVars, crossed>> /\ pc[r] = "login.hashed"
      /\ Go(r, "login.revoked", call[r]) /\ RevokeUser(u, NoSession)
      /\ TypeInv /\ SessionsTyped /\ u \in Users
  BY DEF LoginRevoke, At, Inv, TypeInv, Talks, Fits, Credential
<1>2. pc'[r] = "login.revoked" /\ call'[r] = call[r]  BY <1>1, Landed
<1>3. Shrinks /\ \A s \in Sessions : session'[s].live => session'[s].user # u
  BY <1>1, NothingOpen, NothingIsNew
<1>4. Settled(r)  BY <1>1, <1>3, RevokingSettles
<1>5. TokenFits(r)' /\ \A v \in Users : ~ Renewing(r, v)  BY <1>1, <1>2 DEF TokenFits, Renewing
<1>6. \A v \in Users \ crossed' : Holds(r, v)'
  <2>1. \A v \in Users \ crossed' : Holds(r, v)  BY <1>1 DEF CredInv, Honest
  <2> QED  BY <1>1, <1>2, <1>3, <2>1 DEF Holds, Login, userVars
<1>7. \A v \in Users : Cred(r, v)' => status'[v] # "absent" /\ Cred(r, v)
  BY <1>1, <1>2 DEF Cred, Credential, CredInv, Known, userVars
<1> QED  BY <1>4, <1>5, <1>6, <1>7, CredKept

LEMMA EndOfChange ==
  ASSUME Inv, Inv', CredInv, NEW r \in Requests, Others(r), ChangeRevoke(r) \/ ResetRevoke(r)
  PROVE  CredInv'
<1> DEFINE u == call[r].user
           t == call[r].token
<1>1. /\ UNCHANGED <<userVars, crossed>> /\ Go(r, "idle", Blank)
      /\ \/ pc[r] = "password.written" /\ RevokeUser(u, t)
         \/ pc[r] = "reset.written" /\ RevokeUser(u, NoSession)
      /\ TypeInv /\ SessionsTyped /\ u \in Users
  BY DEF ChangeRevoke, ResetRevoke, Finish, At, Inv, TypeInv, Talks, Fits, Credential
<1>2. pc'[r] = "idle"  BY <1>1, Landed
<1>3. /\ Shrinks
      /\ \A s \in Sessions : session'[s].live /\ session'[s].user = u =>
                                 pc[r] = "password.written" /\ s = t
  BY <1>1, NothingOpen, NothingIsNew
<1>4. Settled(r)  BY <1>1, <1>3, RevokingSettles
<1>5. TokenFits(r)' /\ \A v \in Users : ~ Cred(r, v)' /\ Holds(r, v)'
  BY <1>2 DEF TokenFits, Cred, Credential, Holds, Login
<1>6. \A v \in Users \ crossed' : Renewing(r, v) => Knows(v)'
  <2>1. SUFFICES ASSUME u \notin crossed, NEW s \in Sessions, session'[s].live, session'[s].user = u
                 PROVE  session'[s].password = password'[u]
    BY <1>1 DEF Renewing, Knows
  <2>2. pc[r] = "password.written" /\ s = t /\ session[t].live  BY <1>3, <2>1 DEF Shrinks
  <2>3. session[t].password = password[u]  BY <1>1, <2>1, <2>2 DEF CredInv, Honest, Holds
  <2> QED  BY <1>1, <1>3, <2>2, <2>3 DEF Shrinks, userVars
<1> QED  BY <1>4, <1>5, <1>6, CredKept

LEMMA ResetStep ==
  ASSUME Inv, Inv', CredInv, NEW r \in Requests, Others(r), NEW u \in Users, ResetWrite(r, u)
  PROVE  CredInv'
<1> DEFINE d == [call[r] EXCEPT !.user = u]
<1>1. /\ UNCHANGED <<status, session>> /\ pc[r] = "scoped" /\ status[u] # "absent"
      /\ password' = [password EXCEPT ![u] = password[u] + 1]
      /\ Go(r, "reset.written", d) /\ Cross(r, u)
      /\ TypeInv /\ Tables /\ call[r] \in Call
  BY DEF ResetWrite, SetPassword, Platform, At, Inv, TypeInv, Talks
<1>2. pc'[r] = "reset.written" /\ call'[r] = d  BY <1>1, Landed
<1>3. d.user = u  BY <1>1 DEF Call
<1>4. \A v \in Users : password'[v] = password[v] \/ v = u  BY <1>1 DEF Tables
<1>5. Renews(r, u)  BY <1>2, <1>3 DEF Renews
<1>6. Settled(r)  BY <1>1, <1>4, <1>5, CrossSays DEF Settled
<1>7. /\ TokenFits(r)' /\ \A v \in Users : ~ Renewing(r, v) /\ Holds(r, v)'
  BY <1>1, <1>2 DEF TokenFits, Renewing, Holds, Login
<1>8. \A v \in Users : Cred(r, v)' =>
         status'[v] # "absent" /\ (v \in crossed' \/ \A q \in Requests \ {r} : ~ Cred(q, v))
  BY <1>1, <1>2, <1>3, CrossSays DEF Cred
<1> QED  BY <1>6, <1>7, <1>8, CredKept

LEMMA ChangeWriteStep ==
  ASSUME Inv, Inv', CredInv, NEW r \in Requests, Others(r), ChangeWrite(r)
  PROVE  CredInv'
<1> DEFINE u == call[r].user
           t == call[r].token
           new == password[u] + 1
<1>1. /\ UNCHANGED <<status, crossed>> /\ pc[r] = "password.verified"
      /\ password' = [password EXCEPT ![u] = new]
      /\ session' = [session EXCEPT ![t].password = new]
      /\ Go(r, "password.written", call[r])
      /\ TypeInv /\ Tables /\ SessionsTyped /\ u \in Users
  BY DEF ChangeWrite, SetPassword, At, Inv, TypeInv, Talks, Fits, Credential
<1>2. pc'[r] = "password.written" /\ call'[r] = call[r]  BY <1>1, Landed
<1>3. t \in Sessions /\ session[t].user = u  BY <1>1 DEF CredInv, Tokens, TokenFits
<1>4. /\ password'[u] = new /\ \A v \in Users : password'[v] = password[v] \/ v = u
  BY <1>1 DEF Tables
<1>5. /\ session'[t].password = new
      /\ \A s \in Sessions : /\ session'[s].user = session[s].user
                             /\ session'[s].live = session[s].live
                             /\ session'[s].password = session[s].password \/ s = t
  <2>1. session'[t] = [session[t] EXCEPT !.password = new] /\ session[t] \in Session
    BY <1>1, <1>3 DEF SessionsTyped
  <2>2. \A s \in Sessions : s # t => session'[s] = session[s]  BY <1>1, <1>3 DEF SessionsTyped
  <2> QED  BY <2>1, <2>2 DEF Session
<1>6. Renews(r, u)  BY <1>2 DEF Renews
<1>7. status[u] # "absent"  BY <1>1 DEF CredInv, Known, Credential
<1>8. Settled(r)  BY <1>1, <1>3, <1>4, <1>5, <1>6, <1>7 DEF Settled
<1>9. TokenFits(r)' /\ \A v \in Users : ~ Renewing(r, v)
  BY <1>1, <1>2, <1>3, <1>5 DEF TokenFits, Renewing
<1>10. \A v \in Users : Holds(r, v)'  BY <1>2, <1>4, <1>5 DEF Holds, Login
<1>11. \A v \in Users : Cred(r, v)' => status'[v] # "absent" /\ Cred(r, v)
  BY <1>1, <1>2, <1>7 DEF Cred, Credential
<1> QED  BY <1>8, <1>9, <1>10, <1>11, CredKept

(* A login of a user nobody else is working on opens its only session.     *)
LEMMA IssueStep ==
  ASSUME Inv, Inv', CredInv, NEW r \in Requests, Others(r), NEW s \in Sessions, LoginIssue(r, s)
  PROVE  CredInv'
<1> DEFINE u == call[r].user
           p == call[r].password
<1>1. /\ UNCHANGED <<userVars, crossed>> /\ pc[r] = "login.revoked"
      /\ session[s] = Unissued /\ Go(r, "idle", Blank)
      /\ session' = [session EXCEPT ![s] =
                       [user |-> u, tenant |-> call[r].tenant, live |-> TRUE, password |-> p]]
      /\ TypeInv /\ SessionsTyped /\ u \in Users
  BY DEF LoginIssue, Finish, At, Inv, TypeInv, Talks, Fits, Credential
<1>2. pc'[r] = "idle" /\ \A q \in Requests \ {r} : pc'[q] = pc[q] /\ call'[q] = call[q]
  BY <1>1, Landed DEF Others
<1>3. /\ session'[s].user = u /\ session'[s].password = p
      /\ \A x \in Sessions \ {s} : session'[x] = session[x]
  <2> DEFINE new == [user |-> u, tenant |-> call[r].tenant, live |-> TRUE, password |-> p]
  <2>1. new.user = u /\ new.password = p  OBVIOUS
  <2>2. session'[s] = new /\ \A x \in Sessions \ {s} : session'[x] = session[x]
    BY <1>1 DEF SessionsTyped
  <2> HIDE DEF new
  <2> QED  BY <2>1, <2>2
<1>4. session[s].user = NoUser  BY <1>1 DEF Unissued
<1>5. status[u] # "absent"  BY <1>1 DEF CredInv, Known, Credential
<1>6. Known'
  <2>1. \A q \in Requests : pc'[q] \in Credential => q # r  BY <1>2 DEF Credential
  <2> QED  BY <1>1, <1>2, <1>3, <1>5, <2>1 DEF CredInv, Known, userVars
<1>7. Tokens'
  <2>1. ASSUME NEW q \in Requests PROVE TokenFits(q)'
    <3>1. CASE q = r  BY <1>2, <3>1 DEF TokenFits
    <3>2. CASE q # r
      <4>1. /\ pc[q] = "scoped" => call[q].by \in Users
            /\ pc[q] \in {"password.verified", "password.written"} => call[q].user \in Users
        BY DEF Inv, TypeInv, Talks, Fits, Credential
      <4>2. /\ pc[q] = "scoped" => call[q].token # s
            /\ pc[q] \in {"password.verified", "password.written"} => call[q].token # s
        BY <1>4, <4>1, NothingIsNew DEF CredInv, Tokens, TokenFits
      <4> QED  BY <1>2, <1>3, <3>2, <4>2 DEF CredInv, Tokens, TokenFits
    <3> QED  BY <3>1, <3>2
  <2> QED  BY <2>1 DEF Tokens
<1>8. ASSUME NEW v \in Users \ crossed' PROVE Honest(v)'
  <2>1. Honest(v) /\ v \notin crossed /\ password'[v] = password[v]
    BY <1>1 DEF CredInv, userVars
  <2>2. \A q \in Requests : Cred(q, v)' => q # r /\ Cred(q, v)
    BY <1>2 DEF Cred, Credential
  <2>3. Single(v)'  BY <2>1, <2>2 DEF Honest, Single
  <2>4. \A q \in Requests \ {r} : ~ (Cred(q, v) /\ v = u)
    BY <1>1, <2>1 DEF Honest, Single, Cred, Credential
  <2>5. v = u => p = password[u] /\ \A x \in Sessions : session[x].live => session[x].user # u
    BY <1>1, <2>1 DEF Honest, Holds, Login
  <2>6. \A x \in Sessions : session'[x].user = v =>
           \/ x = s /\ v = u
           \/ x # s /\ session[x].user = v /\ session'[x] = session[x]
    BY <1>3
  <2>7. Knows(v)'
    <3>1. ASSUME NEW q \in Requests, Renewing(q, v) PROVE Renewing(q, v)'
      BY <1>1, <1>2, <3>1 DEF Renewing
    <3>2. ASSUME NEW x \in Sessions, session'[x].live, session'[x].user = v,
                 ~ \E q \in Requests : Renewing(q, v)'
          PROVE  session'[x].password = password'[v]
      <4>1. ~ \E q \in Requests : Renewing(q, v)  BY <3>1, <3>2
      <4>2. CASE x = s /\ v = u  BY <1>3, <2>1, <2>5, <4>2
      <4>3. CASE x # s /\ session[x].user = v /\ session'[x] = session[x]
        BY <2>1, <3>2, <4>1, <4>3 DEF Honest, Knows
      <4> QED  BY <2>6, <3>2, <4>2, <4>3
    <3> QED  BY <3>2 DEF Knows
  <2>8. One(v)'
    <3>1. \A x, y \in Sessions : /\ session'[x].live /\ session'[x].user = v
                                 /\ session'[y].live /\ session'[y].user = v
                                 => x = y
      BY <2>1, <2>5, <2>6 DEF Honest, One
    <3> QED  BY <3>1 DEF One
  <2>9. ASSUME NEW q \in Requests PROVE Holds(q, v)'
    <3>1. CASE q = r  BY <1>2, <3>1 DEF Holds, Login
    <3>2. CASE q # r /\ v = u
      <4>1. ~ Cred(q, v)'  BY <2>2, <2>4, <3>2
      <4> QED  BY <4>1 DEF Cred, Holds, Login, Credential
    <3>3. CASE q # r /\ v # u
      <4>1. pc'[q] = pc[q] /\ call'[q] = call[q] /\ Holds(q, v)
        BY <1>2, <2>1, <3>3 DEF Honest
      <4>2. \A x \in Sessions : session'[x].live /\ session'[x].user = v =>
                                    session[x].live /\ session[x].user = v
        BY <2>6, <3>3
      <4>3. ASSUME pc[q] = "password.written", call[q].user = v
            PROVE  session'[call[q].token] = session[call[q].token]
        <5>1. call[q].token \in Sessions /\ session[call[q].token].user = v
          BY <4>3 DEF CredInv, Tokens, TokenFits
        <5>2. call[q].token # s  BY <1>4, <5>1, NothingIsNew
        <5> QED  BY <1>3, <5>1, <5>2
      <4> QED  BY <2>1, <4>1, <4>2, <4>3 DEF Holds
    <3> QED  BY <3>1, <3>2, <3>3
  <2> QED  BY <2>3, <2>7, <2>8, <2>9 DEF Honest
<1> QED  BY <1>6, <1>7, <1>8 DEF CredInv

LEMMA ExpireStep ==
  ASSUME Inv, CredInv, NEW s \in Sessions, Expire(s)
  PROVE  CredInv'
<1>1. /\ UNCHANGED <<userVars, pc, call, crossed>> /\ Shrinks
  BY RevokeShrinks DEF Expire, Inv, TypeInv
<1>2. Known'
  BY <1>1 DEF CredInv, Known, userVars, Shrinks
<1>3. Tokens'
  BY <1>1 DEF CredInv, Tokens, TokenFits, Shrinks
<1>4. ASSUME NEW u \in Users \ crossed' PROVE Honest(u)'
  <2>1. Honest(u)  BY <1>1 DEF CredInv
  <2>2. Single(u)' /\ Knows(u)' /\ One(u)'
    BY <1>1, <2>1 DEF Honest, Single, Cred, Knows, Renewing, One, Shrinks, userVars
  <2>3. \A r \in Requests : Holds(r, u)'
    BY <1>1, <2>1 DEF Honest, Holds, CredInv, Tokens, TokenFits, Shrinks, userVars
  <2> QED  BY <2>2, <2>3 DEF Honest
<1> QED  BY <1>2, <1>3, <1>4 DEF CredInv

LEMMA CredSteps == Inv /\ CredInv /\ [Next]_vars => CredInv'
<1> SUFFICES ASSUME Inv, CredInv, [Next]_vars PROVE CredInv'  OBVIOUS
<1>1. Inv'  BY Steps
<1>2. ASSUME NEW r \in Requests, OwnAccount(r) \/ Accounts(r) \/ Workspaces(r) \/ Members(r)
      PROVE  CredInv'
  <2>1. Others(r)  BY <1>2, RequestSteps DEF Good
  <2>2. ReadsOnly(r) \/ WritesUsers(r) \/ EndsSessions(r) => CredInv'  BY <1>1, <2>1, AwaySteps
  <2>3. CASE OwnAccount(r)
    <3>1. ASSUME NEW u \in Users PROVE LoginVerify(r, u) => CredInv'  BY <1>1, <2>1, VerifyStep
    <3>2. ASSUME NEW u \in Users, NEW t \in Tenants PROVE RegisterCommit(r, u, t) => CredInv'
      BY <1>1, <2>1, RegisterStep
    <3>3. ASSUME NEW s \in Sessions PROVE LoginIssue(r, s) \/ Authenticate(r, s) => CredInv'
      BY <1>1, <2>1, IssueStep, AuthenticateStep
    <3>4. RegisterProvision(r) \/ LoginHash(r) \/ LoginRevoke(r) => CredInv'
      BY <1>1, <2>1, RegisterProvisionStep, HashStep, LoginRevokeStep
    <3>5. ChangeVerify(r) \/ ChangeWrite(r) \/ ChangeRevoke(r) => CredInv'
      BY <1>1, <2>1, ChangeVerifyStep, ChangeWriteStep, EndOfChange
    <3> QED  BY <2>2, <2>3, <3>1, <3>2, <3>3, <3>4, <3>5 DEF OwnAccount, ReadsOnly, EndsSessions
  <2>4. CASE Accounts(r)
    <3>1. ASSUME NEW u \in Users PROVE ResetWrite(r, u) => CredInv'  BY <1>1, <2>1, ResetStep
    <3>2. ResetRevoke(r) => CredInv'  BY <1>1, <2>1, EndOfChange
    <3> QED  BY <2>2, <2>4, <3>1, <3>2 DEF Accounts, ReadsOnly, WritesUsers, EndsSessions
  <2>5. CASE Workspaces(r)  BY <2>2, <2>5 DEF Workspaces, ReadsOnly, WritesUsers, EndsSessions
  <2>6. CASE Members(r)  BY <2>2, <2>6 DEF Members, ReadsOnly, WritesUsers, EndsSessions
  <2> QED  BY <1>2, <2>3, <2>4, <2>5, <2>6
<1>3. ASSUME NEW s \in Sessions, Expire(s) PROVE CredInv'  BY <1>3, ExpireStep
<1>4. CASE UNCHANGED vars
  <2>1. UNCHANGED <<userVars, session, pc, call, crossed>>  BY <1>4 DEF vars
  <2> QED  BY <2>1 DEF CredInv, Known, Tokens, TokenFits, Honest, Single, Cred, Knows, Renewing,
                       One, Holds, userVars
<1> QED  BY <1>2, <1>3, <1>4 DEF Next

LEMMA CredHolds == Spec => [](Inv /\ CredInv)
<1>1. Init => CredInv
  <2> SUFFICES ASSUME Init PROVE CredInv  OBVIOUS
  <2>1. \A u \in Users : password[u] = 0  BY DEF Init
  <2>2. \A s \in Sessions : ~ session[s].live  BY DEF Init, Unissued
  <2>3. \A r \in Requests : pc[r] = "idle"  BY DEF Init
  <2> QED  BY <2>1, <2>2, <2>3 DEF CredInv, Known, Tokens, TokenFits, Honest, Single, Cred, Knows,
                                   Renewing, One, Holds, Login, Credential
<1>2. Inv /\ CredInv /\ [Next]_vars => CredInv'  BY CredSteps
<1> QED  BY <1>1, <1>2, Invariance, PTL DEF Spec

(* Once a reset or a change of the password is done, every session left    *)
(* was opened with the new one, unless requests about this user's          *)
(* credentials overlapped (service.go:893 and 441).                        *)
THEOREM OldPasswordsOpenNothing == Spec => []SessionsKnowThePassword
<1>1. Inv /\ CredInv => SessionsKnowThePassword
  <2> SUFFICES ASSUME Inv, CredInv, NEW s \in Sessions, session[s].live,
                      session[s].user \notin crossed
               PROVE  \/ session[s].password = password[session[s].user]
                      \/ \E r \in Requests : Renewing(r, session[s].user)
    BY DEF SessionsKnowThePassword, Renewing
  <2>1. session[s].user \in Users  BY DEF Inv, TypeInv, SessionsTyped
  <2> QED  BY <2>1 DEF CredInv, Honest, Knows
<1> QED  BY <1>1, CredHolds, PTL

(* A user has one live session, unless two of its logins overlapped        *)
(* (service.go:407).                                                       *)
THEOREM LoginsReplaceEachOther == Spec => []OneSession
<1>1. Inv /\ CredInv => OneSession
  <2> SUFFICES ASSUME Inv, CredInv, NEW x \in Sessions, NEW y \in Sessions,
                      session[x].live, session[y].live, session[x].user = session[y].user,
                      session[x].user \notin crossed
               PROVE  x = y
    BY DEF OneSession
  <2>1. session[x].user \in Users  BY DEF Inv, TypeInv, SessionsTyped
  <2> QED  BY <2>1 DEF CredInv, Honest, One
<1> QED  BY <1>1, CredHolds, PTL

=============================================================================
