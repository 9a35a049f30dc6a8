----------------------------- MODULE RequestFlow -----------------------------
(***************************************************************************)
(* The requests that start, cancel and end the work of a tenant's users,   *)
(* over the Run registry (RunManager) and the tenants' data plane          *)
(* (TenantLifecycle): posting a message (messageCore and executeTurn in    *)
(* channel/http/analyze.go), deleting a session and cancelling its Run,    *)
(* and the changes of roles, accounts and tenants after which the HTTP     *)
(* handlers cancel Runs (members.go, admin_users.go).                      *)
(*                                                                         *)
(* A request is a goroutine; an action is one access to the identity       *)
(* store, the registry of runtimes, the history database or the Run        *)
(* registry, each of which has its own lock.  What the identity service    *)
(* checks before it writes is in Membership; here a change is its write.   *)
(***************************************************************************)
EXTENDS RunManager, TenantLifecycle

CONSTANTS
    Customers,
    Requests,           \* one token per request in flight
    MaxCalls,           \* bound of the model: requests begun
    MaxGrants,          \* bound of the model: rights given
    NoUser, NoCustomer

ASSUME MaxCallsType == {MaxCalls, MaxGrants} \subseteq Nat
ASSUME NobodyIsNew  == NoUser \notin Users /\ NoCustomer \notin Customers

VARIABLES
    rank,       \* memberships.role
    enabled,    \* users.status = "active"
    session,    \* the row of a key in sessions
    request,    \* where a request is, and what it has read
    work,       \* what executeTurn holds of its request, and how far it is
    calls, grants,
    \* What happened, for the properties only:
    late,       \* Runs whose request a revocation overtook before Start
    crossing,   \* Runs started while a deletion was past its busy check
    lost,       \* Runs of which a message was not stored
    revived     \* tenants served again while their closing was under way

flowVars    == <<rank, enabled, session, request, work, calls, grants>>
startGhosts == <<late, crossing>>
ghostVars   == <<startGhosts, lost, revived>>
allVars     == <<vars, lifeVars, flowVars, ghostVars>>

-----------------------------------------------------------------------------

(* analyst, reviewer and member differ from owner and admin only. *)
Rank == {"none", "member", "admin"}

Row == [owner : Users \cup {NoUser}, customer : Customers \cup {NoCustomer}, gone : BOOLEAN]
NoRow == [owner |-> NoUser, customer |-> NoCustomer, gone |-> FALSE]

MessageStep == {"message", "message.ready", "message.looked", "message.ensured"}
DeleteStep  == {"delete", "delete.ready", "delete.idle", "delete.allowed", "delete.written"}
CancelStep  == {"cancel", "cancel.ready", "cancel.allowed"}
RevokeStep  == {"role.written", "user.written",
                "tenant.written", "tenant.dropped", "tenant.evicted"}

Request == [step : {"idle"} \cup MessageStep \cup DeleteStep \cup CancelStep \cup RevokeStep,
            user : Users \cup {NoUser}, tenant : Tenants \cup {NoTenant}, key : Keys \cup {NoKey},
            rank : Rank, customer : Customers \cup {NoCustomer}, handle : Nat,
            known : BOOLEAN, stale : BOOLEAN, doomed : BOOLEAN]

Fresh(step, u, t, k, role, c) ==
    [step |-> step, user |-> u, tenant |-> t, key |-> k, rank |-> role, customer |-> c,
     handle |-> 0, known |-> FALSE, stale |-> FALSE, doomed |-> FALSE]

Idle == Fresh("idle", NoUser, NoTenant, NoKey, "none", NoCustomer)

(* The request p further on: what it has read, and what overtook it. *)
Later(p, step, handle, known, stale, doomed) ==
    [step |-> step, user |-> p.user, tenant |-> p.tenant, key |-> p.key, rank |-> p.rank,
     customer |-> p.customer, handle |-> handle, known |-> known, stale |-> stale,
     doomed |-> doomed]

Moved(p, step, handle, known) == Later(p, step, handle, known, p.stale, p.doomed)
Marked(p, stale, doomed)      == Later(p, p.step, p.handle, p.known, stale, doomed)

Work   == [rank : Rank, handle : Nat, step : {"none", "begun", "asked", "answered"}]
NoWork == [rank |-> "none", handle |-> 0, step |-> "none"]

At(q, step)   == request[q].step = step
Go(q, step)   == request' = [request EXCEPT ![q] = Moved(@, step, @.handle, @.known)]
Finish(q)     == request' = [request EXCEPT ![q] = Idle]
FinishIf(q, over, step) == IF over THEN Finish(q) ELSE Go(q, step)

(* validate: account, tenant and membership; "none" is refused. *)
Served == {"active", "failed"}
Rights(u, t) == IF enabled[u] /\ status[t] \in Served THEN rank[t][u] ELSE "none"

(* EnsureSessionScoped and sessionWritableTo: the rank is the one the      *)
(* request was authenticated with.                                         *)
Exists(k)      == session[k].owner # NoUser
Writable(q, k) == Exists(k) /\ ~session[k].gone
                    /\ (request[q].rank = "admin" \/ session[k].owner = request[q].user)

Executing(r) == pc[r] \in {"body", "panicked"}

FlowInit ==
    /\ Init /\ LifeInit
    /\ rank     = [t \in Tenants |-> [u \in Users |-> "none"]]
    /\ enabled  = [u \in Users |-> TRUE]
    /\ session  = [k \in Keys |-> NoRow]
    /\ request  = [q \in Requests |-> Idle]
    /\ work     = [r \in Runs |-> NoWork]
    /\ calls    = 0 /\ grants = 0
    /\ late     = {} /\ crossing = {} /\ lost = {} /\ revived = {}

-----------------------------------------------------------------------------
(* What every handler of a business route does first. *)

Call(q) == serving /\ At(q, "idle") /\ calls < MaxCalls /\ calls' = calls + 1

(* RequireAuth: the scope is read once. *)
Authenticate(q, u, k, c, step) ==
    LET t == TenantOf[k] IN
    /\ Call(q)
    /\ Rights(u, t) # "none"
    /\ request' = [request EXCEPT ![q] = Fresh(step, u, t, k, Rights(u, t), c)]
    /\ UNCHANGED <<vars, lifeVars, rank, enabled, session, work, grants, ghostVars>>

(* Server.rt: ForTenant builds the runtime if none is cached. *)
Resolve(q, from, to) ==
    LET t == request[q].tenant IN
    /\ At(q, from)
    /\ IF Cached(t)
       THEN /\ request' = [request EXCEPT ![q] = Moved(@, to, runtime[t], FALSE)]
            /\ UNCHANGED registryVars
       ELSE IF folder[t] # {}
            THEN /\ OpenRuntime(t)
                 /\ request' = [request EXCEPT ![q] = Moved(@, to, opened[t] + 1, FALSE)]
            ELSE Finish(q) /\ UNCHANGED registryVars
    /\ UNCHANGED <<vars, legacy, serving, status, fileVars, job, boundVars, lifeGhosts,
                   rank, enabled, session, work, calls, grants, ghostVars>>

(* A closed history answers every query with an error. *)
Usable(q) == <<request[q].tenant, request[q].handle>> \in open

Elsewhere == UNCHANGED <<lifeVars, rank, enabled, calls, grants>>

-----------------------------------------------------------------------------
(* messageCore. *)

LookUp(q) ==
    /\ At(q, "message.ready")
    /\ IF Usable(q)
       THEN request' = [request EXCEPT
                ![q] = Moved(@, "message.looked", @.handle, Exists(request[q].key))]
       ELSE Finish(q)
    /\ UNCHANGED <<vars, session, work, ghostVars>> /\ Elsewhere

(* Mutant: the customer is written whenever one is given. *)
BindsAlways(q) == request[q].customer # NoCustomer

(* The customer a message writes: none once the session was seen. *)
Binds(q) == request[q].customer # NoCustomer /\ ~request[q].known

(* EnsureSessionScoped, and GetSession with the comparison of customers:   *)
(* what the second reads can only be changed by a first message in flight. *)
Ensure(q) ==
    LET k == request[q].key
        c == request[q].customer
        mine == Usable(q) /\ (Writable(q, k) \/ ~Exists(k))
        row  == [owner    |-> IF Exists(k) THEN session[k].owner ELSE request[q].user,
                 customer |-> IF Binds(q) THEN c ELSE session[k].customer,
                 gone     |-> session[k].gone]
        fits == request[q].known /\ c # NoCustomer => row.customer = c
    IN  /\ At(q, "message.looked")
        /\ session' = IF mine THEN [session EXCEPT ![k] = row] ELSE session
        /\ FinishIf(q, ~(mine /\ fits), "message.ensured")
        /\ UNCHANGED <<vars, work, ghostVars>> /\ Elsewhere

Ensured(q, k) == At(q, "message.ensured") /\ request[q].key = k

DeletionUnderWay(k) ==
    \E d \in Requests : request[d].step \in {"delete.idle", "delete.allowed"} /\ request[d].key = k

StartRun(q, r) ==
    LET k == request[q].key IN
    /\ At(q, "message.ensured") /\ actor[r] = request[q].user
    /\ Start(r, k)
    /\ work' = [work EXCEPT ![r] = [rank |-> request[q].rank, handle |-> request[q].handle,
                                    step |-> "begun"]]
    /\ late' = IF request[q].stale THEN late \cup {r} ELSE late
    /\ crossing' = IF request[q].doomed \/ DeletionUnderWay(k) THEN crossing \cup {r} ELSE crossing
    /\ Finish(q)
    /\ UNCHANGED <<session, lost, revived>> /\ Elsewhere

(* ErrRunBusy: 409, and nothing is written. *)
Busy(q) ==
    /\ At(q, "message.ensured") /\ active[request[q].key] # NoRun
    /\ Finish(q)
    /\ UNCHANGED <<vars, session, work, ghostVars>> /\ Elsewhere

MessageRequest(q) ==
    \/ Resolve(q, "message", "message.ready") \/ LookUp(q) \/ Ensure(q)
    \/ Busy(q) \/ \E r \in Runs : StartRun(q, r)

-----------------------------------------------------------------------------
(* The Run's body: the question is stored, the agent works and may bind a  *)
(* customer, the answer or the failure is stored.                          *)

Handle(r) == <<TenantOf[runKey[r]], work[r].handle>>

Store(r) == lost' = IF Handle(r) \in open THEN lost ELSE lost \cup {r}

WriteMessage(r, from, to) ==
    /\ pc[r] = "body" /\ work[r].step = from
    /\ work' = [work EXCEPT ![r].step = to]
    /\ Store(r)
    /\ UNCHANGED <<vars, session, request, startGhosts, revived>> /\ Elsewhere

(* Mutant: the agent's binding replaces the customer. *)
BindOver(r, c) ==
    LET k == runKey[r] IN
    /\ pc[r] = "body" /\ work[r].step = "asked"
    /\ Handle(r) \in open
    /\ ~session[k].gone
    /\ session' = [session EXCEPT ![k].customer = c]
    /\ UNCHANGED <<vars, request, work, ghostVars>> /\ Elsewhere

BindCustomerOnce(r, c) ==
    LET k == runKey[r] IN
    /\ pc[r] = "body" /\ work[r].step = "asked"
    /\ Handle(r) \in open
    /\ ~session[k].gone /\ session[k].customer = NoCustomer
    /\ session' = [session EXCEPT ![k].customer = c]
    /\ UNCHANGED <<vars, request, work, ghostVars>> /\ Elsewhere

(* fn returns once the answer is stored, and may panic before. *)
RunGoesOn(r) ==
    /\ \/ Return(r) /\ work[r].step = "answered"
       \/ Panic(r) \/ Recover(r) \/ Unregister(r) \/ CloseDone(r)
    /\ UNCHANGED <<session, request, work, ghostVars>> /\ Elsewhere

RunOf(r) ==
    \/ WriteMessage(r, "begun", "asked") \/ WriteMessage(r, "asked", "answered")
    \/ \E c \in Customers : BindCustomerOnce(r, c)
    \/ RunGoesOn(r)

-----------------------------------------------------------------------------
(* handleSessionDelete and handleRunCancel. *)

(* Mutant: no busy check. *)
NotBusyUnchecked(q) ==
    /\ At(q, "delete.ready")
    /\ Go(q, "delete.idle")
    /\ UNCHANGED <<vars, session, work, ghostVars>> /\ Elsewhere

NotBusy(q) ==
    /\ At(q, "delete.ready")
    /\ FinishIf(q, active[request[q].key] # NoRun, "delete.idle")
    /\ UNCHANGED <<vars, session, work, ghostVars>> /\ Elsewhere

Allowed(q, from, to) ==
    /\ At(q, from)
    /\ FinishIf(q, ~(Usable(q) /\ Writable(q, request[q].key)), to)
    /\ UNCHANGED <<vars, session, work, ghostVars>> /\ Elsewhere

DeleteWrite(q) ==
    /\ At(q, "delete.allowed")
    /\ IF Usable(q)
       THEN /\ session' = [session EXCEPT ![request[q].key].gone = TRUE]
            /\ request' = [p \in Requests |->
                  IF p = q THEN Moved(request[q], "delete.written", request[q].handle, FALSE)
                  ELSE Marked(request[p], request[p].stale,
                              request[p].doomed \/ Ensured(p, request[q].key))]
       ELSE Finish(q) /\ UNCHANGED session
    /\ UNCHANGED <<vars, work, ghostVars>> /\ Elsewhere

DeleteRequest(q) ==
    \/ Resolve(q, "delete", "delete.ready") \/ NotBusy(q)
    \/ Allowed(q, "delete.idle", "delete.allowed") \/ DeleteWrite(q)
    \/ /\ At(q, "delete.written") /\ DropSession(request[q].key) /\ Finish(q)
       /\ UNCHANGED <<session, work, ghostVars>> /\ Elsewhere

CancelRequest(q) ==
    \/ Resolve(q, "cancel", "cancel.ready")
    \/ Allowed(q, "cancel.ready", "cancel.allowed")
    \/ /\ At(q, "cancel.allowed") /\ Finish(q)
       /\ IF active[request[q].key] = NoRun THEN UNCHANGED vars ELSE Cancel(request[q].key)
       /\ UNCHANGED <<session, work, ghostVars>> /\ Elsewhere

-----------------------------------------------------------------------------
(* Changes of rights.  The write, then the cancellations. *)

Revoke(q, u, t, step) ==
    /\ Call(q)
    /\ request' = [request EXCEPT ![q] = Fresh(step, u, t, NoKey, "none", NoCustomer)]
    /\ UNCHANGED <<vars, session, work, grants, ghostVars>>

(* MembersSetRole, MembersRemove and the platform's forms of both. *)
ChangeRole(q, t, u, role) ==
    /\ rank[t][u] # "none" /\ status[t] \notin {"absent", "deleted"}
    /\ rank' = [rank EXCEPT ![t][u] = role]
    /\ Revoke(q, u, t, "role.written")
    /\ UNCHANGED <<enabled, lifeVars>>

(* AdminSetUserStatus(disabled) and AdminDeleteUser. *)
DisableUser(q, u) ==
    /\ enabled[u]
    /\ enabled' = [enabled EXCEPT ![u] = FALSE]
    /\ Revoke(q, u, NoTenant, "user.written")
    /\ UNCHANGED <<rank, lifeVars>>

(* AdminSetTenantStatus(disabled) and AdminDeleteTenant. *)
CloseDown(q, t, st) ==
    /\ Switch(t, st)
    /\ Revoke(q, NoUser, t, "tenant.written")
    /\ UNCHANGED <<rank, enabled>>

Closing(t) == \E q \in Requests : request[q].step \in {"tenant.written", "tenant.dropped",
                                                       "tenant.evicted"} /\ request[q].tenant = t

Revive == revived' = revived \cup {t \in Tenants : status[t] \notin Served /\ status'[t] \in Served
                                                     /\ Closing(t)}

(* Without a cancellation: a new member, an account enabled, and a tenant  *)
(* enabled, which is provisioned only if it is marked failed (Resume).     *)
Grant ==
    /\ \/ /\ serving /\ grants < MaxGrants /\ grants' = grants + 1
          /\ \/ \E t \in Tenants, u \in Users, role \in Rank \ {"none"} :
                  /\ rank[t][u] = "none" /\ status[t] \notin {"absent", "deleted"}
                  /\ rank' = [rank EXCEPT ![t][u] = role]
                  /\ UNCHANGED enabled
             \/ \E u \in Users :
                  /\ ~enabled[u] /\ enabled' = [enabled EXCEPT ![u] = TRUE]
                  /\ UNCHANGED rank
          /\ UNCHANGED lifeVars
       \/ /\ \E t \in Tenants : Switch(t, "active")
          /\ UNCHANGED <<rank, enabled, grants>>
    /\ Revive
    /\ UNCHANGED <<vars, session, request, work, calls, startGhosts, lost>>

(* The messages a cancellation comes too early for, as the request q ends  *)
(* or goes on.                                                             *)
Messages == {p \in Requests : request[p].step \in MessageStep}

Overtake(q, next, hit) ==
    request' = [p \in Requests |->
        IF p = q THEN next
        ELSE Marked(request[p], request[p].stale \/ p \in hit, request[p].doomed)]

CancelMember(q) ==
    LET theirs == {p \in Messages : /\ request[p].user = request[q].user
                                    /\ request[p].tenant = request[q].tenant}
    IN  /\ At(q, "role.written")
        /\ CancelTenantUser(request[q].tenant, request[q].user)
        /\ Overtake(q, Idle, theirs)
        /\ UNCHANGED <<session, work, ghostVars>> /\ Elsewhere

(* Mutant: a disabled account only loses its session. *)
ForgetAccount(q) ==
    /\ At(q, "user.written")
    /\ Finish(q)
    /\ UNCHANGED <<vars, session, work, ghostVars>> /\ Elsewhere

CancelAccount(q) ==
    LET theirs == {p \in Messages : request[p].user = request[q].user}
    IN  /\ At(q, "user.written")
        /\ CancelUser(request[q].user)
        /\ Overtake(q, Idle, theirs)
        /\ UNCHANGED <<session, work, ghostVars>> /\ Elsewhere

(* Mutant: the runtime is closed before the Runs are cancelled. *)
KeepRuns(q) ==
    /\ At(q, "tenant.written")
    /\ Go(q, "tenant.dropped")
    /\ UNCHANGED <<vars, session, work, ghostVars>> /\ Elsewhere

CancelTenant(q) ==
    LET theirs == {p \in Messages : request[p].tenant = request[q].tenant}
    IN  /\ At(q, "tenant.written")
        /\ DropTenant(request[q].tenant)
        /\ Overtake(q, Moved(request[q], "tenant.dropped", 0, FALSE), theirs)
        /\ UNCHANGED <<session, work, ghostVars>> /\ Elsewhere

CloseTenant(q) ==
    LET t == request[q].tenant IN
    /\ \/ /\ At(q, "tenant.dropped")
          /\ Evict(t)
          /\ request' = [request EXCEPT ![q] = IF Cached(t)
                            THEN Moved(@, "tenant.evicted", runtime[t], FALSE)
                            ELSE Idle]
       \/ /\ At(q, "tenant.evicted")
          /\ CloseHistory(t, request[q].handle)
          /\ Finish(q)
    /\ UNCHANGED <<vars, legacy, serving, status, fileVars, job, boundVars, lifeGhosts,
                   rank, enabled, session, work, calls, grants, ghostVars>>

RevokeRequest(q) ==
    \/ CancelMember(q) \/ CancelAccount(q) \/ CancelTenant(q) \/ CloseTenant(q)

-----------------------------------------------------------------------------

BeginRequest(q) ==
    \/ \E u \in Users, k \in Keys :
        \/ \E c \in Customers \cup {NoCustomer} : Authenticate(q, u, k, c, "message")
        \/ Authenticate(q, u, k, NoCustomer, "delete")
        \/ Authenticate(q, u, k, NoCustomer, "cancel")
    \/ \E t \in Tenants, u \in Users, role \in Rank : ChangeRole(q, t, u, role)
    \/ \E u \in Users : DisableUser(q, u)
    \/ \E t \in Tenants : CloseDown(q, t, "disabled") \/ CloseDown(q, t, "deleted")

(* TenantLifecycle's own steps.  Resume is called by a member whose        *)
(* session is valid, or by the platform's administrator.                   *)
Provisioning ==
    /\ \/ \E j \in Jobs, t \in Tenants, u \in Users :
            Register(j, t) /\ rank' = [rank EXCEPT ![t][u] = "admin"]
       \/ /\ \/ \E j \in Jobs : \/ \E t \in Tenants : Resume(j, t)
                              \/ Migrate(j) \/ JobStep(j)
             \/ Listen
          /\ UNCHANGED rank
    /\ Revive
    /\ UNCHANGED <<vars, enabled, session, request, work, calls, grants,
                   startGhosts, lost>>

(* What is in memory is gone. *)
Crash ==
    /\ LifeCrash
    /\ active' = [k \in Keys |-> NoRun]
    /\ Forget(Keys)
    /\ pc' = [r \in Runs |-> IF pc[r] = "unborn" THEN "unborn" ELSE "over"]
    /\ todo' = [r \in Runs |-> {}]
    /\ UNCHANGED <<runKey, actor, cancelled, event>> /\ UNCHANGED chanVars
    /\ request' = [q \in Requests |-> Idle]
    /\ UNCHANGED <<rank, enabled, session, work, calls, grants, ghostVars>>

FlowNext ==
    \/ \E q \in Requests : BeginRequest(q) \/ MessageRequest(q) \/ DeleteRequest(q)
                               \/ CancelRequest(q) \/ RevokeRequest(q)
    \/ \E r \in Runs : RunOf(r)
    \/ Grant \/ Provisioning \/ Crash

FlowSpec == FlowInit /\ [][FlowNext]_allVars

-----------------------------------------------------------------------------
(* Properties. *)

FlowTypeOK ==
    /\ TypeOK /\ LifeTypeOK
    /\ rank     \in [Tenants -> [Users -> Rank]]
    /\ enabled  \in [Users -> BOOLEAN]
    /\ session  \in [Keys -> Row]
    /\ request  \in [Requests -> Request]
    /\ work     \in [Runs -> Work]
    /\ calls \in 0 .. MaxCalls /\ grants \in 0 .. MaxGrants
    /\ late \subseteq Runs /\ crossing \subseteq Runs /\ lost \subseteq Runs
    /\ revived \subseteq Tenants

RevocationUnderWay(r) ==
    \E q \in Requests :
        \/ At(q, "role.written") /\ request[q].user = actor[r] /\ request[q].tenant = TenantOf[runKey[r]]
        \/ At(q, "user.written") /\ request[q].user = actor[r]
        \/ At(q, "tenant.written") /\ request[q].tenant = TenantOf[runKey[r]]

(* A Run that was not cancelled works with the rights its user still has:  *)
(* whatever changes them, a role, an account or the tenant, cancels the    *)
(* Runs it concerns, in every order with Start.  The exception is a        *)
(* request that was authenticated before the change and starts its Run     *)
(* after the cancellation, which nothing checks again.                     *)
RunsKeepTheirRights ==
    \A r \in Runs : Executing(r) /\ ~cancelled[r] /\ r \notin late =>
        Rights(actor[r], TenantOf[runKey[r]]) = work[r].rank \/ RevocationUnderWay(r)

(* store.go:472, analyze.go:91: a session's customer, once set, stays.     *)
(* Only a message that saw no session when it looked may still write over  *)
(* it; neither the agent's binding nor a later message does.               *)
CustomerStaysBound ==
    [][\A k \in Keys :
         session[k].customer # NoCustomer /\ session'[k].customer # session[k].customer =>
            \E q \in Requests : At(q, "message.looked") /\ request[q].key = k
                                  /\ ~request[q].known /\ request'[q].step # "message.looked"]_allVars

(* A deleted session is quiet: a Run executes in it only if it started     *)
(* between the deletion's busy check and its write.                        *)
DeletedStaysQuiet ==
    \A r \in Runs : Registered(r) /\ session[runKey[r]].gone => r \in crossing

(* Closing a tenant's history loses no message of a Run that was not told: *)
(* the Runs are cancelled before their history is closed.  The exceptions  *)
(* are a late Run, and a tenant that is served again while the handler     *)
(* that disabled it has still to close the history.                        *)
OnlyToldRunsLose ==
    \A r \in lost : cancelled[r] \/ r \in late \/ TenantOf[runKey[r]] \in revived

(* No history stays open that the registry has forgotten: one open handle  *)
(* per tenant, besides those a CloseTenant is about to close.              *)
NoHistoryLeaks ==
    \A h \in open : \/ runtime[h[1]] = h[2]
                    \/ \E q \in Requests : At(q, "tenant.evicted") /\ request[q].tenant = h[1]
                                             /\ request[q].handle = h[2]

=============================================================================
