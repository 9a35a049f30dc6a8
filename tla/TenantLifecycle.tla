--------------------------- MODULE TenantLifecycle ---------------------------
(***************************************************************************)
(* The data plane of a tenant: how its directory comes to be, who keeps    *)
(* its history open, and what the tenant's status says of it               *)
(* (internal/tenancy/runtime.go, ensureLegacyTenant in cmd/agent/main.go,  *)
(* and the callers of the provisioner in internal/identity/service.go).    *)
(*                                                                         *)
(* A job is one execution of Provision or MigrateLegacy with the status    *)
(* update that follows it; each of its file operations is an action, and   *)
(* each may fail.  A directory is the set of the parts it holds, {} when   *)
(* it does not exist.  A history that was opened is a handle <<t, n>>.     *)
(***************************************************************************)
EXTENDS Naturals, TenantIds

CONSTANTS
    Jobs,       \* one token per job in flight
    MaxJobs,    \* bound of the model: jobs begun
    MaxCrashes, \* bound of the model: restarts of the process
    MaxSwitches \* bound of the model: status changes by an administrator

ASSUME LifeBoundsType == {MaxJobs, MaxCrashes, MaxSwitches} \subseteq Nat

VARIABLES
    legacy,     \* the tenant an old single-tenant history.db is for
    serving,    \* the server listens; before that, main prepares
    status,     \* tenants.status
    folder,     \* tenants/<id>
    staging,    \* tenants/<id>.staging
    job, jobs,  \* the jobs in flight, and how many were begun
    runtime,    \* Registry.runtimes: the handle of a tenant, 0 without
    opened,     \* how often a tenant's history was opened
    open,       \* the handles that are not closed
    crashes, switches,
    \* What happened, for the properties only:
    crossed,    \* tenants of which two jobs overlapped
    skipped     \* tenants enabled before they had a directory

fileVars     == <<folder, staging>>
registryVars == <<runtime, opened, open>>
boundVars    == <<jobs, crashes, switches>>
lifeGhosts   == <<crossed, skipped>>
lifeVars     == <<legacy, serving, status, fileVars, job, registryVars, boundVars, lifeGhosts>>

Part  == {"dir", "history", "old", "wiki", "meta"}
Whole == {"dir", "history", "wiki", "meta"}

Status == {"absent", "provisioning", "failed", "active", "disabled", "deleted"}

Kind == {"none", "register", "resume", "migrate", "remigrate"}
Step == {"idle", "begin", "copy", "history", "wiki", "meta", "rename", "done", "failed"}
Job  == [kind : Kind, tenant : Tenants \cup {NoTenant}, step : Step]

NoJob == [kind |-> "none", tenant |-> NoTenant, step |-> "idle"]

LifeInit ==
    /\ legacy \in Tenants \cup {NoTenant}
    /\ serving = FALSE
    /\ status  = [t \in Tenants |-> "absent"]
    /\ folder  = [t \in Tenants |-> {}]
    /\ staging = [t \in Tenants |-> {}]
    /\ job     = [j \in Jobs |-> NoJob]
    /\ jobs    = 0 /\ crashes = 0 /\ switches = 0
    /\ runtime = [t \in Tenants |-> 0]
    /\ opened  = [t \in Tenants |-> 0]
    /\ open    = {}
    /\ crossed = {} /\ skipped = {}

-----------------------------------------------------------------------------
(* Who begins a job. *)

Begin(j, t, kind) ==
    /\ job[j] = NoJob /\ jobs < MaxJobs
    /\ jobs' = jobs + 1
    /\ job' = [job EXCEPT ![j] = [kind |-> kind, tenant |-> t, step |-> "begin"]]
    /\ crossed' = IF \E i \in Jobs : job[i].tenant = t THEN crossed \cup {t} ELSE crossed
    /\ UNCHANGED <<legacy, serving, fileVars, registryVars, crashes, switches, skipped>>

SetStatus(t, st) == status' = [status EXCEPT ![t] = st]

(* main: the old data is migrated before the server listens, unless its    *)
(* tenant is active already; again if the row is there from an earlier     *)
(* start.                                                                  *)
MustMigrate == legacy # NoTenant /\ status[legacy] # "active"

Migrate(j) ==
    /\ ~serving /\ MustMigrate
    /\ \A i \in Jobs : job[i] = NoJob
    /\ \/ /\ status[legacy] = "absent"
          /\ Begin(j, legacy, "migrate") /\ SetStatus(legacy, "provisioning")
       \/ /\ status[legacy] # "absent"
          /\ Begin(j, legacy, "remigrate") /\ UNCHANGED status

Listen ==
    /\ ~serving /\ ~MustMigrate
    /\ serving' = TRUE
    /\ UNCHANGED <<legacy, status, fileVars, job, registryVars, boundVars, lifeGhosts>>

(* Register, and AdminCreateTenant: the row is committed first. *)
Register(j, t) ==
    /\ serving /\ status[t] = "absent"
    /\ Begin(j, t, "register")
    /\ SetStatus(t, "provisioning")

(* ResumeProvision by a member, or AdminSetTenantStatus(active). *)
Resume(j, t) ==
    /\ serving /\ status[t] = "failed"
    /\ Begin(j, t, "resume")
    /\ UNCHANGED status

(* AdminSetTenantStatus and AdminDeleteTenant, besides Resume: only a      *)
(* failed tenant is provisioned on the way to "active".                    *)
Switch(t, st) ==
    /\ serving /\ status[t] \notin {"absent", "deleted"}
    /\ st \in {"active", "disabled", "deleted"} /\ ~(st = "active" /\ status[t] = "failed")
    /\ switches < MaxSwitches /\ switches' = switches + 1
    /\ SetStatus(t, st)
    /\ skipped' = IF st = "active" /\ folder[t] = {} THEN skipped \cup {t} ELSE skipped
    /\ UNCHANGED <<legacy, serving, fileVars, job, registryVars, jobs, crashes, crossed>>

-----------------------------------------------------------------------------
(* Provision and MigrateLegacy. *)

In(j, step) == job[j].step = step
Goto(j, step) == job' = [job EXCEPT ![j].step = step]

Keep == UNCHANGED <<legacy, serving, status, registryVars, boundVars, lifeGhosts>>

Add(j, parts) == staging' = [staging EXCEPT ![job[j].tenant] = @ \cup parts]

Migrating(j) == job[j].kind \in {"migrate", "remigrate"}

(* Mutant: the directory is made in place, without the rename. *)
ClearInPlace(j) ==
    LET t == job[j].tenant IN
    /\ In(j, "begin")
    /\ IF folder[t] # {}
       THEN Goto(j, "done") /\ UNCHANGED fileVars
       ELSE /\ folder' = [folder EXCEPT ![t] = {"dir"}]
            /\ staging' = [staging EXCEPT ![t] = {"dir"}]
            /\ Goto(j, IF Migrating(j) THEN "copy" ELSE "history")
    /\ Keep

(* Stat(active), RemoveAll(staging), MkdirAll(staging). *)
Clear(j) ==
    LET t == job[j].tenant IN
    /\ In(j, "begin")
    /\ IF folder[t] # {}
       THEN Goto(j, "done") /\ UNCHANGED staging
       ELSE /\ staging' = [staging EXCEPT ![t] = {"dir"}]
            /\ Goto(j, IF Migrating(j) THEN "copy" ELSE "history")
    /\ UNCHANGED folder /\ Keep

(* WriteFile does not create the directory; OpenTenant and MkdirAll do. *)
CopyOld(j) ==
    /\ In(j, "copy") /\ staging[job[j].tenant] # {}
    /\ Add(j, {"history", "old"}) /\ Goto(j, "history")
    /\ UNCHANGED folder /\ Keep

OpenHistory(j) ==
    /\ In(j, "history")
    /\ Add(j, {"dir", "history"}) /\ Goto(j, "wiki")
    /\ UNCHANGED folder /\ Keep

(* A migration also copies the old entries on customers and users. *)
MakeWiki(j) ==
    /\ In(j, "wiki")
    /\ Add(j, {"dir", "wiki"}) /\ Goto(j, "meta")
    /\ UNCHANGED folder /\ Keep

WriteMeta(j) ==
    /\ In(j, "meta") /\ staging[job[j].tenant] # {}
    /\ Add(j, {"meta"}) /\ Goto(j, "rename")
    /\ UNCHANGED folder /\ Keep

(* os.Rename refuses a missing source and a target that is not empty;      *)
(* in the second case another job was faster.                              *)
Rename(j) ==
    LET t == job[j].tenant IN
    /\ In(j, "rename")
    /\ folder' = IF folder[t] = {} THEN [folder EXCEPT ![t] = staging[t]] ELSE folder
    /\ staging' = [staging EXCEPT ![t] = {}]
    /\ Goto(j, IF folder[t] = {} /\ staging[t] = {} THEN "failed" ELSE "done")
    /\ Keep

StepFails(j) ==
    LET t == job[j].tenant IN
    /\ \/ job[j].step \in {"copy", "history", "wiki", "meta", "rename"}
       \/ In(j, "begin") /\ folder[t] = {}
    /\ staging' = [staging EXCEPT ![t] = {}]
    /\ Goto(j, "failed")
    /\ UNCHANGED folder /\ Keep

(* Mutant: a provisioning that failed is reported as done. *)
OutcomeIgnored(j) == "active"

(* What the caller writes: a repeated migration or a Resume that fails     *)
(* leaves the status as it was, "provisioning" included.                   *)
Outcome(j) ==
    IF In(j, "done") THEN "active"
    ELSE IF job[j].kind \in {"register", "migrate"} THEN "failed"
    ELSE status[job[j].tenant]

(* main listens whatever came of the migration. *)
Report(j) ==
    /\ job[j].step \in {"done", "failed"}
    /\ SetStatus(job[j].tenant, Outcome(j))
    /\ job' = [job EXCEPT ![j] = NoJob]
    /\ serving' = (serving \/ Migrating(j))
    /\ UNCHANGED <<legacy, fileVars, registryVars, boundVars, lifeGhosts>>

JobStep(j) ==
    \/ Clear(j) \/ CopyOld(j) \/ OpenHistory(j) \/ MakeWiki(j) \/ WriteMeta(j)
    \/ Rename(j) \/ StepFails(j) \/ Report(j)

-----------------------------------------------------------------------------
(* The registry: what RequestFlow's requests do to it. *)

(* Mutant: the cache is never hit. *)
CachedNever(t) == FALSE

(* ForTenant: under the registry's mutex, also while the history opens. *)
Cached(t) == runtime[t] # 0

OpenRuntime(t) ==
    /\ ~Cached(t) /\ folder[t] # {}
    /\ opened'  = [opened EXCEPT ![t] = @ + 1]
    /\ runtime' = [runtime EXCEPT ![t] = opened[t] + 1]
    /\ open' = open \cup {<<t, opened[t] + 1>>}

(* CloseTenant: out of the map under the mutex, then closed outside it. *)
Evict(t) == runtime' = [runtime EXCEPT ![t] = 0] /\ UNCHANGED <<opened, open>>
CloseHistory(t, n) == open' = open \ {<<t, n>>} /\ UNCHANGED <<runtime, opened>>

(* The process stops, by a signal or not, and starts again: only files and *)
(* rows are left.                                                          *)
LifeCrash ==
    /\ crashes < MaxCrashes /\ crashes' = crashes + 1
    /\ serving' = FALSE
    /\ job' = [j \in Jobs |-> NoJob]
    /\ runtime' = [t \in Tenants |-> 0]
    /\ open' = {}
    /\ UNCHANGED <<legacy, status, fileVars, jobs, switches, opened, lifeGhosts>>

-----------------------------------------------------------------------------

(* The life of the directories alone, without the requests that use them. *)
LifeNext ==
    \/ \E j \in Jobs : \/ Migrate(j) \/ JobStep(j)
                      \/ \E t \in Tenants : Register(j, t) \/ Resume(j, t)
    \/ \E t \in Tenants, st \in Status : Switch(t, st)
    \/ Listen \/ LifeCrash

LifeSpec == LifeInit /\ [][LifeNext]_lifeVars

-----------------------------------------------------------------------------
(* Properties. *)

LifeTypeOK ==
    /\ legacy \in Tenants \cup {NoTenant} /\ serving \in BOOLEAN
    /\ status \in [Tenants -> Status]
    /\ folder \in [Tenants -> SUBSET Part] /\ staging \in [Tenants -> SUBSET Part]
    /\ job \in [Jobs -> Job]
    /\ jobs \in 0 .. MaxJobs /\ crashes \in 0 .. MaxCrashes /\ switches \in 0 .. MaxSwitches
    /\ runtime \in [Tenants -> Nat] /\ opened \in [Tenants -> Nat]
    /\ \A h \in open : h[1] \in Tenants /\ h[2] \in 1 .. opened[h[1]]
    /\ crossed \subseteq Tenants /\ skipped \subseteq Tenants

(* runtime.go:108, "an interruption leaves no half-made directory": where  *)
(* tenants/<id> exists it is whole, whatever fails or crashes, unless two  *)
(* jobs shared its staging directory.                                      *)
ProvisionedIsWhole ==
    \A t \in Tenants : folder[t] # {} => Whole \subseteq folder[t] \/ t \in crossed

(* A tenant marked active has a directory to work in: every failed or      *)
(* interrupted provisioning leaves it in another status, unless an         *)
(* administrator enables it, which does not provision it.                  *)
ActiveIsProvisioned ==
    \A t \in Tenants : status[t] = "active" => folder[t] # {} \/ t \in skipped

(* main.go:212, "an interrupted migration can safely be tried again": the  *)
(* old data is part of the legacy tenant's directory once that exists.     *)
LegacyDataArrives ==
    legacy # NoTenant => (folder[legacy] # {} => "old" \in folder[legacy])

=============================================================================
