--------------------------- MODULE RequestFlowProofs ---------------------------
(***************************************************************************)
(* What RequestFlow guarantees for every number of tenants, sessions,      *)
(* users, requests in flight and Runs; first, what its part                *)
(* TenantLifecycle guarantees on its own, for any number of jobs, restarts *)
(* and status changes.                                                     *)
(***************************************************************************)
EXTENDS RequestFlow, RunManagerProofs

-----------------------------------------------------------------------------
(* The directories, jobs and handles of the tenants (TenantLifecycle). *)

(* LifeTypeOK without the cache of runtimes, which no job touches.         *)
FilesTyped == /\ folder \in [Tenants -> SUBSET Part] /\ staging \in [Tenants -> SUBSET Part]
              /\ status \in [Tenants -> Status] /\ job \in [Jobs -> Job]
              /\ legacy \in Tenants \cup {NoTenant} /\ serving \in BOOLEAN
              /\ crossed \subseteq Tenants /\ skipped \subseteq Tenants

CacheTyped == /\ runtime \in [Tenants -> Nat] /\ opened \in [Tenants -> Nat]
              /\ \A h \in open : h[1] \in Tenants /\ h[2] \in 1 .. opened[h[1]]

CountersTyped ==
    /\ jobs \in 0 .. MaxJobs /\ crashes \in 0 .. MaxCrashes /\ switches \in 0 .. MaxSwitches

Occupied(j) == job[j] # NoJob

(* The parts the staging directory holds when a job is at a step. *)
Needed(s) == IF s \in {"copy", "history"} THEN {"dir"}
             ELSE IF s = "wiki" THEN {"dir", "history"}
             ELSE IF s = "meta" THEN {"dir", "history", "wiki"}
             ELSE IF s = "rename" THEN Whole
             ELSE {}

(* A busy job has a tenant, whose staging directory holds what the job has *)
(* put there unless another job shared it, and whose directory exists once *)
(* the job is done.                                                        *)
Staged(j) == Occupied(j) => LET t == job[j].tenant IN
                        /\ t \in Tenants /\ job[j].step # "idle"
                        /\ t \in crossed \/ Needed(job[j].step) \subseteq staging[t]
                        /\ job[j].step = "done" => folder[t] # {}

Alone == \A i, j \in Jobs :
            i # j /\ Occupied(i) /\ Occupied(j) /\ job[i].tenant = job[j].tenant
                => job[i].tenant \in crossed

LifeInv ==
    /\ FilesTyped /\ CacheTyped /\ CountersTyped
    /\ Alone
    /\ \A j \in Jobs : Staged(j)
    /\ ProvisionedIsWhole /\ ActiveIsProvisioned

-----------------------------------------------------------------------------

(* A job goes on to another step, and writes the directories of its tenant. *)
LEMMA JobMoves ==
  ASSUME LifeInv, NEW j \in Jobs, Occupied(j), NEW s \in Step \ {"idle"},
         NEW S \in SUBSET Part, NEW F \in SUBSET Part,
         Goto(j, s), Keep,
         staging' = [staging EXCEPT ![job[j].tenant] = S],
         folder' = [folder EXCEPT ![job[j].tenant] = F],
         job[j].tenant \in crossed \/ Needed(s) \subseteq S,
         s = "done" => F # {},
         folder[job[j].tenant] # {} => F # {},
         F # {} => Whole \subseteq F \/ job[j].tenant \in crossed
  PROVE  LifeInv'
<1> DEFINE t == job[j].tenant
<1>1. t \in Tenants /\ job[j].step # "idle"  BY DEF LifeInv, Staged
<1>2. /\ folder \in [Tenants -> SUBSET Part] /\ staging \in [Tenants -> SUBSET Part]
      /\ job \in [Jobs -> Job]
  BY DEF LifeInv, FilesTyped
<1>3. /\ job'[j].step = s /\ job'[j].tenant = t /\ job' \in [Jobs -> Job]
      /\ \A i \in Jobs \ {j} : job'[i] = job[i]
      /\ s # "idle"
  BY <1>2 DEF Goto, Job
<1>4. \A i \in Jobs : Occupied(i)' <=> Occupied(i)
  <2>1. job'[j] # NoJob  BY <1>3 DEF NoJob
  <2> QED  BY <1>3, <2>1 DEF Occupied
<1>5. /\ staging' \in [Tenants -> SUBSET Part] /\ folder' \in [Tenants -> SUBSET Part]
      /\ staging'[t] = S /\ folder'[t] = F
      /\ \A u \in Tenants \ {t} : staging'[u] = staging[u] /\ folder'[u] = folder[u]
  BY <1>1, <1>2
<1>6. UNCHANGED <<legacy, serving, status, runtime, opened, open, jobs, crashes, switches,
                  crossed, skipped>>
  BY DEF Keep, registryVars, boundVars, lifeGhosts
<1>7. FilesTyped'  BY <1>3, <1>5, <1>6 DEF LifeInv, FilesTyped
<1>8. CacheTyped' /\ CountersTyped'  BY <1>6 DEF LifeInv, CacheTyped, CountersTyped
<1>9. Alone'  BY <1>3, <1>4, <1>6 DEF LifeInv, Alone
<1>10. ASSUME NEW i \in Jobs PROVE Staged(i)'
  <2>1. CASE i = j  BY <1>1, <1>3, <1>5, <1>6, <2>1 DEF Staged
  <2>2. CASE i # j /\ Occupied(i)
    <3> DEFINE u == job[i].tenant
    <3>1. /\ u \in Tenants /\ job[i].step # "idle"
          /\ u \in crossed \/ Needed(job[i].step) \subseteq staging[u]
          /\ job[i].step = "done" => folder[u] # {}
      BY <2>2 DEF LifeInv, Staged
    <3>2. job'[i] = job[i]  BY <1>3, <2>2
    <3>3. u = t => u \in crossed  BY <2>2 DEF LifeInv, Alone
    <3>4. job[i].step = "done" => folder'[u] # {}  BY <1>5, <3>1
    <3>5. u \in crossed \/ Needed(job[i].step) \subseteq staging'[u]  BY <1>5, <3>1, <3>3
    <3> QED  BY <1>6, <3>1, <3>2, <3>4, <3>5 DEF Staged
  <2>3. CASE ~Occupied(i)  BY <1>4, <2>3 DEF Staged
  <2> QED  BY <2>1, <2>2, <2>3
<1>11. ProvisionedIsWhole'
  BY <1>1, <1>5, <1>6 DEF LifeInv, ProvisionedIsWhole
<1>12. ActiveIsProvisioned'
  BY <1>1, <1>5, <1>6 DEF LifeInv, ActiveIsProvisioned
<1> QED  BY <1>7, <1>8, <1>9, <1>10, <1>11, <1>12 DEF LifeInv

LEMMA JobSteps ==
  ASSUME LifeInv, NEW j \in Jobs, JobStep(j)
  PROVE  LifeInv'
<1> DEFINE t == job[j].tenant
<1>a. Occupied(j)
  BY DEF JobStep, Clear, CopyOld, OpenHistory, MakeWiki, WriteMeta, Rename, StepFails, Report,
         In, Occupied, NoJob
<1>b. /\ t \in Tenants
      /\ t \in crossed \/ Needed(job[j].step) \subseteq staging[t]
      /\ job[j].step = "done" => folder[t] # {}
  BY <1>a DEF LifeInv, Staged
<1>c. /\ folder \in [Tenants -> SUBSET Part] /\ staging \in [Tenants -> SUBSET Part]
      /\ folder[t] \in SUBSET Part /\ staging[t] \in SUBSET Part
      /\ job \in [Jobs -> Job] /\ status \in [Tenants -> Status]
  BY <1>b DEF LifeInv, FilesTyped
<1>d. folder = [folder EXCEPT ![t] = folder[t]] /\ staging = [staging EXCEPT ![t] = staging[t]]
  BY <1>c
<1>e. folder[t] # {} => Whole \subseteq folder[t] \/ t \in crossed
  BY <1>b DEF LifeInv, ProvisionedIsWhole
<1>1. CASE Clear(j)
  <2>1. CASE folder[t] # {}
    <3>1. Goto(j, "done") /\ staging' = staging /\ folder' = folder /\ Keep
      BY <1>1, <2>1 DEF Clear
    <3>2. "done" \in Step \ {"idle"} /\ Needed("done") \subseteq staging[t]  BY DEF Step, Needed
    <3> QED  BY <1>a, <1>c, <1>d, <1>e, <2>1, <3>1, <3>2, JobMoves
  <2>2. CASE folder[t] = {}
    <3> DEFINE s == IF Migrating(j) THEN "copy" ELSE "history"
    <3>1. Goto(j, s) /\ staging' = [staging EXCEPT ![t] = {"dir"}] /\ folder' = folder /\ Keep
      BY <1>1, <2>2 DEF Clear
    <3>2. s \in Step \ {"idle"} /\ Needed(s) \subseteq {"dir"} /\ s # "done"
      BY DEF Step, Needed
    <3>3. {"dir"} \in SUBSET Part  BY DEF Part
    <3> HIDE DEF s
    <3> QED  BY <1>a, <1>c, <1>d, <1>e, <3>1, <3>2, <3>3, JobMoves
  <2> QED  BY <2>1, <2>2
<1>2. CASE CopyOld(j)
  <2> DEFINE S == staging[t] \cup {"history", "old"}
  <2>1. /\ job[j].step = "copy" /\ Goto(j, "history") /\ folder' = folder /\ Keep
        /\ staging' = [staging EXCEPT ![t] = S]
    BY <1>2 DEF CopyOld, In, Add
  <2>2. "history" \in Step \ {"idle"} /\ S \in SUBSET Part  BY <1>c DEF Step, Part
  <2>3. t \in crossed \/ Needed("history") \subseteq S  BY <1>b, <2>1 DEF Needed
  <2> HIDE DEF S
  <2> QED  BY <1>a, <1>c, <1>d, <1>e, <2>1, <2>2, <2>3, JobMoves
<1>3. CASE OpenHistory(j)
  <2> DEFINE S == staging[t] \cup {"dir", "history"}
  <2>1. /\ job[j].step = "history" /\ Goto(j, "wiki") /\ folder' = folder /\ Keep
        /\ staging' = [staging EXCEPT ![t] = S]
    BY <1>3 DEF OpenHistory, In, Add
  <2>2. "wiki" \in Step \ {"idle"} /\ S \in SUBSET Part  BY <1>c DEF Step, Part
  <2>3. Needed("wiki") \subseteq S  BY DEF Needed
  <2> HIDE DEF S
  <2> QED  BY <1>a, <1>c, <1>d, <1>e, <2>1, <2>2, <2>3, JobMoves
<1>4. CASE MakeWiki(j)
  <2> DEFINE S == staging[t] \cup {"dir", "wiki"}
  <2>1. /\ job[j].step = "wiki" /\ Goto(j, "meta") /\ folder' = folder /\ Keep
        /\ staging' = [staging EXCEPT ![t] = S]
    BY <1>4 DEF MakeWiki, In, Add
  <2>2. "meta" \in Step \ {"idle"} /\ S \in SUBSET Part  BY <1>c DEF Step, Part
  <2>3. t \in crossed \/ Needed("meta") \subseteq S  BY <1>b, <2>1 DEF Needed
  <2> HIDE DEF S
  <2> QED  BY <1>a, <1>c, <1>d, <1>e, <2>1, <2>2, <2>3, JobMoves
<1>5. CASE WriteMeta(j)
  <2> DEFINE S == staging[t] \cup {"meta"}
  <2>1. /\ job[j].step = "meta" /\ Goto(j, "rename") /\ folder' = folder /\ Keep
        /\ staging' = [staging EXCEPT ![t] = S]
    BY <1>5 DEF WriteMeta, In, Add
  <2>2. "rename" \in Step \ {"idle"} /\ S \in SUBSET Part  BY <1>c DEF Step, Part
  <2>3. t \in crossed \/ Needed("rename") \subseteq S  BY <1>b, <2>1 DEF Needed, Whole
  <2> HIDE DEF S
  <2> QED  BY <1>a, <1>c, <1>d, <1>e, <2>1, <2>2, <2>3, JobMoves
<1>6. CASE Rename(j)
  <2> DEFINE F == IF folder[t] = {} THEN staging[t] ELSE folder[t]
             s == IF folder[t] = {} /\ staging[t] = {} THEN "failed" ELSE "done"
  <2>1. /\ job[j].step = "rename" /\ Goto(j, s) /\ Keep
        /\ staging' = [staging EXCEPT ![t] = {}] /\ folder' = [folder EXCEPT ![t] = F]
    BY <1>6, <1>d DEF Rename, In
  <2>2. s \in Step \ {"idle"} /\ F \in SUBSET Part /\ Needed(s) \subseteq {}
    BY <1>c DEF Step, Needed
  <2>3. t \in crossed \/ Whole \subseteq staging[t]  BY <1>b, <2>1 DEF Needed
  <2>4. F # {} => Whole \subseteq F \/ t \in crossed  BY <1>e, <2>3
  <2> QED  BY <1>a, <2>1, <2>2, <2>4, JobMoves
<1>7. CASE StepFails(j)
  <2>1. /\ Goto(j, "failed") /\ folder' = folder /\ Keep
        /\ staging' = [staging EXCEPT ![t] = {}]
    BY <1>7 DEF StepFails
  <2>2. "failed" \in Step \ {"idle"} /\ Needed("failed") \subseteq {}  BY DEF Step, Needed
  <2> QED  BY <1>a, <1>c, <1>d, <1>e, <2>1, <2>2, JobMoves
<1>8. CASE Report(j)
  <2>1. /\ job' = [job EXCEPT ![j] = NoJob] /\ serving' = (serving \/ Migrating(j))
        /\ status' = [status EXCEPT ![t] = Outcome(j)]
        /\ UNCHANGED <<legacy, folder, staging, runtime, opened, open, jobs, crashes, switches,
                       crossed, skipped>>
    BY <1>8 DEF Report, SetStatus, fileVars, registryVars, boundVars, lifeGhosts
  <2>2. /\ job'[j] = NoJob /\ \A i \in Jobs \ {j} : job'[i] = job[i]
        /\ job' \in [Jobs -> Job]
    BY <1>c, <2>1 DEF NoJob, Job, Kind, Step
  <2>3. Outcome(j) \in Status  BY <1>b, <1>c DEF Outcome, Status
  <2>4. FilesTyped'
    <3>1. serving' \in BOOLEAN  BY <2>1, Zenon DEF LifeInv, FilesTyped
    <3>2. status' \in [Tenants -> Status]  BY <1>c, <2>1, <2>3
    <3> QED  BY <2>1, <2>2, <3>1, <3>2 DEF LifeInv, FilesTyped
  <2>5. CacheTyped' /\ CountersTyped'  BY <2>1 DEF LifeInv, CacheTyped, CountersTyped
  <2>6. Alone'  BY <2>1, <2>2 DEF LifeInv, Alone, Occupied
  <2>7. \A i \in Jobs : Staged(i)'  BY <2>1, <2>2 DEF LifeInv, Staged, Occupied
  <2>8. ProvisionedIsWhole'  BY <2>1 DEF LifeInv, ProvisionedIsWhole
  <2>9. ActiveIsProvisioned'
    <3>1. Outcome(j) = "active" => folder[t] # {} \/ t \in skipped
      BY <1>b DEF Outcome, In, LifeInv, ActiveIsProvisioned
    <3> QED  BY <1>c, <2>1, <3>1 DEF LifeInv, ActiveIsProvisioned
  <2> QED  BY <2>4, <2>5, <2>6, <2>7, <2>8, <2>9 DEF LifeInv
<1> QED  BY <1>1, <1>2, <1>3, <1>4, <1>5, <1>6, <1>7, <1>8 DEF JobStep

LEMMA Beginnings ==
  ASSUME LifeInv, NEW j \in Jobs, NEW t \in Tenants, NEW kind \in Kind, Begin(j, t, kind),
         status' = status \/ status' = [status EXCEPT ![t] = "provisioning"]
  PROVE  LifeInv'
<1> DEFINE new == [kind |-> kind, tenant |-> t, step |-> "begin"]
<1>1. /\ job[j] = NoJob /\ jobs < MaxJobs /\ jobs' = jobs + 1 /\ job' = [job EXCEPT ![j] = new]
      /\ crossed' = IF \E i \in Jobs : job[i].tenant = t THEN crossed \cup {t} ELSE crossed
      /\ UNCHANGED <<legacy, serving, folder, staging, runtime, opened, open, crashes, switches,
                     skipped>>
  BY DEF Begin, fileVars, registryVars
<1>2. /\ job'[j] = new /\ \A i \in Jobs \ {j} : job'[i] = job[i]
      /\ job' \in [Jobs -> Job] /\ new # NoJob
  BY <1>1 DEF LifeInv, FilesTyped, Job, Kind, Step, NoJob
<1>3. crossed' \subseteq Tenants /\ crossed \subseteq crossed'
  BY <1>1 DEF LifeInv, FilesTyped
<1>4. FilesTyped'
  <2>1. status' \in [Tenants -> Status]  BY DEF LifeInv, FilesTyped, Status
  <2> QED  BY <1>1, <1>2, <1>3, <2>1 DEF LifeInv, FilesTyped
<1>5. CacheTyped' /\ CountersTyped'
  BY <1>1, LifeBoundsType DEF LifeInv, CacheTyped, CountersTyped
<1>6. Alone'
  <2>1. ASSUME NEW i \in Jobs, i # j, job[i].tenant = t PROVE t \in crossed'  BY <1>1, <2>1
  <2> QED  BY <1>2, <1>3, <2>1 DEF LifeInv, Alone, Occupied
<1>7. ASSUME NEW i \in Jobs PROVE Staged(i)'
  <2>1. CASE i = j  BY <1>2, <2>1 DEF Staged, Needed
  <2>2. CASE i # j
    <3>1. Staged(i) /\ job'[i] = job[i]  BY <1>2, <2>2 DEF LifeInv
    <3> QED  BY <1>1, <1>3, <3>1 DEF Staged, Occupied
  <2> QED  BY <2>1, <2>2
<1>8. ProvisionedIsWhole'  BY <1>1, <1>3 DEF LifeInv, ProvisionedIsWhole
<1>9. ActiveIsProvisioned'  BY <1>1 DEF LifeInv, FilesTyped, ActiveIsProvisioned
<1> QED  BY <1>4, <1>5, <1>6, <1>7, <1>8, <1>9 DEF LifeInv

LEMMA LifeInitInv == LifeInit => LifeInv
<1> SUFFICES ASSUME LifeInit PROVE LifeInv  OBVIOUS
<1>1. FilesTyped  BY DEF LifeInit, FilesTyped, Status, Job, NoJob, Kind, Step
<1>2. CacheTyped /\ CountersTyped  BY LifeBoundsType DEF LifeInit, CacheTyped, CountersTyped
<1>3. \A j \in Jobs : ~Occupied(j)  BY DEF LifeInit, Occupied
<1>4. ProvisionedIsWhole /\ ActiveIsProvisioned
  BY DEF LifeInit, ProvisionedIsWhole, ActiveIsProvisioned
<1> QED  BY <1>1, <1>2, <1>3, <1>4 DEF LifeInv, Alone, Staged

LEMMA LifeSteps == LifeInv /\ [LifeNext]_lifeVars => LifeInv'
<1> SUFFICES ASSUME LifeInv, [LifeNext]_lifeVars PROVE LifeInv'  OBVIOUS
<1>1. ASSUME NEW j \in Jobs, Migrate(j) PROVE LifeInv'
  <2>1. legacy \in Tenants /\ (Begin(j, legacy, "migrate") \/ Begin(j, legacy, "remigrate"))
    BY <1>1 DEF Migrate, MustMigrate, LifeInv, FilesTyped
  <2>2. status' = status \/ status' = [status EXCEPT ![legacy] = "provisioning"]
    BY <1>1 DEF Migrate, SetStatus
  <2>3. "migrate" \in Kind /\ "remigrate" \in Kind  BY DEF Kind
  <2> QED  BY <2>1, <2>2, <2>3, Beginnings
<1>2. ASSUME NEW j \in Jobs, NEW t \in Tenants, Register(j, t) \/ Resume(j, t) PROVE LifeInv'
  <2>1. "register" \in Kind /\ "resume" \in Kind  BY DEF Kind
  <2>2. CASE Register(j, t)  BY <2>1, <2>2, Beginnings DEF Register, SetStatus
  <2>3. CASE Resume(j, t)  BY <2>1, <2>3, Beginnings DEF Resume
  <2> QED  BY <1>2, <2>2, <2>3
<1>3. ASSUME NEW t \in Tenants, NEW st \in Status, Switch(t, st) PROVE LifeInv'
  <2>1. /\ switches < MaxSwitches /\ switches' = switches + 1
        /\ status' = [status EXCEPT ![t] = st]
        /\ skipped' = IF st = "active" /\ folder[t] = {} THEN skipped \cup {t} ELSE skipped
        /\ UNCHANGED <<legacy, serving, folder, staging, job, runtime, opened, open, jobs,
                       crashes, crossed>>
    BY <1>3 DEF Switch, SetStatus, fileVars, registryVars
  <2>2. FilesTyped'  BY <2>1 DEF LifeInv, FilesTyped
  <2>3. CacheTyped' /\ CountersTyped'
    BY <2>1, LifeBoundsType DEF LifeInv, CacheTyped, CountersTyped
  <2>4. Alone' /\ \A j \in Jobs : Staged(j)'  BY <2>1 DEF LifeInv, Alone, Staged, Occupied
  <2>5. ProvisionedIsWhole'  BY <2>1 DEF LifeInv, ProvisionedIsWhole
  <2>6. ActiveIsProvisioned'  BY <2>1 DEF LifeInv, FilesTyped, ActiveIsProvisioned
  <2> QED  BY <2>2, <2>3, <2>4, <2>5, <2>6 DEF LifeInv
<1>4. CASE Listen
  <2>1. /\ serving' = TRUE
        /\ UNCHANGED <<legacy, status, folder, staging, job, runtime, opened, open, jobs, crashes,
                       switches, crossed, skipped>>
    BY <1>4 DEF Listen, fileVars, registryVars, boundVars, lifeGhosts
  <2>2. FilesTyped' /\ CacheTyped' /\ CountersTyped'
    BY <2>1 DEF LifeInv, FilesTyped, CacheTyped, CountersTyped
  <2>3. Alone' /\ \A j \in Jobs : Staged(j)'  BY <2>1 DEF LifeInv, Alone, Staged, Occupied
  <2>4. ProvisionedIsWhole' /\ ActiveIsProvisioned'
    BY <2>1 DEF LifeInv, ProvisionedIsWhole, ActiveIsProvisioned
  <2> QED  BY <2>2, <2>3, <2>4 DEF LifeInv
<1>5. CASE LifeCrash
  <2>1. /\ crashes < MaxCrashes /\ crashes' = crashes + 1 /\ serving' = FALSE
        /\ job' = [j \in Jobs |-> NoJob] /\ runtime' = [t \in Tenants |-> 0] /\ open' = {}
        /\ UNCHANGED <<legacy, status, folder, staging, jobs, switches, opened, crossed, skipped>>
    BY <1>5 DEF LifeCrash, fileVars, lifeGhosts
  <2>2. FilesTyped'  BY <2>1 DEF LifeInv, FilesTyped, Job, NoJob, Kind, Step
  <2>3. CacheTyped' /\ CountersTyped'
    BY <2>1, LifeBoundsType DEF LifeInv, CacheTyped, CountersTyped
  <2>4. \A j \in Jobs : ~Occupied(j)'  BY <2>1 DEF Occupied
  <2>5. Alone' /\ \A j \in Jobs : Staged(j)'  BY <2>4 DEF Alone, Staged
  <2>6. ProvisionedIsWhole' /\ ActiveIsProvisioned'
    BY <2>1 DEF LifeInv, ProvisionedIsWhole, ActiveIsProvisioned
  <2> QED  BY <2>2, <2>3, <2>5, <2>6 DEF LifeInv
<1>6. CASE UNCHANGED lifeVars
  <2>1. UNCHANGED <<legacy, serving, status, folder, staging, job, runtime, opened, open, jobs,
                    crashes, switches, crossed, skipped>>
    BY <1>6 DEF lifeVars, fileVars, registryVars, boundVars, lifeGhosts
  <2>2. FilesTyped' /\ CacheTyped' /\ CountersTyped'
    BY <2>1 DEF LifeInv, FilesTyped, CacheTyped, CountersTyped
  <2>3. Alone' /\ \A j \in Jobs : Staged(j)'  BY <2>1 DEF LifeInv, Alone, Staged, Occupied
  <2>4. ProvisionedIsWhole' /\ ActiveIsProvisioned'
    BY <2>1 DEF LifeInv, ProvisionedIsWhole, ActiveIsProvisioned
  <2> QED  BY <2>2, <2>3, <2>4 DEF LifeInv
<1>7. ASSUME NEW j \in Jobs, JobStep(j) PROVE LifeInv'  BY <1>7, JobSteps
<1> QED  BY <1>1, <1>2, <1>3, <1>4, <1>5, <1>6, <1>7 DEF LifeNext

LEMMA LifeInvariant == LifeSpec => []LifeInv
<1>1. LifeInit => LifeInv  BY LifeInitInv
<1>2. LifeInv /\ [LifeNext]_lifeVars => LifeInv'  BY LifeSteps
<1> QED  BY <1>1, <1>2, PTL DEF LifeSpec

(* Every variable keeps its type: tenancy/runtime.go and main.go.          *)
THEOREM LifeTypesCorrect == LifeSpec => []LifeTypeOK
<1>1. LifeInv => LifeTypeOK  BY DEF LifeInv, FilesTyped, CacheTyped, CountersTyped, LifeTypeOK
<1> QED  BY <1>1, LifeInvariant, PTL

(* However many jobs fail or are interrupted, a tenant's directory is whole *)
(* or absent, unless two jobs shared its staging directory (runtime.go:108). *)
THEOREM DirectoriesAreWhole == LifeSpec => []ProvisionedIsWhole
<1>1. LifeInv => ProvisionedIsWhole  BY DEF LifeInv
<1> QED  BY <1>1, LifeInvariant, PTL

(* A tenant is active without a directory only when an administrator       *)
(* enabled it so (service.go:1254, runtime.go:108).                        *)
THEOREM ActiveTenantsAreProvisioned == LifeSpec => []ActiveIsProvisioned
<1>1. LifeInv => ActiveIsProvisioned  BY DEF LifeInv
<1> QED  BY <1>1, LifeInvariant, PTL

-----------------------------------------------------------------------------
(* The requests. *)

(* The types of what the requests read and write. *)

OpenTyped == open \subseteq Tenants \X Nat

(* A request that concerns a session or a tenant names one.                *)
Addressed(p) ==
    /\ p.step \in MessageStep \cup DeleteStep \cup CancelStep =>
          p.user \in Users /\ p.key \in Keys /\ p.tenant = TenantOf[p.key]
    /\ p.step = "role.written" => p.user \in Users
    /\ p.step = "user.written" => p.user \in Users
    /\ p.step \in {"role.written", "tenant.written", "tenant.dropped", "tenant.evicted"} =>
          p.tenant \in Tenants

RequestsTyped == request \in [Requests -> Request] /\ \A q \in Requests : Addressed(request[q])

RowsTyped == /\ rank \in [Tenants -> [Users -> Rank]] /\ enabled \in [Users -> BOOLEAN]
             /\ session \in [Keys -> Row] /\ work \in [Runs -> Work]

GhostsTyped == late \subseteq Runs /\ crossing \subseteq Runs /\ lost \subseteq Runs
               /\ revived \subseteq Tenants

Counted == calls \in 0 .. MaxCalls /\ grants \in 0 .. MaxGrants

(* What a step puts in the place of one request. *)
LEMMA OneRequest ==
  ASSUME RequestsTyped, NEW q \in Requests, NEW p \in Request, Addressed(p),
         request' = [request EXCEPT ![q] = p]
  PROVE  /\ RequestsTyped' /\ request'[q] = p
         /\ \A i \in Requests \ {q} : request'[i] = request[i]
BY DEF RequestsTyped

LEMMA IdleTyped == Idle \in Request /\ Addressed(Idle)
BY DEF Idle, Fresh, Request, Addressed, Rank, MessageStep, DeleteStep, CancelStep

LEMMA LaterTyped ==
  ASSUME NEW p \in Request, Addressed(p), NEW step, NEW handle \in Nat,
         NEW known, NEW stale, NEW doomed,
         known \in BOOLEAN, stale \in BOOLEAN, doomed \in BOOLEAN,
         \/ step = p.step
         \/ /\ p.step \in MessageStep \cup DeleteStep \cup CancelStep
            /\ step \in MessageStep \cup DeleteStep \cup CancelStep
         \/ /\ p.step \in {"tenant.written", "tenant.dropped", "tenant.evicted"}
            /\ step \in {"tenant.written", "tenant.dropped", "tenant.evicted"}
  PROVE  /\ Later(p, step, handle, known, stale, doomed) \in Request
         /\ Addressed(Later(p, step, handle, known, stale, doomed))
<1>1. step \in {"idle"} \cup MessageStep \cup DeleteStep \cup CancelStep \cup RevokeStep
  BY DEF Request, RevokeStep
<1>2. Later(p, step, handle, known, stale, doomed) \in Request  BY <1>1 DEF Later, Request
<1>3. Addressed(Later(p, step, handle, known, stale, doomed))
  BY DEF Later, Addressed, MessageStep, DeleteStep, CancelStep
<1> QED  BY <1>2, <1>3

(* A request that goes on keeps what it is about, and the phase it is in.  *)
ClosingStep == {"tenant.written", "tenant.dropped", "tenant.evicted"}
Phases      == {MessageStep, DeleteStep, CancelStep, ClosingStep}

Others(q) == \A i \in Requests \ {q} : request'[i] = request[i]

SameTopic(q) == /\ request'[q].user = request[q].user /\ request'[q].tenant = request[q].tenant
                /\ request'[q].key = request[q].key /\ request'[q].rank = request[q].rank
                /\ request'[q].customer = request[q].customer

SameMarks(q) == request'[q].stale = request[q].stale /\ request'[q].doomed = request[q].doomed

SameStep(q)  == /\ request'[q].step = request[q].step /\ request'[q].handle = request[q].handle
                /\ request'[q].known = request[q].known

LEMMA MovesOn ==
  ASSUME RequestsTyped, NEW q \in Requests, NEW step, NEW handle \in Nat,
         NEW known, known \in BOOLEAN,
         NEW phase \in Phases, request[q].step \in phase, step \in phase,
         request' = [request EXCEPT ![q] = Moved(@, step, handle, known)]
  PROVE  /\ RequestsTyped' /\ Others(q) /\ SameTopic(q) /\ SameMarks(q)
         /\ request'[q].step = step /\ request'[q].handle = handle /\ request'[q].known = known
<1> DEFINE p == request[q]
           n == Moved(p, step, handle, known)
<1>1. p \in Request /\ Addressed(p)  BY DEF RequestsTyped
<1>2. p.stale \in BOOLEAN /\ p.doomed \in BOOLEAN  BY <1>1 DEF Request
<1>3. \/ p.step \in MessageStep \cup DeleteStep \cup CancelStep
         /\ step \in MessageStep \cup DeleteStep \cup CancelStep
      \/ p.step \in {"tenant.written", "tenant.dropped", "tenant.evicted"}
         /\ step \in {"tenant.written", "tenant.dropped", "tenant.evicted"}
  BY DEF Phases, ClosingStep
<1>4. n \in Request /\ Addressed(n)  BY <1>1, <1>2, <1>3, LaterTyped DEF Moved
<1>5. /\ n.step = step /\ n.handle = handle /\ n.known = known
      /\ n.stale = p.stale /\ n.doomed = p.doomed
      /\ n.user = p.user /\ n.tenant = p.tenant /\ n.key = p.key
      /\ n.rank = p.rank /\ n.customer = p.customer
  BY DEF Moved, Later
<1>6. request' = [request EXCEPT ![q] = n]  OBVIOUS
<1> HIDE DEF n
<1> QED  BY <1>4, <1>5, <1>6, OneRequest DEF Others, SameTopic, SameMarks

LEMMA ReadsHandle ==
  ASSUME RequestsTyped, NEW q \in Requests, NEW step, NEW handle \in Nat,
         NEW phase \in Phases, request[q].step \in phase, step \in phase,
         request' = [request EXCEPT ![q] = Moved(@, step, handle, FALSE)]
  PROVE  /\ RequestsTyped' /\ Others(q) /\ SameTopic(q) /\ SameMarks(q)
         /\ request'[q].step = step /\ request'[q].handle = handle
<1> DEFINE p == request[q]
           n == Moved(p, step, handle, FALSE)
<1>1. p \in Request /\ Addressed(p)  BY DEF RequestsTyped
<1>2. p.stale \in BOOLEAN /\ p.doomed \in BOOLEAN  BY <1>1 DEF Request
<1>3. \/ p.step \in MessageStep \cup DeleteStep \cup CancelStep
         /\ step \in MessageStep \cup DeleteStep \cup CancelStep
      \/ p.step \in {"tenant.written", "tenant.dropped", "tenant.evicted"}
         /\ step \in {"tenant.written", "tenant.dropped", "tenant.evicted"}
  BY DEF Phases, ClosingStep
<1>4. n \in Request /\ Addressed(n)
  <2>1. step \in {"idle"} \cup MessageStep \cup DeleteStep \cup CancelStep \cup RevokeStep
    BY <1>3 DEF RevokeStep
  <2>2. n \in Request  BY <1>1, <2>1 DEF Moved, Later, Request
  <2>3. Addressed(n)
    BY <1>1, <1>3 DEF Moved, Later, Addressed, MessageStep, DeleteStep, CancelStep
  <2> QED  BY <2>2, <2>3
<1>5. /\ n.step = step /\ n.handle = handle
      /\ n.stale = p.stale /\ n.doomed = p.doomed
      /\ n.user = p.user /\ n.tenant = p.tenant /\ n.key = p.key
      /\ n.rank = p.rank /\ n.customer = p.customer
  BY DEF Moved, Later
<1>6. request' = [request EXCEPT ![q] = n]  OBVIOUS
<1> HIDE DEF n
<1> QED  BY <1>4, <1>5, <1>6, OneRequest DEF Others, SameTopic, SameMarks

LEMMA Ends ==
  ASSUME RequestsTyped, NEW q \in Requests, Finish(q)
  PROVE  RequestsTyped' /\ Others(q) /\ request'[q] = Idle
BY OneRequest, IdleTyped DEF Finish, Others

LEMMA GoesTo ==
  ASSUME RequestsTyped, NEW q \in Requests, NEW step, NEW phase \in Phases,
         request[q].step \in phase, step \in phase, Go(q, step)
  PROVE  /\ RequestsTyped' /\ Others(q) /\ SameTopic(q) /\ SameMarks(q)
         /\ request'[q].step = step /\ request'[q].handle = request[q].handle
         /\ request'[q].known = request[q].known
<1>1. request[q].handle \in Nat /\ request[q].known \in BOOLEAN  BY DEF RequestsTyped, Request
<1> QED  BY <1>1, MovesOn DEF Go

(* A handler that reads the registry, and one that goes on or ends.        *)
LEMMA GoesOrEnds ==
  ASSUME RequestsTyped, NEW q \in Requests, NEW over, NEW step, NEW phase \in Phases,
         request[q].step \in phase, step \in phase, FinishIf(q, over, step)
  PROVE  /\ RequestsTyped' /\ Others(q)
         /\ \/ over /\ request'[q] = Idle
            \/ /\ ~over /\ SameTopic(q) /\ SameMarks(q)
               /\ request'[q].step = step /\ request'[q].handle = request[q].handle
               /\ request'[q].known = request[q].known
BY Ends, GoesTo DEF FinishIf

LEMMA Resolves ==
  ASSUME RequestsTyped, CacheTyped, OpenTyped, NEW q \in Requests, NEW from, NEW to,
         NEW phase \in {MessageStep, DeleteStep, CancelStep}, from \in phase, to \in phase,
         Resolve(q, from, to)
  PROVE  LET t == request[q].tenant IN
         /\ RequestsTyped' /\ Others(q) /\ request[q].step = from /\ t \in Tenants
         /\ \/ /\ SameTopic(q) /\ SameMarks(q)
               /\ request'[q].step = to /\ request'[q].handle = runtime'[t]
               /\ \/ runtime[t] # 0 /\ UNCHANGED <<runtime, opened, open>>
                  \/ /\ runtime[t] = 0
                     /\ runtime' = [runtime EXCEPT ![t] = opened[t] + 1]
                     /\ opened' = [opened EXCEPT ![t] = opened[t] + 1]
                     /\ open' = open \cup {<<t, opened[t] + 1>>}
            \/ request'[q] = Idle /\ UNCHANGED <<runtime, opened, open>>
         /\ UNCHANGED <<vars, legacy, serving, status, fileVars, job, boundVars, lifeGhosts,
                        rank, enabled, session, work, calls, grants, ghostVars>>
<1> DEFINE t == request[q].tenant
<1>1. request[q].step = from  BY DEF Resolve, At
<1>2. t \in Tenants  BY <1>1, TenantOfType DEF RequestsTyped, Addressed
<1>3. /\ phase \in Phases /\ runtime[t] \in Nat /\ opened[t] + 1 \in Nat
      /\ request[q].step \in phase /\ FALSE \in BOOLEAN
  BY <1>1, <1>2 DEF Phases, CacheTyped
<1>4. CASE runtime[t] # 0
  <2>1. /\ request' = [request EXCEPT ![q] = Moved(@, to, runtime[t], FALSE)]
        /\ UNCHANGED <<runtime, opened, open>>
    BY <1>4 DEF Resolve, Cached, registryVars
  <2>2. /\ RequestsTyped' /\ Others(q) /\ SameTopic(q) /\ SameMarks(q)
        /\ request'[q].step = to /\ request'[q].handle = runtime[t]
    <3> DEFINE h == runtime[t]
    <3>1. h \in Nat /\ request' = [request EXCEPT ![q] = Moved(@, to, h, FALSE)]  BY <1>3, <2>1
    <3>2. phase \in Phases /\ request[q].step \in phase  BY <1>3
    <3> HIDE DEF h
    <3>3. /\ RequestsTyped' /\ Others(q) /\ SameTopic(q) /\ SameMarks(q)
          /\ request'[q].step = to /\ request'[q].handle = h
      BY <3>1, <3>2, ReadsHandle
    <3> QED  BY <3>3 DEF h
  <2> QED  BY <1>1, <1>2, <1>4, <2>1, <2>2 DEF Resolve
<1>5. CASE runtime[t] = 0 /\ folder[t] # {}
  <2>1. /\ request' = [request EXCEPT ![q] = Moved(@, to, opened[t] + 1, FALSE)]
        /\ runtime' = [runtime EXCEPT ![t] = opened[t] + 1]
        /\ opened' = [opened EXCEPT ![t] = opened[t] + 1]
        /\ open' = open \cup {<<t, opened[t] + 1>>}
    BY <1>5 DEF Resolve, Cached, OpenRuntime
  <2>2. /\ RequestsTyped' /\ Others(q) /\ SameTopic(q) /\ SameMarks(q)
        /\ request'[q].step = to /\ request'[q].handle = opened[t] + 1
    <3> DEFINE h == opened[t] + 1
    <3>1. h \in Nat /\ request' = [request EXCEPT ![q] = Moved(@, to, h, FALSE)]  BY <1>3, <2>1
    <3>2. phase \in Phases /\ request[q].step \in phase  BY <1>3
    <3> HIDE DEF h
    <3>3. /\ RequestsTyped' /\ Others(q) /\ SameTopic(q) /\ SameMarks(q)
          /\ request'[q].step = to /\ request'[q].handle = h
      BY <3>1, <3>2, ReadsHandle
    <3> QED  BY <3>3 DEF h
  <2>3. runtime'[t] = opened[t] + 1  BY <1>2, <2>1 DEF CacheTyped
  <2> QED  BY <1>1, <1>2, <1>5, <2>1, <2>2, <2>3 DEF Resolve
<1>6. CASE runtime[t] = 0 /\ folder[t] = {}
  <2>1. Finish(q) /\ UNCHANGED <<runtime, opened, open>>
    BY <1>6 DEF Resolve, Cached, registryVars
  <2> QED  BY <1>1, <1>2, <2>1, Ends DEF Resolve
<1> QED  BY <1>4, <1>5, <1>6

(* The requests of the others are told that their check is overtaken.      *)
LEMMA Overtakes ==
  ASSUME RequestsTyped, NEW q \in Requests, NEW next \in Request, Addressed(next), NEW hit,
         Overtake(q, next, hit)
  PROVE  /\ RequestsTyped' /\ request'[q] = next
         /\ \A i \in Requests \ {q} :
               /\ SameTopic(i) /\ SameStep(i) /\ request'[i].doomed = request[i].doomed
               /\ request'[i].stale <=> (request[i].stale \/ i \in hit)
<1> DEFINE n(i) == Marked(request[i], request[i].stale \/ i \in hit, request[i].doomed)
<1>1. ASSUME NEW i \in Requests PROVE n(i) \in Request /\ Addressed(n(i))
  <2> DEFINE p == request[i]
             s == p.stale \/ i \in hit
  <2>1. p \in Request /\ Addressed(p)  BY DEF RequestsTyped
  <2>2. p.handle \in Nat /\ p.known \in BOOLEAN /\ p.doomed \in BOOLEAN /\ s \in BOOLEAN
    BY <2>1 DEF Request
  <2>3. n(i) = Later(p, p.step, p.handle, p.known, s, p.doomed)  BY DEF Marked
  <2> HIDE DEF n, s, p
  <2> QED  BY <2>1, <2>2, <2>3, LaterTyped
<1>2. request' = [i \in Requests |-> IF i = q THEN next ELSE n(i)]  BY DEF Overtake
<1>3. RequestsTyped' /\ request'[q] = next /\ \A i \in Requests \ {q} : request'[i] = n(i)
  <2> HIDE DEF n
  <2> QED  BY <1>1, <1>2 DEF RequestsTyped
<1>4. ASSUME NEW i \in Requests \ {q}
      PROVE  /\ SameTopic(i) /\ SameStep(i) /\ request'[i].doomed = request[i].doomed
             /\ request'[i].stale <=> (request[i].stale \/ i \in hit)
  <2>1. request'[i] = n(i)  BY <1>3
  <2>2. SameTopic(i) /\ SameStep(i) /\ request'[i].doomed = request[i].doomed
    BY <2>1 DEF Marked, Later, SameTopic, SameStep
  <2>3. request'[i].stale = (request[i].stale \/ i \in hit)
    BY <2>1 DEF Marked, Later
  <2> QED  BY <2>2, <2>3
<1> QED  BY <1>3, <1>4

LEMMA Deletes ==
  ASSUME RequestsTyped, NEW q \in Requests, DeleteWrite(q), Usable(q)
  PROVE  /\ RequestsTyped' /\ SameTopic(q) /\ request'[q].step = "delete.written"
         /\ session' = [session EXCEPT ![request[q].key].gone = TRUE]
         /\ \A i \in Requests \ {q} :
               /\ SameTopic(i) /\ SameStep(i) /\ request'[i].stale = request[i].stale
               /\ request'[i].doomed <=> (request[i].doomed \/ Ensured(i, request[q].key))
<1> DEFINE d(i) == request[i].doomed \/ Ensured(i, request[q].key)
           n(i) == Marked(request[i], request[i].stale, d(i))
           next == Moved(request[q], "delete.written", request[q].handle, FALSE)
<1>1. ASSUME NEW i \in Requests PROVE n(i) \in Request /\ Addressed(n(i))
  <2> DEFINE p == request[i]
  <2>1. p \in Request /\ Addressed(p)  BY DEF RequestsTyped
  <2>2. p.handle \in Nat /\ p.known \in BOOLEAN /\ p.stale \in BOOLEAN /\ d(i) \in BOOLEAN
    BY <2>1 DEF Request
  <2>3. n(i) = Later(p, p.step, p.handle, p.known, p.stale, d(i))  BY DEF Marked
  <2> HIDE DEF n, d, p
  <2> QED  BY <2>1, <2>2, <2>3, LaterTyped
<1>2. next \in Request /\ Addressed(next)
  <2> DEFINE p == request[q]
  <2>1. p \in Request /\ Addressed(p) /\ p.step = "delete.allowed"
    BY DEF RequestsTyped, DeleteWrite, At
  <2>2. p.handle \in Nat /\ FALSE \in BOOLEAN /\ p.stale \in BOOLEAN /\ p.doomed \in BOOLEAN
    BY <2>1 DEF Request
  <2>3. next = Later(p, "delete.written", p.handle, FALSE, p.stale, p.doomed)  BY DEF Moved
  <2>4. p.step \in DeleteStep /\ "delete.written" \in DeleteStep  BY <2>1 DEF DeleteStep
  <2> HIDE DEF next, p
  <2> QED  BY <2>1, <2>2, <2>3, <2>4, LaterTyped
<1>3. request' = [i \in Requests |-> IF i = q THEN next ELSE n(i)]  BY DEF DeleteWrite
<1>4. RequestsTyped' /\ request'[q] = next /\ \A i \in Requests \ {q} : request'[i] = n(i)
  <2> HIDE DEF n, next
  <2> QED  BY <1>1, <1>2, <1>3 DEF RequestsTyped
<1>5. session' = [session EXCEPT ![request[q].key].gone = TRUE]  BY DEF DeleteWrite
<1>6. ASSUME NEW i \in Requests \ {q}
      PROVE  /\ SameTopic(i) /\ SameStep(i) /\ request'[i].stale = request[i].stale
             /\ request'[i].doomed <=> d(i)
  <2>1. request'[i] = n(i)  BY <1>4
  <2>2. SameTopic(i) /\ SameStep(i) /\ request'[i].stale = request[i].stale
    BY <2>1 DEF Marked, Later, SameTopic, SameStep
  <2>3. request'[i].doomed = d(i)
    BY <2>1 DEF Marked, Later
  <2> QED  BY <2>2, <2>3
<1>7. SameTopic(q) /\ request'[q].step = "delete.written"
  BY <1>4 DEF Moved, Later, SameTopic
<1> QED  BY <1>4, <1>5, <1>6, <1>7

-----------------------------------------------------------------------------
(* The Run registry under the requests: their steps are RunManager's, but  *)
(* for a restart.                                                          *)

RegistryInv == TypeOK /\ Placed /\ WriterInv

LEMMA FlowUsesTheRegistry ==
  ASSUME FlowNext, RequestsTyped
  PROVE  [Next]_vars \/ Crash
<1>1. ASSUME NEW q \in Requests, BeginRequest(q) PROVE UNCHANGED vars
  BY <1>1 DEF BeginRequest, Authenticate, ChangeRole, DisableUser, CloseDown, Revoke
<1>2. ASSUME NEW q \in Requests, request[q].step \in MessageStep \cup DeleteStep \cup CancelStep
      PROVE  request[q].key \in Keys
  BY <1>2 DEF RequestsTyped, Addressed
<1>3. ASSUME NEW q \in Requests, MessageRequest(q) PROVE [Next]_vars
  <2>1. ASSUME NEW r \in Runs, StartRun(q, r) PROVE [Next]_vars
    <3>1. request[q].step = "message.ensured" /\ Start(r, request[q].key)
      BY <2>1 DEF StartRun, At
    <3> QED  BY <1>2, <3>1 DEF Next, MessageStep
  <2>2. ASSUME Resolve(q, "message", "message.ready") PROVE UNCHANGED vars  BY <2>2 DEF Resolve
  <2>3. ASSUME LookUp(q) PROVE UNCHANGED vars  BY <2>3 DEF LookUp
  <2>4. ASSUME Ensure(q) PROVE UNCHANGED vars  BY <2>4 DEF Ensure
  <2>5. ASSUME Busy(q) PROVE UNCHANGED vars  BY <2>5 DEF Busy
  <2> QED  BY <1>3, <2>1, <2>2, <2>3, <2>4, <2>5 DEF MessageRequest
<1>4. ASSUME NEW q \in Requests, DeleteRequest(q) PROVE [Next]_vars
  <2>1. ASSUME At(q, "delete.written"), DropSession(request[q].key) PROVE [Next]_vars
    BY <1>2, <2>1 DEF At, DeleteStep, Next
  <2>2. ASSUME Resolve(q, "delete", "delete.ready") PROVE UNCHANGED vars  BY <2>2 DEF Resolve
  <2>3. ASSUME NotBusy(q) PROVE UNCHANGED vars  BY <2>3 DEF NotBusy
  <2>4. ASSUME Allowed(q, "delete.idle", "delete.allowed") PROVE UNCHANGED vars
    BY <2>4 DEF Allowed
  <2>5. ASSUME DeleteWrite(q) PROVE UNCHANGED vars
    <3>1. UNCHANGED <<vars, work, ghostVars>>  BY <2>5, Zenon DEF DeleteWrite
    <3> QED  BY <3>1
  <2> QED  BY <1>4, <2>1, <2>2, <2>3, <2>4, <2>5 DEF DeleteRequest
<1>5. ASSUME NEW q \in Requests, CancelRequest(q) PROVE [Next]_vars
  <2>1. ASSUME At(q, "cancel.allowed"), Cancel(request[q].key) PROVE [Next]_vars
    BY <1>2, <2>1 DEF At, CancelStep, Next
  <2>2. ASSUME Resolve(q, "cancel", "cancel.ready") PROVE UNCHANGED vars  BY <2>2 DEF Resolve
  <2>3. ASSUME Allowed(q, "cancel.ready", "cancel.allowed") PROVE UNCHANGED vars
    BY <2>3 DEF Allowed
  <2> QED  BY <1>5, <2>1, <2>2, <2>3 DEF CancelRequest
<1>6. ASSUME NEW q \in Requests, RevokeRequest(q) PROVE [Next]_vars
  <2>1. ASSUME CancelMember(q) PROVE Next
    <3>1. /\ request[q].step = "role.written"
          /\ CancelTenantUser(request[q].tenant, request[q].user)
      BY <2>1 DEF CancelMember, At
    <3>2. request[q].tenant \in Tenants /\ request[q].user \in Users
      BY <3>1 DEF RequestsTyped, Addressed
    <3> QED  BY <3>1, <3>2 DEF Next
  <2>2. ASSUME CancelAccount(q) PROVE Next
    <3>1. request[q].step = "user.written" /\ CancelUser(request[q].user)
      BY <2>2 DEF CancelAccount, At
    <3>2. request[q].user \in Users  BY <3>1 DEF RequestsTyped, Addressed
    <3> QED  BY <3>1, <3>2 DEF Next
  <2>3. ASSUME CancelTenant(q) PROVE Next
    <3>1. request[q].step = "tenant.written" /\ DropTenant(request[q].tenant)
      BY <2>3 DEF CancelTenant, At
    <3>2. request[q].tenant \in Tenants  BY <3>1 DEF RequestsTyped, Addressed
    <3> QED  BY <3>1, <3>2 DEF Next
  <2>4. ASSUME CloseTenant(q) PROVE UNCHANGED vars  BY <2>4 DEF CloseTenant
  <2> QED  BY <1>6, <2>1, <2>2, <2>3, <2>4 DEF RevokeRequest
<1>7. ASSUME NEW r \in Runs, RunOf(r) PROVE [Next]_vars
  <2>1. ASSUME NEW from, NEW to, WriteMessage(r, from, to) PROVE UNCHANGED vars
    BY <2>1 DEF WriteMessage
  <2>2. ASSUME NEW c \in Customers, BindCustomerOnce(r, c) PROVE UNCHANGED vars
    <3>1. UNCHANGED <<vars, request, work, ghostVars>>  BY <2>2, Zenon DEF BindCustomerOnce
    <3> QED  BY <3>1
  <2>3. ASSUME RunGoesOn(r) PROVE Next  BY <2>3 DEF RunGoesOn, Next, RunStep
  <2> QED  BY <1>7, <2>1, <2>2, <2>3 DEF RunOf
<1>8. ASSUME Grant \/ Provisioning PROVE UNCHANGED vars  BY <1>8 DEF Grant, Provisioning
<1> QED  BY <1>1, <1>3, <1>4, <1>5, <1>6, <1>7, <1>8 DEF FlowNext

(* A restart leaves no goroutine.                                          *)
LEMMA CrashEndsTheRuns ==
  ASSUME RegistryInv, Crash
  PROVE  RegistryInv' /\ \A r \in Runs : ~Registered(r)'
<1>1. /\ active' = [k \in Keys |-> NoRun]
      /\ buffer' = [k \in Keys |-> << >>] /\ lastSeq' = [k \in Keys |-> 0]
      /\ subs' = [k \in Keys |-> {}]
      /\ pc' = [r \in Runs |-> IF pc[r] = "unborn" THEN "unborn" ELSE "over"]
      /\ todo' = [r \in Runs |-> {}]
      /\ UNCHANGED <<runKey, actor, cancelled, event, chan, chanKey>>
  BY DEF Crash, Forget, chanVars
<1>2. \A r \in Runs : ~Registered(r)'  BY <1>1 DEF Registered
<1>3. TypeOK'  BY <1>1 DEF RegistryInv, TypeOK, PC
<1>4. Placed'  BY <1>1 DEF RegistryInv, Placed
<1>5. WriterInv'
  BY <1>1, <1>2, NoRunIsNoRun DEF WriterInv, RegistryNamesTheWriter, Fanning
<1> QED  BY <1>2, <1>3, <1>4, <1>5 DEF RegistryInv

LEMMA RegistryStep ==
  ASSUME RegistryInv, RequestsTyped, [FlowNext]_allVars
  PROVE  RegistryInv'
<1>1. CASE UNCHANGED allVars
  BY <1>1, TypeStep, WriterStep DEF allVars, RegistryInv
<1>2. CASE FlowNext
  BY <1>2, FlowUsesTheRegistry, CrashEndsTheRuns, TypeStep, WriterStep DEF RegistryInv
<1> QED  BY <1>1, <1>2

-----------------------------------------------------------------------------
(* The tenants' directories under the requests: only the cache of runtimes *)
(* moves in steps that are not TenantLifecycle's.                          *)

LEMMA CacheMoves ==
  ASSUME LifeInv, CacheTyped',
         UNCHANGED <<legacy, serving, status, fileVars, job, boundVars, lifeGhosts>>
  PROVE  LifeInv'
<1>1. UNCHANGED <<legacy, serving, status, folder, staging, job, jobs, crashes, switches,
                  crossed, skipped>>
  BY DEF fileVars, boundVars, lifeGhosts
<1>2. FilesTyped' /\ CountersTyped'  BY <1>1 DEF LifeInv, FilesTyped, CountersTyped
<1>3. Alone' /\ \A i \in Jobs : Staged(i)'  BY <1>1 DEF LifeInv, Alone, Staged, Occupied
<1>4. ProvisionedIsWhole' /\ ActiveIsProvisioned'
  BY <1>1 DEF LifeInv, ProvisionedIsWhole, ActiveIsProvisioned
<1> QED  BY <1>2, <1>3, <1>4 DEF LifeInv

LEMMA ResolveKeepsLife ==
  ASSUME LifeInv, OpenTyped, RequestsTyped, NEW q \in Requests, NEW from, NEW to,
         NEW phase \in {MessageStep, DeleteStep, CancelStep}, from \in phase, to \in phase,
         Resolve(q, from, to)
  PROVE  LifeInv' /\ OpenTyped'
<1> DEFINE t == request[q].tenant
<1>0. CacheTyped  BY DEF LifeInv
<1>1. /\ t \in Tenants
      /\ \/ UNCHANGED <<runtime, opened, open>>
         \/ /\ runtime' = [runtime EXCEPT ![t] = opened[t] + 1]
            /\ opened' = [opened EXCEPT ![t] = opened[t] + 1]
            /\ open' = open \cup {<<t, opened[t] + 1>>}
      /\ UNCHANGED <<legacy, serving, status, fileVars, job, boundVars, lifeGhosts>>
  BY <1>0, Resolves
<1>2. CASE UNCHANGED <<runtime, opened, open>>
  BY <1>1, <1>2, CacheMoves DEF LifeInv, CacheTyped, OpenTyped
<1>3. CASE /\ runtime' = [runtime EXCEPT ![t] = opened[t] + 1]
           /\ opened' = [opened EXCEPT ![t] = opened[t] + 1]
           /\ open' = open \cup {<<t, opened[t] + 1>>}
  <2>1. opened[t] \in Nat  BY <1>0, <1>1 DEF CacheTyped
  <2>2. runtime' \in [Tenants -> Nat] /\ opened' \in [Tenants -> Nat]
    <3> DEFINE n == opened[t] + 1
    <3>1. n \in Nat  BY <2>1
    <3>2. runtime' = [runtime EXCEPT ![t] = n] /\ opened' = [opened EXCEPT ![t] = n]  BY <1>3
    <3> HIDE DEF n, t
    <3> QED  BY <1>0, <3>1, <3>2 DEF CacheTyped
  <2>3. \A h \in open' : h[1] \in Tenants /\ h[2] \in 1 .. opened'[h[1]]
    <3> TAKE h \in open'
    <3>1. CASE h \in open
      <4>1. h[1] \in Tenants /\ h[2] \in 1 .. opened[h[1]]  BY <1>0, <3>1 DEF CacheTyped
      <4>2. opened'[h[1]] = opened[h[1]] \/ opened'[h[1]] = opened[h[1]] + 1
        BY <1>0, <1>1, <1>3, <4>1 DEF CacheTyped
      <4>3. opened[h[1]] \in Nat  BY <1>0, <4>1 DEF CacheTyped
      <4> QED  BY <4>1, <4>2, <4>3
    <3>2. CASE h = <<t, opened[t] + 1>>
      <4>1. h[1] = t /\ h[2] = opened[t] + 1 /\ opened'[t] = opened[t] + 1
        BY <1>0, <1>1, <1>3, <3>2 DEF CacheTyped
      <4> QED  BY <1>1, <2>1, <4>1
    <3> QED  BY <1>3, <3>1, <3>2
  <2>4. OpenTyped'  BY <1>1, <1>3, <2>1 DEF OpenTyped
  <2> QED  BY <1>1, <2>2, <2>3, <2>4, CacheMoves DEF CacheTyped
<1> QED  BY <1>1, <1>2, <1>3

LEMMA CloseKeepsLife ==
  ASSUME LifeInv, OpenTyped, RequestsTyped, NEW q \in Requests, CloseTenant(q)
  PROVE  LifeInv' /\ OpenTyped'
<1> DEFINE t == request[q].tenant
<1>0. CacheTyped  BY DEF LifeInv
<1>1. /\ \/ runtime' = [runtime EXCEPT ![t] = 0] /\ UNCHANGED <<opened, open>>
         \/ open' = open \ {<<t, request[q].handle>>} /\ UNCHANGED <<runtime, opened>>
      /\ UNCHANGED <<legacy, serving, status, fileVars, job, boundVars, lifeGhosts>>
  BY DEF CloseTenant, Evict, CloseHistory
<1>2. CacheTyped'  BY <1>0, <1>1 DEF CacheTyped
<1>3. OpenTyped'  BY <1>1 DEF OpenTyped
<1> QED  BY <1>1, <1>2, <1>3, CacheMoves

LEMMA LifeStep ==
  ASSUME LifeInv, OpenTyped, RequestsTyped, [FlowNext]_allVars
  PROVE  LifeInv' /\ OpenTyped'
<1>1. ASSUME UNCHANGED lifeVars PROVE LifeInv' /\ OpenTyped'
  BY <1>1, LifeSteps DEF lifeVars, registryVars, OpenTyped
<1>2. ASSUME LifeNext, open' = open \/ open' = {} PROVE LifeInv' /\ OpenTyped'
  BY <1>2, LifeSteps DEF OpenTyped
<1>3. ASSUME NEW t \in Tenants, NEW st \in Status, Switch(t, st)
      PROVE  LifeInv' /\ OpenTyped'
  BY <1>2, <1>3 DEF LifeNext, Switch, registryVars
<1>4. ASSUME NEW q \in Requests, BeginRequest(q) PROVE LifeInv' /\ OpenTyped'
  <2>1. ASSUME NEW t \in Tenants, NEW st \in {"disabled", "deleted"}, CloseDown(q, t, st)
        PROVE  LifeInv' /\ OpenTyped'
    BY <1>3, <2>1 DEF CloseDown, Status
  <2> QED  BY <1>1, <1>4, <2>1 DEF BeginRequest, Authenticate, ChangeRole, DisableUser
<1>5. ASSUME NEW q \in Requests, MessageRequest(q) PROVE LifeInv' /\ OpenTyped'
  <2>1. CASE Resolve(q, "message", "message.ready")
    BY <2>1, ResolveKeepsLife DEF MessageStep
  <2> QED
    BY <1>1, <1>5, <2>1 DEF MessageRequest, LookUp, Ensure, Busy, StartRun, Elsewhere
<1>6. ASSUME NEW q \in Requests, DeleteRequest(q) PROVE LifeInv' /\ OpenTyped'
  <2>1. CASE Resolve(q, "delete", "delete.ready")
    BY <2>1, ResolveKeepsLife DEF DeleteStep
  <2>2. CASE DeleteWrite(q)
    <3>1. UNCHANGED <<lifeVars, rank, enabled, calls, grants>>
      BY <2>2, Zenon DEF DeleteWrite, Elsewhere
    <3> QED  BY <1>1, <3>1
  <2> QED  BY <1>1, <1>6, <2>1, <2>2 DEF DeleteRequest, NotBusy, Allowed, Elsewhere
<1>7. ASSUME NEW q \in Requests, CancelRequest(q) PROVE LifeInv' /\ OpenTyped'
  <2>1. CASE Resolve(q, "cancel", "cancel.ready")
    BY <2>1, ResolveKeepsLife DEF CancelStep
  <2> QED  BY <1>1, <1>7, <2>1 DEF CancelRequest, Allowed, Elsewhere
<1>8. ASSUME NEW q \in Requests, RevokeRequest(q) PROVE LifeInv' /\ OpenTyped'
  BY <1>1, <1>8, CloseKeepsLife
     DEF RevokeRequest, CancelMember, CancelAccount, CancelTenant, Elsewhere
<1>9. ASSUME NEW r \in Runs, RunOf(r) PROVE LifeInv' /\ OpenTyped'
  <2>1. ASSUME NEW c \in Customers, BindCustomerOnce(r, c) PROVE UNCHANGED lifeVars
    <3>1. UNCHANGED <<lifeVars, rank, enabled, calls, grants>>
      BY <2>1, Zenon DEF BindCustomerOnce, Elsewhere
    <3> QED  BY <3>1
  <2>2. ASSUME NEW from, NEW to, WriteMessage(r, from, to) PROVE UNCHANGED lifeVars
    <3>1. UNCHANGED <<lifeVars, rank, enabled, calls, grants>>
      BY <2>2, Zenon DEF WriteMessage, Elsewhere
    <3> QED  BY <3>1
  <2>3. ASSUME RunGoesOn(r) PROVE UNCHANGED lifeVars  BY <2>3 DEF RunGoesOn, Elsewhere
  <2> QED  BY <1>1, <1>9, <2>1, <2>2, <2>3 DEF RunOf
<1>10. CASE Grant
  BY <1>1, <1>3, <1>10 DEF Grant, Status
<1>11. CASE Provisioning
  <2>1. LifeNext  BY <1>11 DEF Provisioning, LifeNext
  <2>2. UNCHANGED registryVars
    <3>1. ASSUME NEW j \in Jobs, NEW t, Register(j, t) \/ Resume(j, t)
          PROVE  UNCHANGED registryVars
      BY <3>1 DEF Register, Resume, Begin
    <3>2. ASSUME NEW j \in Jobs, Migrate(j) PROVE UNCHANGED registryVars
      BY <3>2 DEF Migrate, Begin
    <3>3. ASSUME NEW j \in Jobs, JobStep(j) PROVE UNCHANGED registryVars
      BY <3>3 DEF JobStep, Clear, CopyOld, OpenHistory, MakeWiki, WriteMeta, Rename, StepFails,
                  Report, Keep
    <3>4. CASE Listen  BY <3>4 DEF Listen
    <3> QED  BY <1>11, <3>1, <3>2, <3>3, <3>4 DEF Provisioning
  <2> QED  BY <1>2, <2>1, <2>2 DEF registryVars
<1>12. CASE Crash
  BY <1>2, <1>12 DEF Crash, LifeNext, LifeCrash
<1>13. CASE UNCHANGED allVars  BY <1>1, <1>13 DEF allVars
<1> QED
  BY <1>4, <1>5, <1>6, <1>7, <1>8, <1>9, <1>10, <1>11, <1>12, <1>13 DEF FlowNext

-----------------------------------------------------------------------------
(* A request that begins, and the types of what the requests share. *)

LEMMA Authenticates ==
  ASSUME RequestsTyped, RowsTyped, NEW q \in Requests, NEW u \in Users, NEW k \in Keys,
         NEW c \in Customers \cup {NoCustomer}, NEW step \in {"message", "delete", "cancel"},
         Authenticate(q, u, k, c, step)
  PROVE  /\ RequestsTyped' /\ Others(q)
         /\ request[q].step = "idle" /\ Rights(u, TenantOf[k]) # "none"
         /\ request'[q] = Fresh(step, u, TenantOf[k], k, Rights(u, TenantOf[k]), c)
<1> DEFINE t == TenantOf[k]
           n == Fresh(step, u, t, k, Rights(u, t), c)
<1>1. t \in Tenants  BY TenantOfType
<1>2. Rights(u, t) \in Rank  BY <1>1 DEF Rights, RowsTyped, Rank
<1>3. step \in MessageStep \cup DeleteStep \cup CancelStep
  BY DEF MessageStep, DeleteStep, CancelStep
<1>4. n \in Request  BY <1>1, <1>2, <1>3 DEF Fresh, Request
<1>5. Addressed(n)  BY <1>1, <1>3 DEF Fresh, Addressed
<1>6. request' = [request EXCEPT ![q] = n]  BY DEF Authenticate
<1>7. request[q].step = "idle" /\ Rights(u, t) # "none"  BY DEF Authenticate, Call, At
<1> HIDE DEF n
<1>8. RequestsTyped' /\ request'[q] = n /\ Others(q)
  BY <1>4, <1>5, <1>6, OneRequest DEF Others
<1> QED  BY <1>7, <1>8 DEF n

(* A change of rights: what its request is about.                          *)
LEMMA Revokes ==
  ASSUME RequestsTyped, NEW q \in Requests, NEW u \in Users \cup {NoUser},
         NEW t \in Tenants \cup {NoTenant}, NEW step, Revoke(q, u, t, step),
         \/ step = "role.written" /\ u \in Users /\ t \in Tenants
         \/ step = "user.written" /\ u \in Users
         \/ step = "tenant.written" /\ t \in Tenants
  PROVE  /\ RequestsTyped' /\ Others(q)
         /\ request[q].step = "idle"
         /\ request'[q].step = step /\ request'[q].user = u /\ request'[q].tenant = t
         /\ UNCHANGED <<vars, session, work, grants, ghostVars>>
<1> DEFINE n == Fresh(step, u, t, NoKey, "none", NoCustomer)
<1>1. n \in Request /\ n.step = step /\ n.user = u /\ n.tenant = t
  BY DEF Fresh, Request, RevokeStep, Rank
<1>2. Addressed(n)  BY DEF Fresh, Addressed, MessageStep, DeleteStep, CancelStep
<1>3. request' = [request EXCEPT ![q] = n]  BY DEF Revoke
<1>4. request[q].step = "idle"  BY DEF Revoke, Call, At
<1> HIDE DEF n
<1>5. RequestsTyped' /\ request'[q] = n /\ Others(q)
  BY <1>1, <1>2, <1>3, OneRequest DEF Others
<1> QED  BY <1>1, <1>4, <1>5 DEF Revoke

(* Cancelling: the three requests that overtake others.                    *)
LEMMA Cancels ==
  ASSUME RequestsTyped, NEW q \in Requests
  PROVE  /\ CancelMember(q) \/ CancelAccount(q) \/ CancelTenant(q) => RequestsTyped'
         /\ CancelMember(q) \/ CancelAccount(q) => request'[q] = Idle
         /\ CancelTenant(q) => /\ request'[q].step = "tenant.dropped"
                               /\ request'[q].tenant = request[q].tenant
<1>1. CASE CancelMember(q) \/ CancelAccount(q)
  <2>1. \E hit : Overtake(q, Idle, hit)  BY <1>1 DEF CancelMember, CancelAccount
  <2>2. ~CancelTenant(q)  BY <1>1 DEF CancelMember, CancelAccount, CancelTenant, At
  <2> QED  BY <2>1, <2>2, IdleTyped, Overtakes
<1>2. CASE CancelTenant(q)
  <2> DEFINE n == Moved(request[q], "tenant.dropped", 0, FALSE)
  <2>1. \E hit : Overtake(q, n, hit)  BY <1>2 DEF CancelTenant
  <2>2. request[q] \in Request /\ Addressed(request[q]) /\ request[q].step = "tenant.written"
    BY <1>2 DEF RequestsTyped, CancelTenant, At
  <2>3. n \in Request  BY <2>2 DEF Moved, Later, Request, RevokeStep
  <2>4. Addressed(n)
    BY <2>2 DEF Moved, Later, Addressed, MessageStep, DeleteStep, CancelStep
  <2>5. n.step = "tenant.dropped" /\ n.tenant = request[q].tenant  BY DEF Moved, Later
  <2>6. ~(CancelMember(q) \/ CancelAccount(q))
    BY <2>2 DEF CancelMember, CancelAccount, At
  <2> HIDE DEF n
  <2> QED  BY <2>1, <2>3, <2>4, <2>5, <2>6, Overtakes
<1> QED  BY <1>1, <1>2

LEMMA RequestsStep ==
  ASSUME RequestsTyped, RowsTyped, LifeInv, OpenTyped, [FlowNext]_allVars
  PROVE  RequestsTyped'
<1>0. CacheTyped  BY DEF LifeInv
<1>1. ASSUME NEW q \in Requests, BeginRequest(q) PROVE RequestsTyped'
  <2>1. ASSUME NEW u \in Users, NEW k \in Keys, NEW c \in Customers \cup {NoCustomer},
               NEW step \in {"message", "delete", "cancel"}, Authenticate(q, u, k, c, step)
        PROVE  RequestsTyped'
    BY <2>1, Authenticates
  <2>2. ASSUME NEW t \in Tenants, NEW u \in Users, NEW role \in Rank, ChangeRole(q, t, u, role)
        PROVE  RequestsTyped'
    BY <2>2, Revokes DEF ChangeRole
  <2>3. ASSUME NEW u \in Users, DisableUser(q, u) PROVE RequestsTyped'
    BY <2>3, Revokes DEF DisableUser
  <2>4. ASSUME NEW t \in Tenants, NEW st, CloseDown(q, t, st) PROVE RequestsTyped'
    BY <2>4, Revokes DEF CloseDown
  <2> QED  BY <1>1, <2>1, <2>2, <2>3, <2>4 DEF BeginRequest
<1>2. ASSUME NEW q \in Requests, MessageRequest(q) PROVE RequestsTyped'
  <2>1. CASE Resolve(q, "message", "message.ready")
    BY <1>0, <2>1, Resolves DEF MessageStep
  <2>2. CASE LookUp(q)
    <3> DEFINE h == request[q].handle
               kn == Exists(request[q].key)
    <3>1. /\ request[q].step = "message.ready"
          /\ Finish(q) \/ request' = [request EXCEPT ![q] = Moved(@, "message.looked", h, kn)]
      BY <2>2 DEF LookUp, At
    <3>2. h \in Nat /\ kn \in BOOLEAN  BY DEF RequestsTyped, Request, Exists
    <3>3. MessageStep \in Phases /\ {"message.ready", "message.looked"} \subseteq MessageStep
      BY DEF Phases, MessageStep
    <3> HIDE DEF h, kn
    <3> QED  BY <3>1, <3>2, <3>3, Ends, MovesOn
  <2>3. CASE Ensure(q)
    <3>1. \E over : FinishIf(q, over, "message.ensured")  BY <2>3, Zenon DEF Ensure
    <3>2. request[q].step = "message.looked"  BY <2>3 DEF Ensure, At
    <3> QED  BY <3>1, <3>2, GoesOrEnds DEF Phases, MessageStep
  <2>4. CASE Busy(q)  BY <2>4, Ends DEF Busy
  <2>5. ASSUME NEW r \in Runs, StartRun(q, r) PROVE RequestsTyped'  BY <2>5, Ends DEF StartRun
  <2> QED  BY <1>2, <2>1, <2>2, <2>3, <2>4, <2>5 DEF MessageRequest
<1>3. ASSUME NEW q \in Requests, NEW from, NEW to, NEW phase \in {DeleteStep, CancelStep},
             from \in phase, to \in phase, Allowed(q, from, to)
      PROVE  RequestsTyped'
  <2>1. \E over : FinishIf(q, over, to)  BY <1>3, Zenon DEF Allowed
  <2>2. request[q].step = from  BY <1>3 DEF Allowed, At
  <2> QED  BY <1>3, <2>1, <2>2, GoesOrEnds DEF Phases
<1>4. ASSUME NEW q \in Requests, DeleteRequest(q) PROVE RequestsTyped'
  <2>1. CASE Resolve(q, "delete", "delete.ready")
    BY <1>0, <2>1, Resolves DEF DeleteStep
  <2>2. CASE NotBusy(q)
    <3>1. \E over : FinishIf(q, over, "delete.idle")  BY <2>2, Zenon DEF NotBusy
    <3>2. request[q].step = "delete.ready"  BY <2>2 DEF NotBusy, At
    <3> QED  BY <3>1, <3>2, GoesOrEnds DEF Phases, DeleteStep
  <2>3. CASE Allowed(q, "delete.idle", "delete.allowed")  BY <1>3, <2>3 DEF DeleteStep
  <2>4. CASE DeleteWrite(q)
    <3>1. Usable(q) \/ Finish(q)  BY <2>4, Zenon DEF DeleteWrite
    <3> QED  BY <2>4, <3>1, Deletes, Ends
  <2> QED  BY <1>4, <2>1, <2>2, <2>3, <2>4, Ends DEF DeleteRequest
<1>5. ASSUME NEW q \in Requests, CancelRequest(q) PROVE RequestsTyped'
  <2>1. CASE Resolve(q, "cancel", "cancel.ready")
    BY <1>0, <2>1, Resolves DEF CancelStep
  <2>2. CASE Allowed(q, "cancel.ready", "cancel.allowed")  BY <1>3, <2>2 DEF CancelStep
  <2> QED  BY <1>5, <2>1, <2>2, Ends DEF CancelRequest
<1>6. ASSUME NEW q \in Requests, CloseTenant(q) PROVE RequestsTyped'
  <2>1. CASE Finish(q)  BY <2>1, Ends
  <2>2. CASE ~Finish(q)
    <3> DEFINE h == runtime[request[q].tenant]
    <3>1. /\ request[q].step = "tenant.dropped"
          /\ request' = [request EXCEPT ![q] = Moved(@, "tenant.evicted", h, FALSE)]
      BY <1>6, <2>2 DEF CloseTenant, Finish, At
    <3>2. h \in Nat  BY <1>0, <3>1 DEF RequestsTyped, Addressed, CacheTyped
    <3> HIDE DEF h
    <3> QED  BY <3>1, <3>2, ReadsHandle DEF Phases, ClosingStep
  <2> QED  BY <2>1, <2>2
<1>7. ASSUME NEW q \in Requests, RevokeRequest(q) PROVE RequestsTyped'
  BY <1>6, <1>7, Cancels DEF RevokeRequest
<1>8. CASE UNCHANGED request  BY <1>8 DEF RequestsTyped
<1>9. ASSUME NEW r \in Runs, RunOf(r) PROVE RequestsTyped'
  <2>1. ASSUME NEW c \in Customers, BindCustomerOnce(r, c) PROVE UNCHANGED request
    <3>1. UNCHANGED <<vars, request, work, ghostVars>>  BY <2>1, Zenon DEF BindCustomerOnce
    <3> QED  BY <3>1
  <2>2. ASSUME NEW from, NEW to, WriteMessage(r, from, to) PROVE UNCHANGED request
    <3>1. UNCHANGED <<vars, session, request, startGhosts, revived>>
      BY <2>2, Zenon DEF WriteMessage
    <3> QED  BY <3>1
  <2> QED  BY <1>8, <1>9, <2>1, <2>2 DEF RunOf, RunGoesOn
<1>10. CASE Grant \/ Provisioning  BY <1>8, <1>10 DEF Grant, Provisioning
<1>11. CASE Crash  BY <1>11, IdleTyped DEF Crash, RequestsTyped
<1>12. CASE UNCHANGED allVars  BY <1>8, <1>12 DEF allVars, flowVars
<1> QED
  BY <1>1, <1>2, <1>4, <1>5, <1>7, <1>9, <1>10, <1>11, <1>12 DEF FlowNext

(* The rows of the identity store and of the histories, what the Runs hold, *)
(* and the counters and history variables.                                 *)
LEMMA RowsStep ==
  ASSUME RequestsTyped, RowsTyped, RegistryInv, [FlowNext]_allVars
  PROVE  RowsTyped'
<1>1. CASE UNCHANGED <<rank, enabled, session, work>>  BY <1>1 DEF RowsTyped
<1>2. ASSUME NEW q \in Requests, BeginRequest(q) PROVE RowsTyped'
  <2>1. ASSUME NEW t \in Tenants, NEW u \in Users, NEW role \in Rank, ChangeRole(q, t, u, role)
        PROVE  RowsTyped'
    <3>1. /\ rank' = [rank EXCEPT ![t][u] = role]
          /\ UNCHANGED <<enabled, session, work>>
      BY <2>1 DEF ChangeRole, Revoke
    <3> QED  BY <3>1 DEF RowsTyped
  <2>2. ASSUME NEW u \in Users, DisableUser(q, u) PROVE RowsTyped'
    BY <2>2 DEF DisableUser, Revoke, RowsTyped
  <2> QED  BY <1>1, <1>2, <2>1, <2>2 DEF BeginRequest, Authenticate, CloseDown, Revoke
<1>3. ASSUME NEW q \in Requests, MessageRequest(q) PROVE RowsTyped'
  <2>1. CASE Ensure(q)
    <3> DEFINE k == request[q].key
               row == [owner |-> IF Exists(k) THEN session[k].owner ELSE request[q].user,
                       customer |-> IF Binds(q) THEN request[q].customer
                                    ELSE session[k].customer,
                       gone |-> session[k].gone]
    <3>1. request[q] \in Request /\ k \in Keys /\ request[q].user \in Users
      BY <2>1 DEF RequestsTyped, Addressed, Ensure, At, MessageStep
    <3>2. row \in Row  BY <3>1 DEF RowsTyped, Row, Request
    <3>3. session' = [session EXCEPT ![k] = row] \/ session' = session
      BY <2>1 DEF Ensure
    <3>4. UNCHANGED <<rank, enabled, work>>  BY <2>1 DEF Ensure, Elsewhere
    <3> HIDE DEF row, k
    <3> QED  BY <3>2, <3>3, <3>4 DEF RowsTyped
  <2>2. ASSUME NEW r \in Runs, StartRun(q, r) PROVE RowsTyped'
    <3> DEFINE w == [rank |-> request[q].rank, handle |-> request[q].handle, step |-> "begun"]
    <3>1. work' = [work EXCEPT ![r] = w] /\ UNCHANGED <<rank, enabled, session>>
      BY <2>2 DEF StartRun, Elsewhere
    <3>2. w \in Work  BY DEF RequestsTyped, Request, Work
    <3> HIDE DEF w
    <3> QED  BY <3>1, <3>2 DEF RowsTyped
  <2> QED  BY <1>1, <1>3, <2>1, <2>2 DEF MessageRequest, Resolve, LookUp, Busy, Elsewhere
<1>4. ASSUME NEW q \in Requests, DeleteRequest(q) PROVE RowsTyped'
  <2>1. CASE DeleteWrite(q)
    <3>1. /\ UNCHANGED <<vars, work, ghostVars>>
          /\ UNCHANGED <<lifeVars, rank, enabled, calls, grants>>
      BY <2>1, Zenon DEF DeleteWrite, Elsewhere
    <3>2. Usable(q) \/ UNCHANGED session  BY <2>1, Zenon DEF DeleteWrite
    <3>3. CASE Usable(q)
      <4>1. session' = [session EXCEPT ![request[q].key].gone = TRUE]  BY <2>1, <3>3, Deletes
      <4> QED  BY <3>1, <4>1 DEF RowsTyped, Row
    <3> QED  BY <1>1, <3>1, <3>2, <3>3
  <2> QED  BY <1>1, <1>4, <2>1 DEF DeleteRequest, Resolve, NotBusy, Allowed, Elsewhere
<1>5. ASSUME NEW q \in Requests, CancelRequest(q) \/ RevokeRequest(q) PROVE RowsTyped'
  BY <1>1, <1>5 DEF CancelRequest, RevokeRequest, Resolve, Allowed, CancelMember, CancelAccount,
                   CancelTenant, CloseTenant, Elsewhere
<1>6. ASSUME NEW r \in Runs, RunOf(r) PROVE RowsTyped'
  <2>1. ASSUME NEW c \in Customers, BindCustomerOnce(r, c) PROVE RowsTyped'
    <3>1. /\ UNCHANGED <<vars, request, work, ghostVars>>
          /\ UNCHANGED <<lifeVars, rank, enabled, calls, grants>>
      BY <2>1, Zenon DEF BindCustomerOnce, Elsewhere
    <3>2. session' = [session EXCEPT ![runKey[r]].customer = c]
      BY <2>1, Zenon DEF BindCustomerOnce
    <3> QED  BY <3>1, <3>2 DEF RowsTyped, Row
  <2>2. ASSUME NEW from, NEW to \in {"asked", "answered"}, WriteMessage(r, from, to)
        PROVE  RowsTyped'
    <3>1. /\ UNCHANGED <<vars, session, request, startGhosts, revived>>
          /\ UNCHANGED <<lifeVars, rank, enabled, calls, grants>>
      BY <2>2, Zenon DEF WriteMessage, Elsewhere
    <3>2. work' = [work EXCEPT ![r].step = to]  BY <2>2, Zenon DEF WriteMessage
    <3> QED  BY <3>1, <3>2 DEF RowsTyped, Work
  <2> QED  BY <1>1, <1>6, <2>1, <2>2 DEF RunOf, RunGoesOn, Elsewhere
<1>7. CASE Grant
  <2>1. UNCHANGED <<session, work>>  BY <1>7 DEF Grant
  <2>2. \/ /\ \E t \in Tenants, u \in Users, role \in Rank : rank' = [rank EXCEPT ![t][u] = role]
           /\ UNCHANGED enabled
        \/ (\E u \in Users : enabled' = [enabled EXCEPT ![u] = TRUE]) /\ UNCHANGED rank
        \/ UNCHANGED <<rank, enabled>>
    BY <1>7 DEF Grant
  <2>3. rank' \in [Tenants -> [Users -> Rank]] /\ enabled' \in [Users -> BOOLEAN]
    <3>1. CASE \E t \in Tenants, u \in Users, role \in Rank :
                  rank' = [rank EXCEPT ![t][u] = role] /\ UNCHANGED enabled
      BY <3>1 DEF RowsTyped
    <3>2. CASE \E u \in Users : enabled' = [enabled EXCEPT ![u] = TRUE] /\ UNCHANGED rank
      BY <3>2 DEF RowsTyped
    <3>3. CASE UNCHANGED <<rank, enabled>>  BY <3>3 DEF RowsTyped
    <3> QED  BY <2>2, <3>1, <3>2, <3>3
  <2> QED  BY <2>1, <2>3 DEF RowsTyped
<1>8. CASE Provisioning
  <2>1. UNCHANGED <<enabled, session, work>>  BY <1>8 DEF Provisioning
  <2>2. rank' = rank \/ \E t \in Tenants, u \in Users : rank' = [rank EXCEPT ![t][u] = "admin"]
    BY <1>8 DEF Provisioning
  <2> QED  BY <2>1, <2>2 DEF RowsTyped, Rank
<1>9. CASE Crash  BY <1>1, <1>9 DEF Crash
<1>10. CASE UNCHANGED allVars  BY <1>1, <1>10 DEF allVars, flowVars
<1> QED
  BY <1>2, <1>3, <1>4, <1>5, <1>6, <1>7, <1>8, <1>9, <1>10 DEF FlowNext

-----------------------------------------------------------------------------
(* What each step does to the requests, the Runs, the rows and the rights. *)

RunsSame    == UNCHANGED <<active, pc, runKey, actor, cancelled>>
RightsSame  == UNCHANGED <<rank, enabled, status>>
HandlesSame == UNCHANGED <<runtime, opened, open>>
GhostsSame  == UNCHANGED <<late, crossing, lost, revived>>
RowsSame    == UNCHANGED <<session, work>>
RestSame    == RunsSame /\ RightsSame /\ HandlesSame /\ GhostsSame /\ RowsSame

(* The request q goes on in its phase; the others stay.                    *)
Goes(q, to) == SameTopic(q) /\ SameMarks(q) /\ request'[q].step = to

Authenticated(q) ==
    /\ Others(q) /\ request[q].step = "idle"
    /\ \E u \in Users, t \in Tenants :
          /\ request'[q].user = u /\ request'[q].tenant = t
          /\ request'[q].rank = Rights(u, t) /\ Rights(u, t) # "none"
    /\ request'[q].step \in {"message", "delete", "cancel"}
    /\ request'[q].stale = FALSE
    /\ RestSame

(* A right is taken away, and the cancellation is still to come.           *)
RoleChanged(q) ==
    /\ Others(q) /\ request[q].step = "idle" /\ request'[q].step = "role.written"
    /\ \E u \in Users, t \in Tenants :
          /\ request'[q].user = u /\ request'[q].tenant = t
          /\ \A v \in Users, s \in Tenants : v # u \/ s # t => rank'[s][v] = rank[s][v]
    /\ UNCHANGED <<enabled, status>> /\ RunsSame /\ HandlesSame /\ GhostsSame /\ RowsSame

UserDisabled(q) ==
    /\ Others(q) /\ request[q].step = "idle" /\ request'[q].step = "user.written"
    /\ \E u \in Users :
          /\ request'[q].user = u
          /\ \A v \in Users : v # u => enabled'[v] = enabled[v]
    /\ UNCHANGED <<rank, status>> /\ RunsSame /\ HandlesSame /\ GhostsSame /\ RowsSame

TenantClosed(q) ==
    /\ Others(q) /\ request[q].step = "idle" /\ request'[q].step = "tenant.written"
    /\ \E t \in Tenants :
          /\ request'[q].tenant = t /\ status'[t] \notin Served
          /\ \A s \in Tenants : s # t => status'[s] = status[s]
    /\ UNCHANGED <<rank, enabled>> /\ RunsSame /\ HandlesSame /\ GhostsSame /\ RowsSame

Resolved(q) ==
    LET t == request[q].tenant IN
    /\ Others(q) /\ t \in Tenants
    /\ request[q].step \in {"message", "delete", "cancel"}
    /\ \/ request'[q] = Idle /\ HandlesSame
       \/ /\ \/ request[q].step = "message" /\ Goes(q, "message.ready")
             \/ request[q].step = "delete" /\ Goes(q, "delete.ready")
             \/ request[q].step = "cancel" /\ Goes(q, "cancel.ready")
          /\ request'[q].handle = runtime'[t]
          /\ \/ runtime[t] # 0 /\ HandlesSame
             \/ /\ runtime[t] = 0
                /\ runtime' = [runtime EXCEPT ![t] = opened[t] + 1]
                /\ opened' = [opened EXCEPT ![t] = opened[t] + 1]
                /\ open' = open \cup {<<t, opened[t] + 1>>}
    /\ RunsSame /\ RightsSame /\ GhostsSame /\ RowsSame

LookedUp(q) ==
    /\ Others(q) /\ request[q].step = "message.ready"
    /\ \/ request'[q] = Idle
       \/ Goes(q, "message.looked") /\ request'[q].handle = request[q].handle
    /\ RestSame

RowEnsured(q) ==
    LET k == request[q].key IN
    /\ Others(q) /\ request[q].step = "message.looked"
    /\ \/ request'[q] = Idle
       \/ /\ Goes(q, "message.ensured") /\ request'[q].handle = request[q].handle
          /\ Exists(k) => ~session[k].gone
    /\ \A i \in Keys : /\ session'[i].gone = session[i].gone
                       /\ Exists(i) => Exists(i)'
                       /\ \/ session'[i].customer = session[i].customer
                          \/ i = k /\ ~request[q].known
    /\ RunsSame /\ RightsSame /\ HandlesSame /\ GhostsSame /\ UNCHANGED work

RunStarted(q, r) ==
    LET k == request[q].key IN
    /\ Others(q) /\ request[q].step = "message.ensured" /\ request'[q] = Idle
    /\ pc[r] = "unborn" /\ actor[r] = request[q].user /\ active[k] = NoRun
    /\ pc' = [pc EXCEPT ![r] = "body"] /\ runKey' = [runKey EXCEPT ![r] = k]
    /\ \A i \in Runs \ {r} : work'[i] = work[i]
    /\ work'[r].rank = request[q].rank /\ work'[r].handle = request[q].handle
    /\ late' = IF request[q].stale THEN late \cup {r} ELSE late
    /\ crossing' = IF request[q].doomed \/ DeletionUnderWay(k) THEN crossing \cup {r}
                   ELSE crossing
    /\ UNCHANGED <<actor, cancelled, session, lost, revived>>
    /\ RightsSame /\ HandlesSame

(* NotBusy, and the check of the rights of a deletion and a cancellation.  *)
Checked(q) ==
    LET k == request[q].key IN
    /\ Others(q)
    /\ request[q].step \in {"delete.ready", "delete.idle", "cancel.ready"}
    /\ \/ request'[q] = Idle
       \/ request[q].step = "delete.ready" /\ Goes(q, "delete.idle") /\ active[k] = NoRun
       \/ request[q].step = "delete.idle" /\ Goes(q, "delete.allowed") /\ Exists(k)
       \/ request[q].step = "cancel.ready" /\ Goes(q, "cancel.allowed")
    /\ RestSame

DeletionWritten(q) ==
    /\ request[q].step = "delete.allowed" /\ Goes(q, "delete.written") /\ SameTopic(q)
    /\ session' = [session EXCEPT ![request[q].key].gone = TRUE]
    /\ \A i \in Requests \ {q} :
          /\ SameTopic(i) /\ SameStep(i) /\ request'[i].stale = request[i].stale
          /\ request'[i].doomed <=> (request[i].doomed \/ Ensured(i, request[q].key))
    /\ RunsSame /\ RightsSame /\ HandlesSame /\ GhostsSame /\ UNCHANGED work

(* A request ends, and may have cancelled a Run.                           *)
RequestEnded(q) ==
    /\ Others(q) /\ request'[q] = Idle
    /\ request[q].step \in MessageStep \cup DeleteStep \cup CancelStep
    /\ UNCHANGED <<pc, runKey, actor>>
    /\ \A r \in Runs : cancelled[r] => cancelled'[r]
    /\ RightsSame /\ HandlesSame /\ GhostsSame /\ RowsSame

(* Whose Runs the request q is about to cancel.                            *)
Concerns(q, u, t) ==
    \/ At(q, "role.written") /\ request[q].user = u /\ request[q].tenant = t
    \/ At(q, "user.written") /\ request[q].user = u
    \/ At(q, "tenant.written") /\ request[q].tenant = t

Overtaken(q) ==
    /\ request[q].step \in {"role.written", "user.written", "tenant.written"}
    /\ \/ request[q].step # "tenant.written" /\ request'[q] = Idle
       \/ /\ request[q].step = "tenant.written"
          /\ request'[q].step = "tenant.dropped" /\ request'[q].tenant = request[q].tenant
    /\ \A i \in Requests \ {q} :
          /\ SameTopic(i) /\ SameStep(i) /\ request'[i].doomed = request[i].doomed
          /\ request'[i].stale <=>
                \/ request[i].stale
                \/ i \in Messages /\ Concerns(q, request[i].user, request[i].tenant)
    /\ \A r \in Runs : cancelled'[r] <=>
          cancelled[r] \/ (Registered(r) /\ Concerns(q, actor[r], TenantOf[runKey[r]]))
    /\ UNCHANGED <<pc, runKey, actor>>
    /\ RightsSame /\ HandlesSame /\ GhostsSame /\ RowsSame

RuntimeEvicted(q) ==
    LET t == request[q].tenant IN
    /\ Others(q) /\ request[q].step = "tenant.dropped" /\ t \in Tenants
    /\ \/ runtime[t] = 0 /\ request'[q] = Idle
       \/ runtime[t] # 0 /\ Goes(q, "tenant.evicted") /\ request'[q].handle = runtime[t]
    /\ runtime' = [runtime EXCEPT ![t] = 0] /\ UNCHANGED <<opened, open>>
    /\ RunsSame /\ RightsSame /\ GhostsSame /\ RowsSame

HistoryClosed(q) ==
    LET t == request[q].tenant IN
    /\ Others(q) /\ request[q].step = "tenant.evicted" /\ request'[q] = Idle /\ t \in Tenants
    /\ open' = open \ {<<t, request[q].handle>>} /\ UNCHANGED <<runtime, opened>>
    /\ RunsSame /\ RightsSame /\ GhostsSame /\ RowsSame

MessageWritten(r) ==
    /\ pc[r] = "body"
    /\ \A i \in Runs : work'[i].rank = work[i].rank /\ work'[i].handle = work[i].handle
    /\ lost' = IF Handle(r) \in open THEN lost ELSE lost \cup {r}
    /\ UNCHANGED <<request, session, late, crossing, revived>>
    /\ RunsSame /\ RightsSame /\ HandlesSame

CustomerBound ==
    /\ \A k \in Keys : /\ session'[k].gone = session[k].gone
                       /\ session'[k].owner = session[k].owner
                       /\ \/ session'[k].customer = session[k].customer
                          \/ session[k].customer = NoCustomer
    /\ UNCHANGED <<request, work>>
    /\ RunsSame /\ RightsSame /\ HandlesSame /\ GhostsSame

RunWentOn(r) ==
    /\ \A i \in Runs \ {r} : pc'[i] = pc[i]
    /\ pc[r] # "unborn" /\ pc'[r] # "unborn"
    /\ Registered(r)' => Registered(r)
    /\ Executing(r)' => Executing(r)
    /\ UNCHANGED <<request, runKey, actor, cancelled>>
    /\ RightsSame /\ HandlesSame /\ GhostsSame /\ RowsSame

(* Nothing that was given is taken, and a tenant served again is noticed.  *)
RightsGiven ==
    /\ \A t \in Tenants, u \in Users : Rights(u, t) # "none" => Rights(u, t)' = Rights(u, t)
    /\ Revive
    /\ UNCHANGED <<request, late, crossing, lost>>
    /\ RunsSame /\ HandlesSame /\ RowsSame

Crashed ==
    /\ request' = [q \in Requests |-> Idle]
    /\ \A r \in Runs : ~Registered(r)' /\ ~Executing(r)'
    /\ \A r \in Runs : pc'[r] = "unborn" <=> pc[r] = "unborn"
    /\ runtime' = [t \in Tenants |-> 0] /\ open' = {}
    /\ UNCHANGED <<runKey, actor, cancelled>> /\ RightsSame /\ GhostsSame /\ RowsSame

Still == UNCHANGED request /\ RestSame

RequestMoved(q) ==
    \/ Authenticated(q) \/ RoleChanged(q) \/ UserDisabled(q) \/ TenantClosed(q)
    \/ Resolved(q) \/ LookedUp(q) \/ RowEnsured(q) \/ (\E r \in Runs : RunStarted(q, r))
    \/ Checked(q) \/ DeletionWritten(q) \/ RequestEnded(q)
    \/ Overtaken(q) \/ RuntimeEvicted(q) \/ HistoryClosed(q)

StepKind ==
    \/ \E q \in Requests : RequestMoved(q)
    \/ \E r \in Runs : MessageWritten(r) \/ RunWentOn(r)
    \/ CustomerBound \/ RightsGiven \/ Crashed \/ Still

LEMMA FramesSame ==
  /\ UNCHANGED vars => RunsSame
  /\ UNCHANGED lifeVars => HandlesSame /\ UNCHANGED status
  /\ UNCHANGED ghostVars => GhostsSame
  /\ Elsewhere => HandlesSame /\ RightsSame
BY DEF vars, regVars, runVars, RunsSame, lifeVars, registryVars, HandlesSame, RightsSame,
       ghostVars, startGhosts, GhostsSame, Elsewhere

LEMMA BeginKinds ==
  ASSUME RequestsTyped, RowsTyped, LifeInv, NEW q \in Requests, BeginRequest(q)
  PROVE  RequestMoved(q)
<1>1. ASSUME NEW u \in Users, NEW k \in Keys, NEW c \in Customers \cup {NoCustomer},
             NEW step \in {"message", "delete", "cancel"}, Authenticate(q, u, k, c, step)
      PROVE  Authenticated(q)
  <2> DEFINE t == TenantOf[k]
             n == Fresh(step, u, t, k, Rights(u, t), c)
  <2>1. Others(q) /\ request[q].step = "idle" /\ Rights(u, t) # "none" /\ request'[q] = n
    BY <1>1, Authenticates
  <2>2. /\ n.user = u /\ n.tenant = t /\ n.rank = Rights(u, t) /\ n.step = step
        /\ n.stale = FALSE
    BY DEF Fresh
  <2>3. t \in Tenants  BY TenantOfType
  <2>4. UNCHANGED <<vars, lifeVars, rank, enabled, session, work, grants, ghostVars>>
    BY <1>1 DEF Authenticate
  <2>5. RestSame  BY <2>4, FramesSame DEF RestSame, RightsSame, RowsSame
  <2> HIDE DEF n, t
  <2> QED  BY <2>1, <2>2, <2>3, <2>5 DEF Authenticated
<1>2. ASSUME NEW t \in Tenants, NEW u \in Users, NEW role \in Rank, ChangeRole(q, t, u, role)
      PROVE  RoleChanged(q)
  <2>1. /\ Others(q) /\ request[q].step = "idle" /\ request'[q].step = "role.written"
        /\ request'[q].user = u /\ request'[q].tenant = t
        /\ UNCHANGED <<vars, session, work, grants, ghostVars>>
    BY <1>2, Revokes DEF ChangeRole
  <2>2. rank' = [rank EXCEPT ![t][u] = role] /\ UNCHANGED <<enabled, lifeVars>>
    BY <1>2 DEF ChangeRole
  <2>3. \A v \in Users, s \in Tenants : v # u \/ s # t => rank'[s][v] = rank[s][v]
    BY <2>2 DEF RowsTyped
  <2> QED  BY <2>1, <2>2, <2>3, FramesSame DEF RoleChanged, RowsSame
<1>3. ASSUME NEW u \in Users, DisableUser(q, u) PROVE UserDisabled(q)
  <2>1. /\ Others(q) /\ request[q].step = "idle" /\ request'[q].step = "user.written"
        /\ request'[q].user = u
        /\ UNCHANGED <<vars, session, work, grants, ghostVars>>
    BY <1>3, Revokes DEF DisableUser
  <2>2. enabled' = [enabled EXCEPT ![u] = FALSE] /\ UNCHANGED <<rank, lifeVars>>
    BY <1>3 DEF DisableUser
  <2>3. \A v \in Users : v # u => enabled'[v] = enabled[v]  BY <2>2 DEF RowsTyped
  <2> QED  BY <2>1, <2>2, <2>3, FramesSame DEF UserDisabled, RowsSame
<1>4. ASSUME NEW t \in Tenants, NEW st \in {"disabled", "deleted"}, CloseDown(q, t, st)
      PROVE  TenantClosed(q)
  <2>1. /\ Others(q) /\ request[q].step = "idle" /\ request'[q].step = "tenant.written"
        /\ request'[q].tenant = t
        /\ UNCHANGED <<vars, session, work, grants, ghostVars>>
    BY <1>4, Revokes DEF CloseDown
  <2>2. /\ status' = [status EXCEPT ![t] = st]
        /\ UNCHANGED <<rank, enabled, registryVars>>
    BY <1>4 DEF CloseDown, Switch, SetStatus
  <2>3. status'[t] = st /\ \A s \in Tenants : s # t => status'[s] = status[s]
    BY <2>2 DEF LifeInv, FilesTyped
  <2>4. HandlesSame  BY <2>2 DEF registryVars, HandlesSame
  <2> QED  BY <2>1, <2>2, <2>3, <2>4, FramesSame DEF TenantClosed, RowsSame, Served
<1> QED  BY <1>1, <1>2, <1>3, <1>4 DEF BeginRequest, RequestMoved

LEMMA ResolveKind ==
  ASSUME RequestsTyped, LifeInv, OpenTyped, NEW q \in Requests, NEW from, NEW to,
         NEW phase \in {MessageStep, DeleteStep, CancelStep}, from \in phase, to \in phase,
         \/ from = "message" /\ to = "message.ready"
         \/ from = "delete" /\ to = "delete.ready"
         \/ from = "cancel" /\ to = "cancel.ready",
         Resolve(q, from, to)
  PROVE  Resolved(q)
<1>0. CacheTyped  BY DEF LifeInv
<1>1. UNCHANGED <<vars, legacy, serving, status, fileVars, job, boundVars, lifeGhosts,
                  rank, enabled, session, work, calls, grants, ghostVars>>
  BY DEF Resolve
<1>2. RunsSame /\ RightsSame /\ GhostsSame /\ RowsSame
  BY <1>1, FramesSame DEF RightsSame, RowsSame
<1> QED  BY <1>0, <1>2, Resolves DEF Resolved, Goes, HandlesSame

LEMMA MessageKinds ==
  ASSUME RequestsTyped, RowsTyped, LifeInv, OpenTyped, NEW q \in Requests, MessageRequest(q)
  PROVE  RequestMoved(q)
<1>1. ASSUME Resolve(q, "message", "message.ready") PROVE Resolved(q)
  BY <1>1, ResolveKind DEF MessageStep
<1>2. ASSUME LookUp(q) PROVE LookedUp(q)
  <2>1. UNCHANGED <<vars, session, work, ghostVars>> /\ Elsewhere  BY <1>2 DEF LookUp
  <2>2. RestSame  BY <2>1, FramesSame DEF RestSame, RowsSame
  <2>3. request[q].step = "message.ready"  BY <1>2 DEF LookUp, At
  <2>4. CASE Finish(q)  BY <2>2, <2>3, <2>4, Ends DEF LookedUp
  <2>5. CASE ~Finish(q)
    <3> DEFINE h == request[q].handle
               kn == Exists(request[q].key)
    <3>1. request' = [request EXCEPT ![q] = Moved(@, "message.looked", h, kn)]
      BY <1>2, <2>5 DEF LookUp
    <3>2. h \in Nat /\ kn \in BOOLEAN  BY DEF RequestsTyped, Request, Exists
    <3>3. MessageStep \in Phases  BY DEF Phases
    <3>4. request[q].step \in MessageStep /\ "message.looked" \in MessageStep
      BY <2>3 DEF MessageStep
    <3> HIDE DEF h, kn
    <3>5. /\ Others(q) /\ SameTopic(q) /\ SameMarks(q)
          /\ request'[q].step = "message.looked" /\ request'[q].handle = h
      BY <3>1, <3>2, <3>3, <3>4, MovesOn
    <3> QED  BY <2>2, <2>3, <3>5 DEF LookedUp, Goes, h
  <2> QED  BY <2>4, <2>5
<1>3. ASSUME Ensure(q) PROVE RowEnsured(q)
  <2> DEFINE k == request[q].key
             mine == Usable(q) /\ (Writable(q, k) \/ ~Exists(k))
             row == [owner |-> IF Exists(k) THEN session[k].owner ELSE request[q].user,
                     customer |-> IF Binds(q) THEN request[q].customer
                                  ELSE session[k].customer,
                     gone |-> session[k].gone]
             fits == request[q].known /\ request[q].customer # NoCustomer =>
                        row.customer = request[q].customer
  <2>1. /\ request[q].step = "message.looked"
        /\ FinishIf(q, ~(mine /\ fits), "message.ensured")
        /\ session' = IF mine THEN [session EXCEPT ![k] = row] ELSE session
        /\ UNCHANGED <<vars, work, ghostVars>> /\ Elsewhere
    BY <1>3, Zenon DEF Ensure, At
  <2>2. k \in Keys /\ request[q].user \in Users
    BY <2>1 DEF RequestsTyped, Addressed, MessageStep
  <2>3. row.gone = session[k].gone /\ (Exists(k) => row.owner = session[k].owner)
    OBVIOUS
  <2>4. \A i \in Keys : session'[i].gone = session[i].gone
                        /\ (Exists(i) => session'[i].owner = session[i].owner)
    <3> HIDE DEF row, mine
    <3> QED  BY <2>1, <2>2, <2>3 DEF RowsTyped
  <2>5. \A i \in Keys : Exists(i) => Exists(i)'  BY <2>4 DEF Exists
  <2>6. mine => (Exists(k) => ~session[k].gone)  BY DEF Writable
  <2>7. row.customer = session[k].customer \/ ~request[q].known  BY DEF Binds
  <2> HIDE DEF row, mine, fits
  <2>8. \A i \in Keys : \/ session'[i].customer = session[i].customer
                        \/ i = k /\ ~request[q].known
    BY <2>1, <2>2, <2>7 DEF RowsTyped
  <2>9. /\ Others(q)
        /\ \/ request'[q] = Idle
           \/ /\ mine /\ Goes(q, "message.ensured") /\ request'[q].handle = request[q].handle
    <3>1. MessageStep \in Phases /\ {"message.looked", "message.ensured"} \subseteq MessageStep
      BY DEF Phases, MessageStep
    <3> QED  BY <2>1, <3>1, GoesOrEnds DEF Goes
  <2> QED  BY <2>1, <2>4, <2>5, <2>6, <2>8, <2>9, FramesSame DEF RowEnsured
<1>4. ASSUME Busy(q) PROVE RequestEnded(q)
  <2>1. UNCHANGED <<vars, session, work, ghostVars>> /\ Elsewhere  BY <1>4 DEF Busy
  <2>2. RestSame  BY <2>1, FramesSame DEF RestSame, RowsSame
  <2>3. request[q].step = "message.ensured" /\ Finish(q)  BY <1>4 DEF Busy, At
  <2> QED  BY <2>2, <2>3, Ends DEF RequestEnded, MessageStep, RestSame, RunsSame
<1>5. ASSUME NEW r \in Runs, StartRun(q, r) PROVE RunStarted(q, r)
  <2> DEFINE w == [rank |-> request[q].rank, handle |-> request[q].handle, step |-> "begun"]
  <2>1. /\ request[q].step = "message.ensured" /\ actor[r] = request[q].user
        /\ Start(r, request[q].key) /\ Finish(q)
        /\ work' = [work EXCEPT ![r] = w]
        /\ late' = IF request[q].stale THEN late \cup {r} ELSE late
        /\ crossing' = IF request[q].doomed \/ DeletionUnderWay(request[q].key)
                       THEN crossing \cup {r} ELSE crossing
        /\ UNCHANGED <<session, lost, revived>> /\ Elsewhere
    BY <1>5, Zenon DEF StartRun, At
  <2>2. Others(q) /\ request'[q] = Idle  BY <2>1, Ends
  <2>3. w.rank = request[q].rank /\ w.handle = request[q].handle  OBVIOUS
  <2> HIDE DEF w
  <2>4. (\A i \in Runs \ {r} : work'[i] = work[i]) /\ work'[r] = w
    BY <2>1 DEF RowsTyped
  <2> QED  BY <2>1, <2>2, <2>3, <2>4, FramesSame DEF RunStarted, Start
<1> QED  BY <1>1, <1>2, <1>3, <1>4, <1>5 DEF MessageRequest, RequestMoved

(* NotBusy, and the two checks of the rights.                              *)
LEMMA CheckKind ==
  ASSUME RequestsTyped, NEW q \in Requests, NEW from, NEW to, NEW over,
         NEW phase \in {DeleteStep, CancelStep}, from \in phase, to \in phase,
         At(q, from), FinishIf(q, over, to),
         \/ from = "delete.ready" /\ to = "delete.idle" /\ (~over => active[request[q].key] = NoRun)
         \/ from = "delete.idle" /\ to = "delete.allowed" /\ (~over => Exists(request[q].key))
         \/ from = "cancel.ready" /\ to = "cancel.allowed",
         UNCHANGED <<vars, session, work, ghostVars>>, Elsewhere
  PROVE  Checked(q)
<1>1. RestSame  BY FramesSame DEF RestSame, RowsSame
<1>2. request[q].step = from /\ phase \in Phases  BY DEF At, Phases
<1>3. /\ Others(q)
      /\ (over /\ request'[q] = Idle) \/ (~over /\ Goes(q, to))
  BY <1>2, GoesOrEnds DEF Goes
<1> QED  BY <1>1, <1>2, <1>3 DEF Checked

LEMMA DeleteKinds ==
  ASSUME RequestsTyped, RowsTyped, LifeInv, OpenTyped, NEW q \in Requests, DeleteRequest(q)
  PROVE  RequestMoved(q)
<1>1. ASSUME Resolve(q, "delete", "delete.ready") PROVE Resolved(q)
  BY <1>1, ResolveKind DEF DeleteStep
<1>2. ASSUME NotBusy(q) PROVE Checked(q)
  <2> DEFINE over == active[request[q].key] # NoRun
  <2>1. /\ At(q, "delete.ready") /\ FinishIf(q, over, "delete.idle")
        /\ UNCHANGED <<vars, session, work, ghostVars>> /\ Elsewhere
    BY <1>2, Zenon DEF NotBusy
  <2>2. ~over => active[request[q].key] = NoRun  OBVIOUS
  <2> HIDE DEF over
  <2> QED  BY <2>1, <2>2, CheckKind DEF DeleteStep
<1>3. ASSUME Allowed(q, "delete.idle", "delete.allowed") PROVE Checked(q)
  <2> DEFINE over == ~(Usable(q) /\ Writable(q, request[q].key))
  <2>1. /\ At(q, "delete.idle") /\ FinishIf(q, over, "delete.allowed")
        /\ UNCHANGED <<vars, session, work, ghostVars>> /\ Elsewhere
    BY <1>3, Zenon DEF Allowed
  <2>2. ~over => Exists(request[q].key)  BY DEF Writable
  <2> HIDE DEF over
  <2> QED  BY <2>1, <2>2, CheckKind DEF DeleteStep
<1>4. ASSUME DeleteWrite(q) PROVE DeletionWritten(q) \/ RequestEnded(q)
  <2>1. /\ Usable(q) \/ (Finish(q) /\ UNCHANGED session)
        /\ request[q].step = "delete.allowed"
        /\ UNCHANGED <<vars, work, ghostVars>> /\ Elsewhere
    BY <1>4, Zenon DEF DeleteWrite, At
  <2>2. RunsSame /\ RightsSame /\ HandlesSame /\ GhostsSame /\ UNCHANGED work
    BY <2>1, FramesSame
  <2>3. CASE Usable(q)
    <3>1. request'[q].stale = request[q].stale /\ request'[q].doomed = request[q].doomed
      BY <1>4, <2>1, <2>3 DEF DeleteWrite, Moved, Later, RequestsTyped
    <3> QED  BY <1>4, <2>1, <2>2, <2>3, <3>1, Deletes DEF DeletionWritten, Goes, SameMarks
  <2>4. CASE Finish(q) /\ UNCHANGED session
    BY <2>1, <2>2, <2>4, Ends DEF RequestEnded, DeleteStep, RunsSame, RowsSame
  <2> QED  BY <2>1, <2>3, <2>4
<1>5. ASSUME At(q, "delete.written"), DropSession(request[q].key), Finish(q),
             UNCHANGED <<session, work, ghostVars>>, Elsewhere
      PROVE  RequestEnded(q)
  <2>1. UNCHANGED <<pc, runKey, actor, cancelled>>  BY <1>5 DEF DropSession, runVars
  <2>2. request[q].step = "delete.written"  BY <1>5 DEF At
  <2> QED
    BY <1>5, <2>1, <2>2, Ends, FramesSame DEF RequestEnded, DeleteStep, RowsSame
<1> QED  BY <1>1, <1>2, <1>3, <1>4, <1>5 DEF DeleteRequest, RequestMoved

LEMMA CancelKinds ==
  ASSUME RequestsTyped, RowsTyped, RegistryInv, LifeInv, OpenTyped, NEW q \in Requests,
         CancelRequest(q)
  PROVE  RequestMoved(q)
<1>1. ASSUME Resolve(q, "cancel", "cancel.ready") PROVE Resolved(q)
  BY <1>1, ResolveKind DEF CancelStep
<1>2. ASSUME Allowed(q, "cancel.ready", "cancel.allowed") PROVE Checked(q)
  <2> DEFINE over == ~(Usable(q) /\ Writable(q, request[q].key))
  <2>1. /\ At(q, "cancel.ready") /\ FinishIf(q, over, "cancel.allowed")
        /\ UNCHANGED <<vars, session, work, ghostVars>> /\ Elsewhere
    BY <1>2, Zenon DEF Allowed
  <2> HIDE DEF over
  <2> QED  BY <2>1, CheckKind DEF CancelStep
<1>3. ASSUME At(q, "cancel.allowed"), Finish(q), UNCHANGED vars \/ Cancel(request[q].key),
             UNCHANGED <<session, work, ghostVars>>, Elsewhere
      PROVE  RequestEnded(q)
  <2>1. /\ UNCHANGED <<pc, runKey, actor>>
        /\ \A r \in Runs : cancelled[r] => cancelled'[r]
    BY <1>3 DEF vars, runVars, Cancel, CancelRuns
  <2>2. request[q].step = "cancel.allowed"  BY <1>3 DEF At
  <2> QED
    BY <1>3, <2>1, <2>2, Ends, FramesSame DEF RequestEnded, CancelStep, RowsSame
<1> QED  BY <1>1, <1>2, <1>3 DEF CancelRequest, RequestMoved

(* The registered Runs of some keys, by what their goroutines captured.    *)
LEMMA RegisteredRuns ==
  ASSUME RegistryInv, NEW ks \in SUBSET Keys
  PROVE  RunsOn(ks) = {r \in Runs : Registered(r) /\ runKey[r] \in ks}
BY DEF RunsOn, RegistryInv, WriterInv, RegistryNamesTheWriter

LEMMA RevokeKinds ==
  ASSUME RequestsTyped, RowsTyped, RegistryInv, LifeInv, OpenTyped, NEW q \in Requests,
         RevokeRequest(q)
  PROVE  RequestMoved(q)
<1> USE DEF Concerns, At
<1>0. \A r \in Runs : Registered(r) => runKey[r] \in Keys
  BY DEF RegistryInv, Placed, Registered, TypeOK
<1>1. ASSUME NEW next \in Request, Addressed(next), NEW hit, NEW cut \in SUBSET Runs,
             Overtake(q, next, hit), CancelRuns(cut),
             UNCHANGED <<session, work, ghostVars>>, Elsewhere,
             request[q].step \in {"role.written", "user.written", "tenant.written"},
             \/ request[q].step # "tenant.written" /\ next = Idle
             \/ /\ request[q].step = "tenant.written"
                /\ next.step = "tenant.dropped" /\ next.tenant = request[q].tenant,
             \A i \in Requests : i \in hit <=>
                i \in Messages /\ Concerns(q, request[i].user, request[i].tenant),
             \A r \in Runs : r \in cut <=>
                Registered(r) /\ Concerns(q, actor[r], TenantOf[runKey[r]])
      PROVE  Overtaken(q)
  <2>1. /\ request'[q] = next
        /\ \A i \in Requests \ {q} :
              /\ SameTopic(i) /\ SameStep(i) /\ request'[i].doomed = request[i].doomed
              /\ request'[i].stale <=> (request[i].stale \/ i \in hit)
    BY <1>1, Overtakes
  <2>2. UNCHANGED <<pc, runKey, actor>>
        /\ \A r \in Runs : cancelled'[r] = (cancelled[r] \/ r \in cut)
    BY <1>1 DEF CancelRuns
  <2>3. \A r \in Runs : cancelled'[r] <=> (cancelled[r] \/ r \in cut)  BY <2>2
  <2> HIDE DEF Concerns
  <2>4. \A r \in Runs : cancelled'[r] <=>
           cancelled[r] \/ (Registered(r) /\ Concerns(q, actor[r], TenantOf[runKey[r]]))
    BY <1>1, <2>3
  <2>5. \A i \in Requests \ {q} : request'[i].stale <=>
           \/ request[i].stale
           \/ i \in Messages /\ Concerns(q, request[i].user, request[i].tenant)
    BY <1>1, <2>1
  <2> QED  BY <1>1, <2>1, <2>2, <2>4, <2>5, FramesSame DEF Overtaken, RowsSame
<1>2. ASSUME CancelMember(q) PROVE Overtaken(q)
  <2> DEFINE t == request[q].tenant
             u == request[q].user
             hit == {p \in Messages : request[p].user = u /\ request[p].tenant = t}
             cut == {r \in RunsOn({k \in Keys : TenantOf[k] = t}) : actor[r] = u}
  <2>1. /\ request[q].step = "role.written" /\ CancelRuns(cut) /\ Overtake(q, Idle, hit)
        /\ UNCHANGED <<session, work, ghostVars>> /\ Elsewhere
    BY <1>2 DEF CancelMember, CancelTenantUser
  <2>2. cut \in SUBSET Runs /\ \A r \in Runs : r \in cut <=>
           Registered(r) /\ Concerns(q, actor[r], TenantOf[runKey[r]])
    BY <1>0, <2>1, RegisteredRuns
  <2>3. \A i \in Requests : i \in hit <=>
           i \in Messages /\ Concerns(q, request[i].user, request[i].tenant)
    BY <2>1
  <2> HIDE DEF hit, cut, Concerns
  <2> QED  BY <1>1, <2>1, <2>2, <2>3, IdleTyped
<1>3. ASSUME CancelAccount(q) PROVE Overtaken(q)
  <2> DEFINE u == request[q].user
             hit == {p \in Messages : request[p].user = u}
             cut == {r \in RunsOn(Keys) : actor[r] = u}
  <2>1. /\ request[q].step = "user.written" /\ CancelRuns(cut) /\ Overtake(q, Idle, hit)
        /\ UNCHANGED <<session, work, ghostVars>> /\ Elsewhere
    BY <1>3 DEF CancelAccount, CancelUser
  <2>2. cut \in SUBSET Runs /\ \A r \in Runs : r \in cut <=>
           Registered(r) /\ Concerns(q, actor[r], TenantOf[runKey[r]])
    BY <1>0, <2>1, RegisteredRuns
  <2>3. \A i \in Requests : i \in hit <=>
           i \in Messages /\ Concerns(q, request[i].user, request[i].tenant)
    BY <2>1
  <2> HIDE DEF hit, cut, Concerns
  <2> QED  BY <1>1, <2>1, <2>2, <2>3, IdleTyped
<1>4. ASSUME CancelTenant(q) PROVE Overtaken(q)
  <2> DEFINE t == request[q].tenant
             n == Moved(request[q], "tenant.dropped", 0, FALSE)
             hit == {p \in Messages : request[p].tenant = t}
             cut == RunsOn({k \in Keys : TenantOf[k] = t})
  <2>1. /\ request[q].step = "tenant.written" /\ CancelRuns(cut) /\ Overtake(q, n, hit)
        /\ UNCHANGED <<session, work, ghostVars>> /\ Elsewhere
    BY <1>4 DEF CancelTenant, DropTenant
  <2>2. cut \in SUBSET Runs /\ \A r \in Runs : r \in cut <=>
           Registered(r) /\ Concerns(q, actor[r], TenantOf[runKey[r]])
    BY <1>0, <2>1, RegisteredRuns
  <2>3. \A i \in Requests : i \in hit <=>
           i \in Messages /\ Concerns(q, request[i].user, request[i].tenant)
    BY <2>1
  <2>4. request[q] \in Request /\ Addressed(request[q])  BY DEF RequestsTyped
  <2>5. n \in Request  BY <2>4 DEF Moved, Later, Request, RevokeStep
  <2>6. Addressed(n)
    BY <2>1, <2>4 DEF Moved, Later, Addressed, MessageStep, DeleteStep, CancelStep
  <2>7. n.step = "tenant.dropped" /\ n.tenant = request[q].tenant  BY DEF Moved, Later
  <2> HIDE DEF hit, cut, Concerns, n
  <2> QED  BY <1>1, <2>1, <2>2, <2>3, <2>5, <2>6, <2>7
<1>5. ASSUME CloseTenant(q) PROVE RuntimeEvicted(q) \/ HistoryClosed(q)
  <2> DEFINE t == request[q].tenant
  <2>0. CacheTyped  BY DEF LifeInv
  <2>1. UNCHANGED <<vars, legacy, serving, status, fileVars, job, boundVars, lifeGhosts,
                    rank, enabled, session, work, calls, grants, ghostVars>>
    BY <1>5 DEF CloseTenant
  <2>2. RunsSame /\ RightsSame /\ GhostsSame /\ RowsSame
    BY <2>1, FramesSame DEF RightsSame, RowsSame
  <2>3. ASSUME request[q].step = "tenant.dropped", Evict(t),
               request' = [request EXCEPT ![q] =
                              IF Cached(t) THEN Moved(@, "tenant.evicted", runtime[t], FALSE)
                              ELSE Idle]
        PROVE  RuntimeEvicted(q)
    <3> DEFINE h == runtime[t]
    <3>1. t \in Tenants /\ h \in Nat  BY <2>0, <2>3 DEF RequestsTyped, Addressed, CacheTyped
    <3>2. CASE runtime[t] = 0
      <4>1. Finish(q)  BY <2>3, <3>2 DEF Finish, Cached
      <4> QED  BY <2>2, <2>3, <3>1, <3>2, <4>1, Ends DEF RuntimeEvicted, Evict
    <3>3. CASE runtime[t] # 0
      <4>1. request' = [request EXCEPT ![q] = Moved(@, "tenant.evicted", h, FALSE)]
        BY <2>3, <3>3 DEF Cached
      <4>2. /\ ClosingStep \in Phases /\ request[q].step \in ClosingStep
            /\ "tenant.evicted" \in ClosingStep
        BY <2>3 DEF Phases, ClosingStep
      <4> HIDE DEF h
      <4>3. Others(q) /\ Goes(q, "tenant.evicted") /\ request'[q].handle = h
        BY <3>1, <4>1, <4>2, ReadsHandle DEF Goes
      <4> QED  BY <2>2, <2>3, <3>1, <3>3, <4>3 DEF RuntimeEvicted, Evict, h
    <3> QED  BY <3>2, <3>3
  <2>4. ASSUME request[q].step = "tenant.evicted", CloseHistory(t, request[q].handle),
               Finish(q)
        PROVE  HistoryClosed(q)
    <3>1. t \in Tenants  BY <2>4 DEF RequestsTyped, Addressed
    <3> QED  BY <2>2, <2>4, <3>1, Ends DEF HistoryClosed, CloseHistory
  <2> QED  BY <1>5, <2>3, <2>4, Zenon DEF CloseTenant
<1> QED  BY <1>2, <1>3, <1>4, <1>5 DEF RevokeRequest, RequestMoved

LEMMA RunKinds ==
  ASSUME RequestsTyped, RowsTyped, RegistryInv, NEW r \in Runs, RunOf(r)
  PROVE  MessageWritten(r) \/ RunWentOn(r) \/ CustomerBound
<1>1. ASSUME NEW from, NEW to, WriteMessage(r, from, to) PROVE MessageWritten(r)
  <2>1. /\ pc[r] = "body" /\ work' = [work EXCEPT ![r].step = to] /\ Store(r)
        /\ UNCHANGED <<vars, session, request, startGhosts, revived>> /\ Elsewhere
    BY <1>1, Zenon DEF WriteMessage
  <2>2. \A i \in Runs : work'[i].rank = work[i].rank /\ work'[i].handle = work[i].handle
    BY <2>1 DEF RowsTyped, Work
  <2> QED  BY <2>1, <2>2, FramesSame DEF MessageWritten, Store, startGhosts
<1>2. ASSUME NEW c \in Customers, BindCustomerOnce(r, c) PROVE CustomerBound
  <2>1. /\ session' = [session EXCEPT ![runKey[r]].customer = c]
        /\ session[runKey[r]].customer = NoCustomer
        /\ UNCHANGED <<vars, request, work, ghostVars>> /\ Elsewhere
    BY <1>2, Zenon DEF BindCustomerOnce
  <2>2. \A k \in Keys : /\ session'[k].gone = session[k].gone
                         /\ session'[k].owner = session[k].owner
                         /\ \/ session'[k].customer = session[k].customer
                            \/ session[k].customer = NoCustomer
    BY <2>1 DEF RowsTyped, Row
  <2> QED  BY <2>1, <2>2, FramesSame DEF CustomerBound
<1>3. ASSUME RunGoesOn(r) PROVE RunWentOn(r)
  <2>1. UNCHANGED <<session, request, work, ghostVars>> /\ Elsewhere  BY <1>3 DEF RunGoesOn
  <2>2. /\ UNCHANGED <<runKey, actor, cancelled>>
        /\ \/ pc[r] = "body" /\ pc' = [pc EXCEPT ![r] = "returned"]
           \/ pc[r] = "body" /\ pc' = [pc EXCEPT ![r] = "panicked"]
           \/ pc[r] = "panicked" /\ pc' = [pc EXCEPT ![r] = "returned"]
           \/ pc[r] = "returned" /\ pc' = [pc EXCEPT ![r] = "unregistered"]
           \/ pc[r] = "unregistered" /\ pc' = [pc EXCEPT ![r] = "over"]
    BY <1>3 DEF RunGoesOn, Return, Panic, Recover, Publish, Unregister, CloseDone
  <2>3. pc \in [Runs -> PC]  BY DEF RegistryInv, TypeOK
  <2>4. /\ \A i \in Runs \ {r} : pc'[i] = pc[i]
        /\ pc[r] # "unborn" /\ pc'[r] # "unborn"
        /\ Registered(r)' => Registered(r)
        /\ Executing(r)' => Executing(r)
    BY <2>2, <2>3 DEF Registered, Executing
  <2> QED  BY <2>1, <2>2, <2>4, FramesSame DEF RunWentOn, RowsSame
<1> QED  BY <1>1, <1>2, <1>3 DEF RunOf

(* A tenant that is served is served after a step of the provisioning, and *)
(* only a tenant that is registered now gets its first member.             *)
LEMMA ServedOn ==
  ASSUME LifeInv, RowsTyped, Provisioning
  PROVE  /\ \A t \in Tenants : status[t] \in Served => status'[t] \in Served
         /\ \/ UNCHANGED rank
            \/ \E t \in Tenants : /\ status[t] = "absent"
                                 /\ \A s \in Tenants : s # t => rank'[s] = rank[s]
         /\ HandlesSame
<1>0. FilesTyped  BY DEF LifeInv
<1>1. ASSUME NEW j \in Jobs, NEW t \in Tenants, NEW u \in Users, Register(j, t),
             rank' = [rank EXCEPT ![t][u] = "admin"]
      PROVE  /\ \A s \in Tenants : status[s] \in Served => status'[s] \in Served
             /\ status[t] = "absent" /\ \A s \in Tenants : s # t => rank'[s] = rank[s]
             /\ HandlesSame
  <2>1. /\ status[t] = "absent" /\ status' = [status EXCEPT ![t] = "provisioning"]
        /\ UNCHANGED registryVars
    BY <1>1 DEF Register, SetStatus, Begin
  <2> QED  BY <1>0, <1>1, <2>1 DEF FilesTyped, RowsTyped, Served, registryVars, HandlesSame
<1>2. ASSUME NEW j \in Jobs, NEW t \in Tenants, Resume(j, t)
      PROVE  UNCHANGED status /\ HandlesSame
  BY <1>2 DEF Resume, Begin, registryVars, HandlesSame
<1>3. ASSUME NEW j \in Jobs, Migrate(j)
      PROVE  /\ \A s \in Tenants : status[s] \in Served => status'[s] \in Served
             /\ HandlesSame
  <2>1. /\ \/ status[legacy] = "absent" /\ status' = [status EXCEPT ![legacy] = "provisioning"]
           \/ UNCHANGED status
        /\ UNCHANGED registryVars
    BY <1>3 DEF Migrate, SetStatus, Begin
  <2> QED  BY <1>0, <2>1 DEF FilesTyped, Served, registryVars, HandlesSame
<1>4. ASSUME NEW j \in Jobs, JobStep(j)
      PROVE  /\ \A s \in Tenants : status[s] \in Served => status'[s] \in Served
             /\ HandlesSame
  <2>1. CASE Report(j)
    <3>1. /\ status' = [status EXCEPT ![job[j].tenant] = Outcome(j)]
          /\ UNCHANGED registryVars
      BY <2>1 DEF Report, SetStatus
    <3>2. Outcome(j) \in Served \/ Outcome(j) = status[job[j].tenant]
      BY DEF Outcome, Served
    <3> QED  BY <1>0, <3>1, <3>2 DEF FilesTyped, registryVars, HandlesSame
  <2>2. CASE ~Report(j)
    <3>1. UNCHANGED <<status, registryVars>>
      BY <1>4, <2>2 DEF JobStep, Clear, CopyOld, OpenHistory, MakeWiki, WriteMeta, Rename,
                        StepFails, Keep
    <3> QED  BY <3>1 DEF registryVars, HandlesSame
  <2> QED  BY <2>1, <2>2
<1>5. CASE Listen  BY <1>5 DEF Listen, registryVars, HandlesSame, Provisioning, Register, Begin,
                              Resume, Migrate, JobStep
<1> QED  BY <1>1, <1>2, <1>3, <1>4, <1>5 DEF Provisioning

LEMMA GivenKinds ==
  ASSUME LifeInv, RowsTyped, Grant \/ Provisioning
  PROVE  RightsGiven
<1>0. FilesTyped  BY DEF LifeInv
<1>1. CASE Grant
  <2>1. Revive /\ UNCHANGED <<vars, session, request, work, calls, startGhosts, lost>>
    BY <1>1 DEF Grant
  <2>2. /\ \A t \in Tenants, u \in Users : Rights(u, t) # "none" => Rights(u, t)' = Rights(u, t)
        /\ HandlesSame
    <3>1. ASSUME NEW t \in Tenants, NEW u \in Users, NEW role \in Rank,
                 rank[t][u] = "none", rank' = [rank EXCEPT ![t][u] = role],
                 UNCHANGED <<enabled, lifeVars>>
          PROVE  /\ \A s \in Tenants, v \in Users :
                       Rights(v, s) # "none" => Rights(v, s)' = Rights(v, s)
                 /\ HandlesSame
      <4>1. \A s \in Tenants, v \in Users : rank[s][v] # "none" => rank'[s][v] = rank[s][v]
        BY <3>1 DEF RowsTyped
      <4> QED  BY <3>1, <4>1, FramesSame DEF Rights
    <3>2. ASSUME NEW u \in Users, ~enabled[u], enabled' = [enabled EXCEPT ![u] = TRUE],
                 UNCHANGED <<rank, lifeVars>>
          PROVE  /\ \A s \in Tenants, v \in Users :
                       Rights(v, s) # "none" => Rights(v, s)' = Rights(v, s)
                 /\ HandlesSame
      <4>1. \A v \in Users : enabled[v] => enabled'[v]  BY <3>2 DEF RowsTyped
      <4> QED  BY <3>2, <4>1, FramesSame DEF Rights
    <3>3. ASSUME NEW t \in Tenants, Switch(t, "active"), UNCHANGED <<rank, enabled>>
          PROVE  /\ \A s \in Tenants, v \in Users :
                       Rights(v, s) # "none" => Rights(v, s)' = Rights(v, s)
                 /\ HandlesSame
      <4>1. status' = [status EXCEPT ![t] = "active"] /\ UNCHANGED registryVars
        BY <3>3 DEF Switch, SetStatus
      <4>2. \A s \in Tenants : status[s] \in Served => status'[s] \in Served
        BY <1>0, <4>1 DEF FilesTyped, Served
      <4> QED  BY <3>3, <4>1, <4>2 DEF Rights, registryVars, HandlesSame
    <3> QED  BY <1>1, <3>1, <3>2, <3>3 DEF Grant
  <2> QED  BY <2>1, <2>2, FramesSame DEF RightsGiven, startGhosts, RowsSame
<1>2. CASE Provisioning
  <2>1. /\ Revive
        /\ UNCHANGED <<vars, enabled, session, request, work, calls, grants, startGhosts, lost>>
    BY <1>2 DEF Provisioning
  <2>2. \A t \in Tenants, u \in Users : Rights(u, t) # "none" => Rights(u, t)' = Rights(u, t)
    BY <1>2, <2>1, ServedOn DEF Rights, Served
  <2> QED
    BY <1>2, <2>1, <2>2, ServedOn, FramesSame DEF RightsGiven, startGhosts, RowsSame
<1> QED  BY <1>1, <1>2

LEMMA CrashKind == ASSUME RegistryInv, Crash PROVE Crashed
<1>1. /\ pc' = [r \in Runs |-> IF pc[r] = "unborn" THEN "unborn" ELSE "over"]
      /\ UNCHANGED <<runKey, actor, cancelled, rank, enabled, session, work, ghostVars>>
      /\ request' = [q \in Requests |-> Idle]
  BY DEF Crash
<1>2. runtime' = [t \in Tenants |-> 0] /\ open' = {} /\ UNCHANGED status
  BY DEF Crash, LifeCrash
<1> QED
  BY <1>1, <1>2, FramesSame DEF Crashed, Registered, Executing, RightsSame, RowsSame

LEMMA StepKinds ==
  ASSUME RequestsTyped, RowsTyped, RegistryInv, LifeInv, OpenTyped, [FlowNext]_allVars
  PROVE  StepKind
<1>1. ASSUME UNCHANGED allVars PROVE Still
  <2>1. UNCHANGED <<vars, lifeVars, ghostVars, request, session, work, rank, enabled>>
    BY <1>1 DEF allVars, flowVars
  <2> QED  BY <2>1, FramesSame DEF Still, RestSame, RightsSame, RowsSame
<1>2. ASSUME NEW q \in Requests,
             \/ BeginRequest(q) \/ MessageRequest(q) \/ DeleteRequest(q)
             \/ CancelRequest(q) \/ RevokeRequest(q)
      PROVE  RequestMoved(q)
  BY <1>2, BeginKinds, MessageKinds, DeleteKinds, CancelKinds, RevokeKinds
<1>3. ASSUME NEW r \in Runs, RunOf(r) PROVE MessageWritten(r) \/ RunWentOn(r) \/ CustomerBound
  BY <1>3, RunKinds
<1>4. ASSUME Grant \/ Provisioning PROVE RightsGiven  BY <1>4, GivenKinds
<1>5. ASSUME Crash PROVE Crashed  BY <1>5, CrashKind
<1> QED  BY <1>1, <1>2, <1>3, <1>4, <1>5 DEF FlowNext, StepKind

-----------------------------------------------------------------------------
(* The types, for the requests with the registry and the directories.      *)

FlowInv == RegistryInv /\ LifeInv /\ OpenTyped /\ RequestsTyped /\ RowsTyped

LEMMA FlowStep ==
  ASSUME FlowInv, [FlowNext]_allVars
  PROVE  FlowInv' /\ StepKind
BY RegistryStep, LifeStep, RequestsStep, RowsStep, StepKinds DEF FlowInv

LEMMA FlowInitInv == FlowInit => FlowInv
<1> SUFFICES ASSUME FlowInit PROVE FlowInv  OBVIOUS
<1>1. Init /\ LifeInit  BY DEF FlowInit
<1>2. TypeOK
  BY <1>1, NoKeyIsNoKey, NoRunIsNoRun DEF Init, TypeOK, PC, Event
<1>3. Placed  BY <1>1 DEF Init, Placed
<1>4. WriterInv
  BY <1>1, NoRunIsNoRun DEF Init, WriterInv, RegistryNamesTheWriter, Fanning, Registered
<1>5. LifeInv /\ OpenTyped  BY <1>1, LifeInitInv DEF LifeInit, OpenTyped
<1>6. RequestsTyped  BY IdleTyped DEF FlowInit, RequestsTyped
<1>7. RowsTyped  BY DEF FlowInit, RowsTyped, NoRow, Row, NoWork, Work, Rank
<1> QED  BY <1>2, <1>3, <1>4, <1>5, <1>6, <1>7 DEF FlowInv, RegistryInv

-----------------------------------------------------------------------------
(* The handles of the histories.  The registry's is open; the one a        *)
(* CloseTenant has still to close is not the registry's any more.          *)

Evicted(q) == request[q].step = "tenant.evicted"

HandlesInv ==
    /\ NoHistoryLeaks
    /\ \A t \in Tenants : runtime[t] # 0 => <<t, runtime[t]>> \in open
    /\ \A q \in Requests : Evicted(q) =>
          /\ request[q].handle \in 1 .. opened[request[q].tenant]
          /\ request[q].handle # runtime[request[q].tenant]

(* A step that leaves the handles and the requests that close them alone.  *)
LEMMA HandlesQuiet ==
  ASSUME HandlesInv, HandlesSame,
         \A q \in Requests : Evicted(q) \/ Evicted(q)' =>
            /\ Evicted(q) /\ Evicted(q)'
            /\ request'[q].tenant = request[q].tenant /\ request'[q].handle = request[q].handle
  PROVE  HandlesInv'
BY DEF HandlesInv, NoHistoryLeaks, HandlesSame, Evicted, At

LEMMA HandlesStep ==
  ASSUME FlowInv, FlowInv', HandlesInv, StepKind
  PROVE  HandlesInv'
<1> USE DEF Evicted
<1>0. CacheTyped /\ CacheTyped' /\ OpenTyped /\ OpenTyped'  BY DEF FlowInv, LifeInv
<1>a. Idle.step = "idle"  BY DEF Idle, Fresh
<1>b. ASSUME NEW q \in Requests PROVE Evicted(q) => request[q].tenant \in Tenants
  BY DEF FlowInv, RequestsTyped, Addressed
<1>1. ASSUME NEW q \in Requests, HandlesSame, Others(q), ~Evicted(q), ~Evicted(q)'
      PROVE  HandlesInv'
  <2>1. \A i \in Requests : Evicted(i) \/ Evicted(i)' =>
           /\ Evicted(i) /\ Evicted(i)'
           /\ request'[i].tenant = request[i].tenant /\ request'[i].handle = request[i].handle
    BY <1>1 DEF Others
  <2> QED  BY <1>1, <2>1, HandlesQuiet
<1>2. ASSUME NEW q \in Requests, HandlesSame, ~Evicted(q), ~Evicted(q)',
             \A i \in Requests \ {q} : SameTopic(i) /\ SameStep(i)
      PROVE  HandlesInv'
  <2>1. \A i \in Requests : Evicted(i) \/ Evicted(i)' =>
           /\ Evicted(i) /\ Evicted(i)'
           /\ request'[i].tenant = request[i].tenant /\ request'[i].handle = request[i].handle
    BY <1>2 DEF SameTopic, SameStep
  <2> QED  BY <1>2, <2>1, HandlesQuiet
<1>3. ASSUME NEW q \in Requests, Resolved(q) PROVE HandlesInv'
  <2> DEFINE t == request[q].tenant
  <2>1. t \in Tenants /\ Others(q) /\ ~Evicted(q) /\ ~Evicted(q)'
    BY <1>3, <1>a DEF Resolved, Goes
  <2>2. CASE HandlesSame  BY <1>1, <2>1, <2>2
  <2>3. CASE ~HandlesSame
    <3> DEFINE n == opened[t] + 1
    <3>1. /\ runtime[t] = 0 /\ runtime' = [runtime EXCEPT ![t] = n]
          /\ opened' = [opened EXCEPT ![t] = n] /\ open' = open \cup {<<t, n>>}
      BY <1>3, <2>3 DEF Resolved
    <3>2. n \in Nat /\ n = opened[t] + 1 /\ opened[t] \in Nat  BY <1>0, <2>1 DEF CacheTyped
    <3> HIDE DEF n
    <3>3. runtime'[t] = n /\ opened'[t] = n
          /\ \A s \in Tenants \ {t} : runtime'[s] = runtime[s] /\ opened'[s] = opened[s]
      BY <1>0, <2>1, <3>1 DEF CacheTyped
    <3>4. NoHistoryLeaks'
      <4> SUFFICES ASSUME NEW h \in open'
                   PROVE  \/ runtime'[h[1]] = h[2]
                          \/ \E i \in Requests : /\ Evicted(i)' /\ request'[i].tenant = h[1]
                                                 /\ request'[i].handle = h[2]
        BY DEF NoHistoryLeaks, At
      <4>1. CASE h = <<t, n>>  BY <3>3, <4>1
      <4>2. CASE h \in open
        <5>1. h[1] \in Tenants /\ h[2] \in 1 .. opened[h[1]] /\ opened[h[1]] \in Nat
          BY <1>0, <4>2 DEF CacheTyped
        <5>2. \/ runtime[h[1]] = h[2]
              \/ \E i \in Requests : /\ Evicted(i) /\ request[i].tenant = h[1]
                                     /\ request[i].handle = h[2]
          BY <4>2 DEF HandlesInv, NoHistoryLeaks, At
        <5>3. runtime[h[1]] = h[2] => h[1] # t  BY <3>1, <5>1
        <5>4. \A i \in Requests : Evicted(i) => i # q /\ request'[i] = request[i]
          BY <2>1 DEF Others
        <5> QED  BY <3>3, <5>1, <5>2, <5>3, <5>4
      <4> QED  BY <3>1, <4>1, <4>2
    <3>5. \A s \in Tenants : runtime'[s] # 0 => <<s, runtime'[s]>> \in open'
      BY <3>1, <3>3 DEF HandlesInv
    <3>6. ASSUME NEW i \in Requests, Evicted(i)'
          PROVE  /\ request'[i].handle \in 1 .. opened'[request'[i].tenant]
                 /\ request'[i].handle # runtime'[request'[i].tenant]
      <4>1. Evicted(i) /\ request'[i] = request[i]  BY <2>1, <3>6 DEF Others
      <4>2. /\ request[i].handle \in 1 .. opened[request[i].tenant]
            /\ request[i].handle # runtime[request[i].tenant] /\ request[i].tenant \in Tenants
        BY <1>b, <4>1 DEF HandlesInv
      <4>3. CASE request[i].tenant = t  BY <3>2, <3>3, <4>1, <4>2, <4>3
      <4>4. CASE request[i].tenant # t  BY <3>3, <4>1, <4>2, <4>4
      <4> QED  BY <4>3, <4>4
    <3> QED  BY <3>4, <3>5, <3>6 DEF HandlesInv
  <2> QED  BY <2>2, <2>3
<1>4. ASSUME NEW q \in Requests, RuntimeEvicted(q) PROVE HandlesInv'
  <2> DEFINE t == request[q].tenant
  <2>1. /\ t \in Tenants /\ Others(q) /\ ~Evicted(q)
        /\ runtime' = [runtime EXCEPT ![t] = 0] /\ UNCHANGED <<opened, open>>
        /\ \/ runtime[t] = 0 /\ request'[q] = Idle
           \/ /\ runtime[t] # 0 /\ Evicted(q)'
              /\ request'[q].tenant = t /\ request'[q].handle = runtime[t]
    BY <1>4 DEF RuntimeEvicted, Goes, SameTopic
  <2>2. runtime'[t] = 0 /\ \A s \in Tenants \ {t} : runtime'[s] = runtime[s]
    BY <1>0, <2>1 DEF CacheTyped
  <2>3. \A h \in open : h[1] \in Tenants /\ h[2] \in 1 .. opened[h[1]] /\ opened[h[1]] \in Nat
    BY <1>0 DEF CacheTyped
  <2> HIDE DEF t
  <2>4. NoHistoryLeaks'
    <3> SUFFICES ASSUME NEW h \in open
                 PROVE  \/ runtime'[h[1]] = h[2]
                        \/ \E i \in Requests : /\ Evicted(i)' /\ request'[i].tenant = h[1]
                                               /\ request'[i].handle = h[2]
      BY <2>1 DEF NoHistoryLeaks, At
    <3>1. CASE runtime[h[1]] = h[2] /\ h[1] = t
      <4>1. runtime[t] # 0  BY <2>3, <3>1
      <4> QED  BY <2>1, <3>1, <4>1
    <3>2. CASE runtime[h[1]] = h[2] /\ h[1] # t  BY <2>2, <2>3, <3>2
    <3>3. CASE \E i \in Requests : /\ Evicted(i) /\ request[i].tenant = h[1]
                                   /\ request[i].handle = h[2]
      BY <2>1, <3>3 DEF Others
    <3> QED  BY <3>1, <3>2, <3>3 DEF HandlesInv, NoHistoryLeaks, At
  <2>5. \A s \in Tenants : runtime'[s] # 0 => <<s, runtime'[s]>> \in open'
    BY <2>1, <2>2 DEF HandlesInv
  <2>6. ASSUME NEW i \in Requests, Evicted(i)'
        PROVE  /\ request'[i].handle \in 1 .. opened'[request'[i].tenant]
               /\ request'[i].handle # runtime'[request'[i].tenant]
    <3>1. CASE i = q
      <4>1. /\ runtime[t] # 0 /\ request'[i].tenant = t /\ request'[i].handle = runtime[t]
        BY <1>a, <2>1, <2>6, <3>1
      <4>2. runtime[t] \in 1 .. opened[t]
        <5>1. <<t, runtime[t]>> \in open  BY <2>1, <4>1 DEF HandlesInv
        <5> QED  BY <2>3, <5>1
      <4> QED  BY <2>1, <2>2, <4>1, <4>2
    <3>2. CASE i # q
      <4>1. Evicted(i) /\ request'[i] = request[i]  BY <2>1, <2>6, <3>2 DEF Others
      <4>2. /\ request[i].handle \in 1 .. opened[request[i].tenant]
            /\ request[i].handle # runtime[request[i].tenant] /\ request[i].tenant \in Tenants
        BY <1>b, <4>1 DEF HandlesInv
      <4>3. request[i].handle # 0  BY <1>0, <4>2 DEF CacheTyped
      <4> QED  BY <2>1, <2>2, <4>1, <4>2, <4>3
    <3> QED  BY <3>1, <3>2
  <2> QED  BY <2>4, <2>5, <2>6 DEF HandlesInv
<1>5. ASSUME NEW q \in Requests, HistoryClosed(q) PROVE HandlesInv'
  <2> DEFINE t == request[q].tenant
             n == request[q].handle
  <2>1. /\ t \in Tenants /\ Others(q) /\ Evicted(q) /\ request'[q] = Idle
        /\ open' = open \ {<<t, n>>} /\ UNCHANGED <<runtime, opened>>
    BY <1>5 DEF HistoryClosed
  <2>2. n # runtime[t]  BY <2>1 DEF HandlesInv
  <2> HIDE DEF t, n
  <2>3. NoHistoryLeaks'
    <3> SUFFICES ASSUME NEW h \in open'
                 PROVE  \/ runtime[h[1]] = h[2]
                        \/ \E i \in Requests : /\ Evicted(i)' /\ request'[i].tenant = h[1]
                                               /\ request'[i].handle = h[2]
      BY <2>1 DEF NoHistoryLeaks, At
    <3>1. h \in open /\ h # <<t, n>> /\ h \in Tenants \X Nat  BY <1>0, <2>1 DEF OpenTyped
    <3>2. CASE runtime[h[1]] = h[2]  BY <3>2
    <3>3. ASSUME NEW i \in Requests, Evicted(i), request[i].tenant = h[1],
                 request[i].handle = h[2]
          PROVE  Evicted(i)' /\ request'[i].tenant = h[1] /\ request'[i].handle = h[2]
      <4>1. i # q  BY <3>1, <3>3 DEF t, n
      <4> QED  BY <2>1, <3>3, <4>1 DEF Others
    <3> QED  BY <3>1, <3>2, <3>3 DEF HandlesInv, NoHistoryLeaks, At
  <2>4. \A s \in Tenants : runtime'[s] # 0 => <<s, runtime'[s]>> \in open'
    BY <2>1, <2>2 DEF HandlesInv
  <2>5. \A i \in Requests : Evicted(i)' => Evicted(i) /\ request'[i] = request[i]
    BY <1>a, <2>1 DEF Others
  <2> QED  BY <2>1, <2>3, <2>4, <2>5 DEF HandlesInv
<1>6. CASE Crashed
  BY <1>a, <1>6 DEF Crashed, HandlesInv, NoHistoryLeaks, At
<1>7. ASSUME HandlesSame, UNCHANGED request PROVE HandlesInv'
  BY <1>7, HandlesQuiet
<1>8. ASSUME NEW q \in Requests, RequestMoved(q) PROVE HandlesInv'
  <2>1. CASE Authenticated(q)  BY <1>1, <2>1 DEF Authenticated, RestSame
  <2>2. CASE RoleChanged(q) \/ UserDisabled(q) \/ TenantClosed(q)
    BY <1>1, <2>2 DEF RoleChanged, UserDisabled, TenantClosed
  <2>3. CASE LookedUp(q) \/ RowEnsured(q) \/ Checked(q)
    BY <1>1, <1>a, <2>3 DEF LookedUp, RowEnsured, Checked, RestSame, Goes
  <2>4. ASSUME NEW r \in Runs, RunStarted(q, r) PROVE HandlesInv'
    BY <1>1, <1>a, <2>4 DEF RunStarted
  <2>5. CASE DeletionWritten(q)  BY <1>2, <2>5 DEF DeletionWritten, Goes
  <2>6. CASE RequestEnded(q)
    BY <1>1, <1>a, <2>6 DEF RequestEnded, MessageStep, DeleteStep, CancelStep
  <2>7. CASE Overtaken(q)  BY <1>2, <1>a, <2>7 DEF Overtaken
  <2> QED  BY <1>3, <1>4, <1>5, <1>8, <2>1, <2>2, <2>3, <2>4, <2>5, <2>6, <2>7 DEF RequestMoved
<1>9. ASSUME NEW r \in Runs, MessageWritten(r) \/ RunWentOn(r) PROVE HandlesInv'
  BY <1>7, <1>9 DEF MessageWritten, RunWentOn
<1>10. CASE CustomerBound \/ RightsGiven \/ Still
  BY <1>7, <1>10 DEF CustomerBound, RightsGiven, Still, RestSame
<1> QED  BY <1>6, <1>8, <1>9, <1>10 DEF StepKind

-----------------------------------------------------------------------------
(* The rights of the Runs.  What a request that is not overtaken read, and *)
(* what a Run that is not told works with, is in force, or the request     *)
(* that took it away has still to cancel.                                  *)

Keeps(role, u, t) ==
    role # "none" /\ (Rights(u, t) = role \/ \E q \in Requests : Concerns(q, u, t))

Fair(p) == p \in Messages /\ ~request[p].stale =>
              Keeps(request[p].rank, request[p].user, request[p].tenant)

Unwarned(r) == Executing(r) /\ ~cancelled[r] /\ r \notin late

Entitled(r) == Unwarned(r) => Keeps(work[r].rank, actor[r], TenantOf[runKey[r]])

RightsInv == (\A p \in Requests : Fair(p)) /\ (\A r \in Runs : Entitled(r))

(* The requests that take rights and are not q go on to their cancellation. *)
LEMMA ConcernsOn ==
  ASSUME NEW q \in Requests, Others(q),
         request[q].step \notin {"role.written", "user.written", "tenant.written"}
  PROVE  \A i \in Requests, u \in Users, t \in Tenants : Concerns(i, u, t) => Concerns(i, u, t)'
BY DEF Others, Concerns, At

(* Every Run that executes is a user's, in a session of a tenant.          *)
LEMMA RunsConcern ==
  ASSUME FlowInv
  PROVE  /\ \A r \in Runs : Executing(r) =>
               /\ actor[r] \in Users /\ runKey[r] \in Keys /\ TenantOf[runKey[r]] \in Tenants
         /\ \A p \in Messages :
               /\ request[p].user \in Users /\ request[p].key \in Keys
               /\ request[p].tenant \in Tenants /\ request[p].tenant = TenantOf[request[p].key]
<1>1. TypeOK /\ Placed  BY DEF FlowInv, RegistryInv
<1>2. \A r \in Runs : Executing(r) => runKey[r] \in Keys
  BY <1>1 DEF Executing, TypeOK, Placed
<1>3. \A p \in Messages : /\ request[p].user \in Users /\ request[p].key \in Keys
                          /\ request[p].tenant = TenantOf[request[p].key]
  BY DEF FlowInv, RequestsTyped, Addressed, Messages
<1> QED  BY <1>1, <1>2, <1>3, TenantOfType DEF TypeOK

(* A step that cancels nothing: what goes on keeps what it has.            *)
LEMMA RightsQuiet ==
  ASSUME FlowInv, RightsInv,
         \A u \in Users, t \in Tenants :
            /\ Rights(u, t) # "none" =>
                  Rights(u, t)' = Rights(u, t) \/ \E i \in Requests : Concerns(i, u, t)'
            /\ \A i \in Requests : Concerns(i, u, t) => Concerns(i, u, t)',
         \A p \in Requests : (p \in Messages)' =>
            \/ Fair(p)'
            \/ p \in Messages /\ SameTopic(p) /\ (request[p].stale => request'[p].stale),
         \A r \in Runs : Unwarned(r)' =>
            \/ Entitled(r)'
            \/ /\ Unwarned(r) /\ runKey'[r] = runKey[r] /\ actor'[r] = actor[r]
               /\ work'[r].rank = work[r].rank
  PROVE  RightsInv'
<1>1. ASSUME NEW p \in Requests PROVE Fair(p)'
  <2> SUFFICES ASSUME (p \in Messages)', ~request'[p].stale, ~Fair(p)'
               PROVE  Keeps(request[p].rank, request[p].user, request[p].tenant)'
    BY DEF Fair
  <2>1. p \in Messages /\ SameTopic(p) /\ ~request[p].stale  OBVIOUS
  <2>2. Keeps(request[p].rank, request[p].user, request[p].tenant)
    BY <2>1 DEF RightsInv, Fair
  <2> DEFINE role == request[p].rank
             u == request[p].user
             t == request[p].tenant
  <2>3. u \in Users /\ t \in Tenants  BY <2>1, RunsConcern
  <2>4. Keeps(role, u, t) /\ request'[p].rank = role /\ request'[p].user = u
        /\ request'[p].tenant = t
    BY <2>1, <2>2 DEF SameTopic
  <2> QED  BY <2>3, <2>4 DEF Keeps, Rights, Concerns, At
<1>2. ASSUME NEW r \in Runs PROVE Entitled(r)'
  <2> SUFFICES ASSUME Unwarned(r)', ~Entitled(r)'
               PROVE  Keeps(work[r].rank, actor[r], TenantOf[runKey[r]])'
    BY DEF Entitled
  <2>1. Unwarned(r) /\ Executing(r) /\ runKey'[r] = runKey[r] /\ actor'[r] = actor[r]
        /\ work'[r].rank = work[r].rank
    BY DEF Unwarned
  <2>2. Keeps(work[r].rank, actor[r], TenantOf[runKey[r]])  BY <2>1 DEF RightsInv, Entitled
  <2>3. actor[r] \in Users /\ TenantOf[runKey[r]] \in Tenants  BY <2>1, RunsConcern
  <2> QED  BY <2>1, <2>2, <2>3 DEF Keeps
<1> QED  BY <1>1, <1>2 DEF RightsInv

LEMMA RightsStep ==
  ASSUME FlowInv, FlowInv', RightsInv, StepKind
  PROVE  RightsInv'
<1> DEFINE Written == {"role.written", "user.written", "tenant.written"}
<1>a. Idle.step = "idle"  BY DEF Idle, Fresh
<1>b. MessageStep \cap ({"idle"} \cup DeleteStep \cup CancelStep \cup RevokeStep) = {}
  BY DEF MessageStep, DeleteStep, CancelStep, RevokeStep
<1>c. RightsSame => \A u \in Users, t \in Tenants : Rights(u, t)' = Rights(u, t)
  BY DEF RightsSame, Rights
<1>d. UNCHANGED request =>
         \A i \in Requests, u \in Users, t \in Tenants : Concerns(i, u, t) => Concerns(i, u, t)'
  BY DEF Concerns, At
(* A request moves, and no right changes.                                  *)
<1>1. ASSUME NEW q \in Requests, Others(q), request[q].step \notin Written, RightsSame,
             \/ Fair(q)'
             \/ request'[q].step \notin MessageStep
             \/ request[q].step \in MessageStep /\ SameTopic(q) /\ SameMarks(q),
             \A r \in Runs : Unwarned(r)' =>
                \/ Entitled(r)'
                \/ /\ Unwarned(r) /\ runKey'[r] = runKey[r] /\ actor'[r] = actor[r]
                   /\ work'[r].rank = work[r].rank
      PROVE  RightsInv'
  <2>1. \A i \in Requests, u \in Users, t \in Tenants : Concerns(i, u, t) => Concerns(i, u, t)'
    BY <1>1, ConcernsOn
  <2>2. \A p \in Requests : (p \in Messages)' =>
            \/ Fair(p)'
            \/ p \in Messages /\ SameTopic(p) /\ (request[p].stale => request'[p].stale)
    BY <1>1 DEF Others, Messages, SameTopic, SameMarks
  <2> QED  BY <1>1, <1>c, <2>1, <2>2, RightsQuiet
<1>2. ASSUME RunsSame \/ UNCHANGED <<pc, runKey, actor, cancelled>>, UNCHANGED <<late, work>>
      PROVE  \A r \in Runs : Unwarned(r)' =>
                /\ Unwarned(r) /\ runKey'[r] = runKey[r] /\ actor'[r] = actor[r]
                /\ work'[r].rank = work[r].rank
  BY <1>2 DEF RunsSame, Unwarned, Executing
<1>3. ASSUME NEW q \in Requests, RestSame, Others(q), request[q].step \notin Written,
             \/ Fair(q)'
             \/ request'[q].step \notin MessageStep
             \/ request[q].step \in MessageStep /\ SameTopic(q) /\ SameMarks(q)
      PROVE  RightsInv'
  BY <1>1, <1>2, <1>3 DEF RestSame, GhostsSame, RowsSame
(* A request begins: with the rights that are in force, or taking some.    *)
<1>4. ASSUME NEW q \in Requests, Authenticated(q) PROVE RightsInv'
  <2>1. PICK u \in Users, t \in Tenants :
           /\ request'[q].user = u /\ request'[q].tenant = t
           /\ request'[q].rank = Rights(u, t) /\ Rights(u, t) # "none"
    BY <1>4 DEF Authenticated
  <2>2. Rights(u, t)' = Rights(u, t)  BY <1>4, <1>c DEF Authenticated, RestSame
  <2>3. Fair(q)'  BY <2>1, <2>2 DEF Fair, Keeps
  <2> QED  BY <1>3, <1>4, <2>3 DEF Authenticated
<1>5. ASSUME NEW q \in Requests, RoleChanged(q) \/ UserDisabled(q) \/ TenantClosed(q)
      PROVE  RightsInv'
  <2>1. /\ Others(q) /\ request[q].step = "idle" /\ request'[q].step \in Written
        /\ RunsSame /\ GhostsSame /\ RowsSame
    BY <1>5 DEF RoleChanged, UserDisabled, TenantClosed
  <2>2. \A i \in Requests, u \in Users, t \in Tenants : Concerns(i, u, t) => Concerns(i, u, t)'
    BY <2>1, ConcernsOn
  <2>3. \A u \in Users, t \in Tenants :
           Rights(u, t)' = Rights(u, t) \/ Concerns(q, u, t)'
    BY <1>5 DEF RoleChanged, UserDisabled, TenantClosed, Concerns, At, Rights
  <2>4. \A p \in Requests : (p \in Messages)' =>
           p \in Messages /\ SameTopic(p) /\ (request[p].stale => request'[p].stale)
    BY <2>1 DEF Others, Messages, SameTopic, MessageStep
  <2>5. \A r \in Runs : Unwarned(r)' =>
           /\ Unwarned(r) /\ runKey'[r] = runKey[r] /\ actor'[r] = actor[r]
           /\ work'[r].rank = work[r].rank
    BY <1>2, <2>1 DEF GhostsSame, RowsSame
  <2> QED  BY <2>2, <2>3, <2>4, <2>5, RightsQuiet
(* A Run starts with what its message read.                                *)
<1>6. ASSUME NEW q \in Requests, NEW r \in Runs, RunStarted(q, r) PROVE RightsInv'
  <2>1. /\ Others(q) /\ request[q].step = "message.ensured" /\ request'[q] = Idle
        /\ RightsSame /\ UNCHANGED <<actor, cancelled>>
        /\ late \subseteq late' /\ (request[q].stale => r \in late')
        /\ runKey' = [runKey EXCEPT ![r] = request[q].key]
        /\ actor[r] = request[q].user /\ work'[r].rank = request[q].rank
        /\ pc' = [pc EXCEPT ![r] = "body"]
    BY <1>6 DEF RunStarted
  <2>2. q \in Messages  BY <2>1 DEF Messages, MessageStep
  <2>3. TypeOK  BY DEF FlowInv, RegistryInv
  <2>4. /\ runKey'[r] = request[q].key
        /\ \A i \in Runs \ {r} : runKey'[i] = runKey[i] /\ pc'[i] = pc[i]
    BY <2>1, <2>3 DEF TypeOK
  <2>5. Entitled(r)'
    <3> SUFFICES ASSUME Unwarned(r)' PROVE Keeps(work[r].rank, actor[r], TenantOf[runKey[r]])'
      BY DEF Entitled
    <3>1. ~request[q].stale  BY <2>1 DEF Unwarned
    <3>2. Keeps(request[q].rank, request[q].user, request[q].tenant)
      BY <2>2, <3>1 DEF RightsInv, Fair
    <3>3. /\ request[q].user \in Users /\ request[q].tenant \in Tenants
          /\ request[q].tenant = TenantOf[request[q].key]
      BY <2>2, RunsConcern
    <3>4. \A i \in Requests, u \in Users, t \in Tenants : Concerns(i, u, t) => Concerns(i, u, t)'
      BY <2>1, ConcernsOn
    <3>5. TenantOf[runKey'[r]] = request[q].tenant /\ actor'[r] = request[q].user
      BY <2>1, <2>4, <3>3
    <3> QED  BY <1>c, <2>1, <3>2, <3>3, <3>4, <3>5 DEF Keeps
  <2>6. \A i \in Runs : Unwarned(i)' =>
           \/ Entitled(i)'
           \/ /\ Unwarned(i) /\ runKey'[i] = runKey[i] /\ actor'[i] = actor[i]
              /\ work'[i].rank = work[i].rank
    BY <1>6, <2>1, <2>4, <2>5 DEF Unwarned, Executing, RunStarted
  <2> QED  BY <1>1, <1>a, <1>b, <2>1, <2>6
(* A cancellation tells the Runs it concerns, and the messages.            *)
<1>7. ASSUME NEW q \in Requests, Overtaken(q) PROVE RightsInv'
  <2>1. RightsSame /\ UNCHANGED <<pc, runKey, actor, late, work>>
    BY <1>7 DEF Overtaken, GhostsSame, RowsSame
  <2>2. \A i \in Requests \ {q}, u \in Users, t \in Tenants :
           Concerns(i, u, t) => Concerns(i, u, t)'
    BY <1>7 DEF Overtaken, SameTopic, SameStep, Concerns, At
  <2>3. ASSUME NEW p \in Requests PROVE Fair(p)'
    <3> SUFFICES ASSUME (p \in Messages)', ~request'[p].stale
                 PROVE  Keeps(request[p].rank, request[p].user, request[p].tenant)'
      BY DEF Fair
    <3>1. p # q
      BY <1>7, <1>a DEF Overtaken, Messages, MessageStep
    <3>2. /\ p \in Messages /\ SameTopic(p) /\ ~request[p].stale
          /\ ~Concerns(q, request[p].user, request[p].tenant)
      BY <1>7, <3>1 DEF Overtaken, SameStep, Messages
    <3>3. Keeps(request[p].rank, request[p].user, request[p].tenant)
      BY <3>2 DEF RightsInv, Fair
    <3>4. request[p].user \in Users /\ request[p].tenant \in Tenants  BY <3>2, RunsConcern
    <3> QED  BY <1>c, <2>1, <2>2, <3>2, <3>3, <3>4 DEF Keeps, SameTopic
  <2>4. ASSUME NEW r \in Runs PROVE Entitled(r)'
    <3> SUFFICES ASSUME Unwarned(r)' PROVE Keeps(work[r].rank, actor[r], TenantOf[runKey[r]])'
      BY DEF Entitled
    <3>1. /\ Unwarned(r) /\ ~Concerns(q, actor[r], TenantOf[runKey[r]])
      BY <1>7, <2>1 DEF Overtaken, Unwarned, Executing, Registered
    <3>2. Keeps(work[r].rank, actor[r], TenantOf[runKey[r]])  BY <3>1 DEF RightsInv, Entitled
    <3>3. actor[r] \in Users /\ TenantOf[runKey[r]] \in Tenants
      BY <3>1, RunsConcern DEF Unwarned
    <3> QED  BY <1>c, <2>1, <2>2, <3>1, <3>2, <3>3 DEF Keeps
  <2> QED  BY <2>3, <2>4 DEF RightsInv
<1>8. CASE Crashed
  BY <1>8, <1>a DEF Crashed, RightsInv, Fair, Entitled, Unwarned, Messages, MessageStep
<1>9. ASSUME UNCHANGED request,
             \A u \in Users, t \in Tenants : Rights(u, t) # "none" => Rights(u, t)' = Rights(u, t),
             \A r \in Runs : Unwarned(r)' =>
                /\ Unwarned(r) /\ runKey'[r] = runKey[r] /\ actor'[r] = actor[r]
                /\ work'[r].rank = work[r].rank
      PROVE  RightsInv'
  <2>1. \A p \in Requests : (p \in Messages)' =>
           p \in Messages /\ SameTopic(p) /\ (request[p].stale => request'[p].stale)
    BY <1>9 DEF Messages, SameTopic
  <2> QED  BY <1>9, <1>d, <2>1, RightsQuiet
<1>10. CASE RightsGiven  BY <1>2, <1>9, <1>10 DEF RightsGiven, RowsSame
<1>11. ASSUME NEW r \in Runs, MessageWritten(r) \/ RunWentOn(r) PROVE RightsInv'
  <2>1. UNCHANGED <<request, runKey, actor, cancelled, late>> /\ RightsSame
    BY <1>11 DEF MessageWritten, RunWentOn, RunsSame, GhostsSame
  <2>2. \A i \in Runs : work'[i].rank = work[i].rank
    BY <1>11 DEF MessageWritten, RunWentOn, RowsSame
  <2>3. \A i \in Runs : Executing(i)' => Executing(i)
    BY <1>11 DEF MessageWritten, RunWentOn, RunsSame, Executing
  <2> QED  BY <1>9, <1>c, <2>1, <2>2, <2>3 DEF Unwarned
<1>12. CASE CustomerBound \/ Still
  BY <1>2, <1>9, <1>c, <1>12 DEF CustomerBound, Still, RestSame, GhostsSame, RowsSame
<1>13. ASSUME NEW q \in Requests, RequestMoved(q) PROVE RightsInv'
  <2>1. CASE LookedUp(q)
    BY <1>3, <1>a, <1>b, <2>1 DEF LookedUp, Goes, MessageStep
  <2>2. CASE Checked(q)
    BY <1>3, <1>a, <1>b, <2>2 DEF Checked, Goes, MessageStep
  <2>3. CASE Resolved(q)
    <3>1. /\ Others(q) /\ request[q].step \notin Written /\ RightsSame
          /\ RunsSame /\ GhostsSame /\ RowsSame
          /\ \/ request'[q].step \notin MessageStep
             \/ request[q].step \in MessageStep /\ SameTopic(q) /\ SameMarks(q)
      BY <1>a, <2>3 DEF Resolved, Goes, MessageStep
    <3> QED  BY <1>1, <1>2, <3>1 DEF GhostsSame, RowsSame
  <2>4. CASE RowEnsured(q)
    <3>1. /\ Others(q) /\ request[q].step \notin Written /\ RightsSame
          /\ RunsSame /\ GhostsSame /\ UNCHANGED work
          /\ \/ request'[q].step \notin MessageStep
             \/ request[q].step \in MessageStep /\ SameTopic(q) /\ SameMarks(q)
      BY <1>a, <2>4 DEF RowEnsured, Goes, MessageStep
    <3> QED  BY <1>1, <1>2, <3>1 DEF GhostsSame
  <2>5. CASE DeletionWritten(q)
    <3>1. \A i \in Requests, u \in Users, t \in Tenants : Concerns(i, u, t) => Concerns(i, u, t)'
      BY <2>5 DEF DeletionWritten, SameTopic, SameStep, Concerns, At
    <3>2. \A p \in Requests : (p \in Messages)' =>
             p \in Messages /\ SameTopic(p) /\ (request[p].stale => request'[p].stale)
      BY <2>5 DEF DeletionWritten, SameStep, Messages, MessageStep, Goes
    <3>3. RightsSame /\ RunsSame /\ UNCHANGED <<late, work>>
      BY <2>5 DEF DeletionWritten, GhostsSame
    <3> QED  BY <1>2, <1>c, <3>1, <3>2, <3>3, RightsQuiet
  <2>6. CASE RequestEnded(q)
    <3>1. /\ Others(q) /\ request'[q] = Idle /\ request[q].step \notin Written /\ RightsSame
          /\ UNCHANGED <<pc, runKey, actor, late, work>>
          /\ \A r \in Runs : cancelled[r] => cancelled'[r]
      BY <2>6 DEF RequestEnded, GhostsSame, RowsSame, MessageStep, DeleteStep, CancelStep
    <3>2. \A r \in Runs : Unwarned(r)' =>
             /\ Unwarned(r) /\ runKey'[r] = runKey[r] /\ actor'[r] = actor[r]
             /\ work'[r].rank = work[r].rank
      BY <3>1 DEF Unwarned, Executing
    <3> QED  BY <1>1, <1>a, <1>b, <3>1, <3>2
  <2>7. CASE RuntimeEvicted(q) \/ HistoryClosed(q)
    <3>1. /\ Others(q) /\ request[q].step \notin Written /\ RightsSame
          /\ RunsSame /\ GhostsSame /\ RowsSame /\ request'[q].step \notin MessageStep
      BY <1>a, <2>7 DEF RuntimeEvicted, HistoryClosed, Goes, MessageStep
    <3> QED  BY <1>1, <1>2, <3>1 DEF GhostsSame, RowsSame
  <2> QED
    BY <1>4, <1>5, <1>6, <1>7, <1>13, <2>1, <2>2, <2>3, <2>4, <2>5, <2>6, <2>7
       DEF RequestMoved
<1> QED  BY <1>8, <1>10, <1>11, <1>12, <1>13 DEF StepKind

-----------------------------------------------------------------------------
(* Deleted sessions.  A deletion past its busy check has only crossing     *)
(* Runs in its session, and a message past its row a session that is not   *)
(* deleted, or it knows.                                                   *)

Unaware(p)     == request[p].step = "message.ensured" /\ ~request[p].doomed
Deleting(d, k) == request[d].step \in {"delete.idle", "delete.allowed"} /\ request[d].key = k
RunsIn(r, k)   == Registered(r) /\ runKey[r] = k

QuietInv ==
    /\ DeletedStaysQuiet
    /\ \A k \in Keys : session[k].gone => Exists(k)
    /\ \A p \in Requests : Unaware(p) => ~session[request[p].key].gone
    /\ \A d \in Requests : request[d].step = "delete.allowed" => Exists(request[d].key)
    /\ \A d \in Requests, r \in Runs, k \in Keys :
          Deleting(d, k) /\ RunsIn(r, k) => r \in crossing

(* A step that deletes and starts nothing.                                 *)
LEMMA QuietQuiet ==
  ASSUME FlowInv, FlowInv', QuietInv,
         \A k \in Keys : session'[k].gone = session[k].gone /\ (Exists(k) => Exists(k)'),
         \A p \in Requests : Unaware(p)' =>
            \/ ~session[request'[p].key].gone
            \/ Unaware(p) /\ request'[p].key = request[p].key,
         \A d \in Requests : request'[d].step = "delete.allowed" =>
            \/ Exists(request'[d].key)
            \/ request[d].step = "delete.allowed" /\ request'[d].key = request[d].key,
         \A d \in Requests, k \in Keys : Deleting(d, k)' =>
            Deleting(d, k) \/ \A r \in Runs : ~RunsIn(r, k),
         \A r \in Runs : Registered(r)' => Registered(r) /\ runKey'[r] = runKey[r],
         crossing' = crossing
  PROVE  QuietInv'
<1>1. \A r \in Runs : Registered(r) => runKey[r] \in Keys
  BY DEF FlowInv, RegistryInv, TypeOK, Placed, Registered
<1>2. \A p \in Requests : (request'[p].step \in {"message.ensured", "delete.allowed"}) =>
         request'[p].key \in Keys
  BY DEF FlowInv, RequestsTyped, Addressed, MessageStep, DeleteStep
<1>3. DeletedStaysQuiet'
  BY <1>1 DEF QuietInv, DeletedStaysQuiet
<1>4. \A k \in Keys : session'[k].gone => Exists(k)'  BY DEF QuietInv
<1>5. \A p \in Requests : Unaware(p)' => ~session'[request'[p].key].gone
  BY <1>2 DEF QuietInv, Unaware
<1>6. \A d \in Requests : request'[d].step = "delete.allowed" => Exists(request[d].key)'
  BY <1>2 DEF QuietInv, Exists
<1>7. \A d \in Requests, r \in Runs, k \in Keys :
         Deleting(d, k)' /\ RunsIn(r, k)' => r \in crossing
  BY DEF QuietInv, RunsIn
<1> QED  BY <1>3, <1>4, <1>5, <1>6, <1>7 DEF QuietInv

LEMMA QuietStep ==
  ASSUME FlowInv, FlowInv', QuietInv, StepKind
  PROVE  QuietInv'
<1>a. Idle.step = "idle"  BY DEF Idle, Fresh
<1>b. \A p \in Requests : request[p].step \in MessageStep \cup DeleteStep =>
         request[p].key \in Keys
  BY DEF FlowInv, RequestsTyped, Addressed
<1>c. RunsSame \/ UNCHANGED <<pc, runKey>> =>
         \A r \in Runs : Registered(r)' => Registered(r) /\ runKey'[r] = runKey[r]
  BY DEF RunsSame, Registered
<1>d. UNCHANGED session =>
         \A k \in Keys : session'[k].gone = session[k].gone /\ (Exists(k) => Exists(k)')
  BY DEF Exists
<1>e. TypeOK /\ RegistryNamesTheWriter /\ RowsTyped
  BY DEF FlowInv, RegistryInv, WriterInv
(* A request moves, and no Run starts.                                     *)
<1>1. ASSUME NEW q \in Requests, Others(q),
             \A k \in Keys : session'[k].gone = session[k].gone /\ (Exists(k) => Exists(k)'),
             \A r \in Runs : Registered(r)' => Registered(r) /\ runKey'[r] = runKey[r],
             crossing' = crossing,
             Unaware(q)' => ~session[request'[q].key].gone,
             request'[q].step = "delete.allowed" => Exists(request'[q].key),
             \A k \in Keys : Deleting(q, k)' => Deleting(q, k) \/ \A r \in Runs : ~RunsIn(r, k)
      PROVE  QuietInv'
  <2>1. \A p \in Requests : Unaware(p)' =>
            \/ ~session[request'[p].key].gone
            \/ Unaware(p) /\ request'[p].key = request[p].key
    BY <1>1 DEF Others, Unaware
  <2>2. \A d \in Requests : request'[d].step = "delete.allowed" =>
            \/ Exists(request'[d].key)
            \/ request[d].step = "delete.allowed" /\ request'[d].key = request[d].key
    BY <1>1 DEF Others
  <2>3. \A d \in Requests, k \in Keys : Deleting(d, k)' =>
            Deleting(d, k) \/ \A r \in Runs : ~RunsIn(r, k)
    BY <1>1 DEF Others, Deleting
  <2> QED  BY <1>1, <2>1, <2>2, <2>3, QuietQuiet
<1>2. ASSUME NEW q \in Requests, Others(q), UNCHANGED <<session, crossing, pc, runKey>>,
             request'[q].step \notin {"message.ensured", "delete.idle", "delete.allowed"}
      PROVE  QuietInv'
  BY <1>1, <1>2, <1>c, <1>d DEF Unaware, Deleting
<1>3. ASSUME \A i \in Requests :
               SameTopic(i) /\ SameStep(i) /\ request'[i].doomed = request[i].doomed,
             \A k \in Keys : session'[k].gone = session[k].gone /\ (Exists(k) => Exists(k)'),
             \A r \in Runs : Registered(r)' => Registered(r) /\ runKey'[r] = runKey[r],
             crossing' = crossing
      PROVE  QuietInv'
  <2>1. /\ \A p \in Requests : Unaware(p)' => Unaware(p) /\ request'[p].key = request[p].key
        /\ \A d \in Requests : request'[d].step = "delete.allowed" =>
              request[d].step = "delete.allowed" /\ request'[d].key = request[d].key
        /\ \A d \in Requests, k \in Keys : Deleting(d, k)' => Deleting(d, k)
    BY <1>3 DEF SameTopic, SameStep, Unaware, Deleting
  <2> QED  BY <1>3, <2>1, QuietQuiet
<1>4. ASSUME UNCHANGED request PROVE \A i \in Requests : SameTopic(i) /\ SameStep(i)
                                                         /\ request'[i].doomed = request[i].doomed
  BY <1>4 DEF SameTopic, SameStep
<1>5. ASSUME NEW q \in Requests, RowEnsured(q) PROVE QuietInv'
  <2>1. request[q].key \in Keys  BY <1>5, <1>b DEF RowEnsured, MessageStep
  <2>2. /\ Unaware(q)' => ~session[request'[q].key].gone
        /\ request'[q].step # "delete.allowed" /\ \A k \in Keys : ~Deleting(q, k)'
    BY <1>5, <1>a, <2>1 DEF RowEnsured, Goes, SameTopic, Unaware, Deleting, QuietInv
  <2> QED  BY <1>1, <1>5, <1>c, <2>2 DEF RowEnsured, GhostsSame
<1>6. ASSUME NEW q \in Requests, Checked(q) PROVE QuietInv'
  <2>1. request[q].step = "delete.ready" => request[q].key \in Keys
    BY <1>b DEF DeleteStep
  <2>2. ASSUME request[q].step = "delete.ready", active[request[q].key] = NoRun
        PROVE  \A r \in Runs : ~RunsIn(r, request[q].key)
    BY <1>e, <2>1, <2>2, NoRunIsNoRun DEF RegistryNamesTheWriter, RunsIn
  <2>3. \A k \in Keys : Deleting(q, k)' => Deleting(q, k) \/ \A r \in Runs : ~RunsIn(r, k)
    BY <1>6, <1>a, <2>2 DEF Checked, Goes, SameTopic, Deleting
  <2>4. /\ ~Unaware(q)'
        /\ request'[q].step = "delete.allowed" => Exists(request'[q].key)
    BY <1>6, <1>a DEF Checked, Goes, SameTopic, Unaware
  <2> QED
    BY <1>1, <1>6, <1>c, <1>d, <2>3, <2>4 DEF Checked, RestSame, GhostsSame, RowsSame
<1>7. ASSUME NEW q \in Requests, NEW r \in Runs, RunStarted(q, r) PROVE QuietInv'
  <2> DEFINE k == request[q].key
  <2>1. /\ Others(q) /\ request[q].step = "message.ensured" /\ request'[q] = Idle
        /\ pc' = [pc EXCEPT ![r] = "body"] /\ runKey' = [runKey EXCEPT ![r] = k]
        /\ crossing \subseteq crossing'
        /\ (request[q].doomed \/ DeletionUnderWay(k) => r \in crossing')
        /\ UNCHANGED session
    BY <1>7 DEF RunStarted
  <2>2. k \in Keys  BY <1>b, <2>1 DEF MessageStep
  <2>3. \A i \in Runs \ {r} : RunsIn(i, runKey[i])' => RunsIn(i, runKey[i])
    BY <1>e, <2>1 DEF TypeOK, RunsIn, Registered
  <2>4. \A i \in Runs \ {r} : runKey'[i] = runKey[i] /\ (Registered(i)' => Registered(i))
    BY <1>e, <2>1 DEF TypeOK, Registered
  <2>5. runKey'[r] = k  BY <1>e, <2>1 DEF TypeOK
  <2>6. session[k].gone => r \in crossing'
    BY <2>1, <2>2 DEF QuietInv, Unaware
  <2>7. DeletedStaysQuiet'
    BY <2>1, <2>4, <2>5, <2>6 DEF QuietInv, DeletedStaysQuiet
  <2>8. \A p \in Requests : Unaware(p)' => ~session'[request'[p].key].gone
    BY <2>1, <1>a DEF QuietInv, Unaware, Others
  <2>9. \A d \in Requests : request'[d].step = "delete.allowed" => Exists(request[d].key)'
    BY <2>1, <1>a DEF QuietInv, Others, Exists
  <2>10. \A d \in Requests, i \in Runs, l \in Keys :
            Deleting(d, l)' /\ RunsIn(i, l)' => i \in crossing'
    <3> SUFFICES ASSUME NEW d \in Requests, NEW i \in Runs, NEW l \in Keys,
                        Deleting(d, l)', RunsIn(i, l)'
                 PROVE  i \in crossing'
      OBVIOUS
    <3>1. Deleting(d, l)  BY <2>1, <1>a DEF Deleting, Others
    <3>2. CASE i = r
      <4>1. l = k  BY <2>5, <3>2 DEF RunsIn
      <4> QED  BY <2>1, <3>1, <3>2, <4>1 DEF DeletionUnderWay, Deleting
    <3>3. CASE i # r
      <4>1. RunsIn(i, l)  BY <2>4, <3>3 DEF RunsIn
      <4> QED  BY <2>1, <3>1, <4>1 DEF QuietInv
    <3> QED  BY <3>2, <3>3
  <2> QED  BY <2>1, <2>7, <2>8, <2>9, <2>10, <1>d DEF QuietInv
<1>8. ASSUME NEW q \in Requests, DeletionWritten(q) PROVE QuietInv'
  <2> DEFINE k == request[q].key
  <2>1. /\ request[q].step = "delete.allowed" /\ request'[q].step = "delete.written"
        /\ session' = [session EXCEPT ![k].gone = TRUE]
        /\ \A i \in Requests \ {q} :
              /\ SameTopic(i) /\ SameStep(i)
              /\ request'[i].doomed <=> (request[i].doomed \/ Ensured(i, k))
        /\ UNCHANGED <<pc, runKey, crossing>>
    BY <1>8 DEF DeletionWritten, Goes, RunsSame, GhostsSame
  <2>2. k \in Keys  BY <1>b, <2>1 DEF DeleteStep
  <2>3. /\ \A i \in Keys \ {k} : session'[i] = session[i]
        /\ session'[k].owner = session[k].owner
    BY <1>e, <2>1, <2>2 DEF RowsTyped, Row
  <2>4. \A i \in Keys : Exists(i) => Exists(i)'  BY <2>2, <2>3 DEF Exists
  <2>5. Exists(k)  BY <2>1 DEF QuietInv
  <2>6. DeletedStaysQuiet'
    <3> SUFFICES ASSUME NEW r \in Runs, Registered(r)', session'[runKey'[r]].gone
                 PROVE  r \in crossing'
      BY DEF DeletedStaysQuiet
    <3>1. Registered(r) /\ runKey'[r] = runKey[r] /\ runKey[r] \in Keys
      BY <1>e, <2>1 DEF Registered, TypeOK, FlowInv, RegistryInv, Placed
    <3>2. CASE runKey[r] = k
      BY <2>1, <2>2, <3>1, <3>2 DEF QuietInv, Deleting, RunsIn
    <3>3. CASE runKey[r] # k
      BY <2>1, <2>3, <3>1, <3>3 DEF QuietInv, DeletedStaysQuiet
    <3> QED  BY <3>2, <3>3
  <2>7. \A i \in Keys : session'[i].gone => Exists(i)'
    BY <2>3, <2>4, <2>5 DEF QuietInv, Exists
  <2>8. \A p \in Requests : Unaware(p)' => ~session'[request'[p].key].gone
    <3> SUFFICES ASSUME NEW p \in Requests, Unaware(p)' PROVE ~session'[request'[p].key].gone
      OBVIOUS
    <3>1. p # q /\ Unaware(p) /\ request'[p].key = request[p].key /\ ~Ensured(p, k)
      BY <2>1 DEF Unaware, SameTopic, SameStep
    <3>2. request[p].key # k /\ request[p].key \in Keys
      BY <1>b, <3>1 DEF Ensured, At, Unaware, MessageStep
    <3> QED  BY <2>3, <3>1, <3>2 DEF QuietInv
  <2>9. \A d \in Requests : request'[d].step = "delete.allowed" => Exists(request[d].key)'
    <3> SUFFICES ASSUME NEW d \in Requests, request'[d].step = "delete.allowed"
                 PROVE  session'[request'[d].key].owner # NoUser
      BY DEF Exists
    <3>1. request[d].step = "delete.allowed" /\ request'[d].key = request[d].key
      BY <2>1 DEF SameTopic, SameStep
    <3>2. request[d].key \in Keys  BY <1>b, <3>1 DEF DeleteStep
    <3> QED  BY <2>4, <3>1, <3>2 DEF QuietInv, Exists
  <2>10. \A d \in Requests, i \in Runs, l \in Keys :
            Deleting(d, l)' /\ RunsIn(i, l)' => i \in crossing'
    BY <2>1 DEF QuietInv, Deleting, RunsIn, Registered, SameTopic, SameStep
  <2> QED  BY <2>6, <2>7, <2>8, <2>9, <2>10 DEF QuietInv
<1>9. CASE Crashed
  <2>1. DeletedStaysQuiet'  BY <1>9 DEF Crashed, DeletedStaysQuiet
  <2>2. \A k \in Keys : session'[k].gone => Exists(k)'
    BY <1>9 DEF Crashed, RowsSame, QuietInv, Exists
  <2>3. \A p \in Requests : request'[p].step = "idle"  BY <1>9, <1>a DEF Crashed
  <2> QED  BY <2>1, <2>2, <2>3 DEF QuietInv, Unaware, Deleting
<1>10. ASSUME NEW q \in Requests, RequestMoved(q) PROVE QuietInv'
  <2>1. CASE Authenticated(q)
    BY <1>2, <2>1 DEF Authenticated, RestSame, RunsSame, GhostsSame, RowsSame
  <2>2. CASE RoleChanged(q) \/ UserDisabled(q) \/ TenantClosed(q)
    BY <1>2, <2>2 DEF RoleChanged, UserDisabled, TenantClosed, RunsSame, GhostsSame, RowsSame
  <2>3. CASE Resolved(q)
    BY <1>2, <1>a, <2>3 DEF Resolved, Goes, RunsSame, GhostsSame, RowsSame
  <2>4. CASE LookedUp(q)
    BY <1>2, <1>a, <2>4 DEF LookedUp, Goes, RestSame, RunsSame, GhostsSame, RowsSame
  <2>5. CASE RequestEnded(q)
    BY <1>2, <1>a, <2>5 DEF RequestEnded, GhostsSame, RowsSame
  <2>6. CASE RuntimeEvicted(q) \/ HistoryClosed(q)
    BY <1>2, <1>a, <2>6 DEF RuntimeEvicted, HistoryClosed, Goes, RunsSame, GhostsSame, RowsSame
  <2>7. CASE Overtaken(q)
    <3>1. /\ request'[q].step \in {"idle", "tenant.dropped"} /\ request[q].step \in RevokeStep
          /\ \A i \in Requests \ {q} :
                SameTopic(i) /\ SameStep(i) /\ request'[i].doomed = request[i].doomed
          /\ UNCHANGED <<session, crossing, pc, runKey>>
      BY <2>7, <1>a DEF Overtaken, RevokeStep, GhostsSame, RowsSame
    <3>2. /\ \A p \in Requests : Unaware(p)' => Unaware(p) /\ request'[p].key = request[p].key
          /\ \A d \in Requests : request'[d].step = "delete.allowed" =>
                request[d].step = "delete.allowed" /\ request'[d].key = request[d].key
          /\ \A d \in Requests, k \in Keys : Deleting(d, k)' => Deleting(d, k)
      BY <3>1 DEF SameTopic, SameStep, Unaware, Deleting
    <3> QED  BY <1>c, <1>d, <3>1, <3>2, QuietQuiet
  <2> QED
    BY <1>5, <1>6, <1>7, <1>8, <1>10, <2>1, <2>2, <2>3, <2>4, <2>5, <2>6, <2>7
       DEF RequestMoved
<1>11. ASSUME NEW r \in Runs, MessageWritten(r) \/ RunWentOn(r) PROVE QuietInv'
  <2>1. UNCHANGED <<request, session, crossing>>
    BY <1>11 DEF MessageWritten, RunWentOn, GhostsSame, RowsSame
  <2>2. \A i \in Runs : Registered(i)' => Registered(i) /\ runKey'[i] = runKey[i]
    BY <1>11 DEF MessageWritten, RunWentOn, RunsSame, Registered
  <2> QED  BY <1>3, <1>4, <1>d, <2>1, <2>2
<1>12. CASE CustomerBound
  BY <1>3, <1>4, <1>c, <1>12 DEF CustomerBound, GhostsSame, Exists
<1>13. CASE RightsGiven \/ Still
  BY <1>3, <1>4, <1>c, <1>d, <1>13 DEF RightsGiven, Still, RestSame, GhostsSame, RowsSame
<1> QED  BY <1>9, <1>10, <1>11, <1>12, <1>13 DEF StepKind

-----------------------------------------------------------------------------
(* Closing a tenant.  It is out of service until the history is closed,    *)
(* unless it was revived; from the cancellation on, its Runs are told and  *)
(* its messages overtaken; so who still writes to a closed history knows.  *)

ClosingFor(q, t) == request[q].step \in ClosingStep /\ request[q].tenant = t
ShutFor(q, t)    == request[q].step \in {"tenant.dropped", "tenant.evicted"}
                      /\ request[q].tenant = t
Told(r)          == cancelled[r] \/ r \in late \/ TenantOf[runKey[r]] \in revived
Resolving(p)     == request[p].step \in {"message.ready", "message.looked", "message.ensured"}
Reaches(p)       == \/ request[p].stale \/ request[p].tenant \in revived
                    \/ <<request[p].tenant, request[p].handle>> \in open

OutOfService ==
    \A q \in Requests, t \in Tenants \ revived : ClosingFor(q, t) => status[t] \notin Served

ShutMeansTold ==
    \A q \in Requests, t \in Tenants \ revived : ShutFor(q, t) =>
        /\ \A r \in Runs : Executing(r) /\ TenantOf[runKey[r]] = t => Told(r)
        /\ \A p \in Messages : request[p].tenant = t => request[p].stale

WritersKnow ==
    /\ \A p \in Requests : Resolving(p) => Reaches(p)
    /\ \A r \in Runs : Executing(r) => Handle(r) \in open \/ Told(r)
    /\ \A r \in lost : pc[r] # "unborn" /\ Told(r)

ToldInv == OutOfService /\ ShutMeansTold /\ WritersKnow

LEMMA ClosingIs ==
  \A t \in Tenants : Closing(t) <=> \E q \in Requests : ClosingFor(q, t)
BY DEF Closing, ClosingFor, ClosingStep

LEMMA OutOfServiceStep ==
  ASSUME FlowInv, FlowInv', OutOfService, StepKind
  PROVE  OutOfService'
<1>a. Idle.step = "idle"  BY DEF Idle, Fresh
<1>b. \A q \in Requests : request[q].step \in ClosingStep => request[q].tenant \in Tenants
  BY DEF FlowInv, RequestsTyped, Addressed, ClosingStep
<1>1. ASSUME revived \subseteq revived',
             \A q \in Requests, t \in Tenants : ClosingFor(q, t)' =>
                \/ status'[t] \notin Served
                \/ /\ \E i \in Requests : ClosingFor(i, t)
                   /\ status'[t] = status[t]
      PROVE  OutOfService'
  BY <1>1 DEF OutOfService
<1>2. ASSUME NEW q \in Requests, Others(q), UNCHANGED <<revived, status>>,
             \/ request'[q].step \notin ClosingStep
             \/ request[q].step \in ClosingStep /\ request'[q].tenant = request[q].tenant
      PROVE  OutOfService'
  BY <1>1, <1>2 DEF Others, ClosingFor
<1>3. ASSUME NEW q \in Requests, TenantClosed(q) PROVE OutOfService'
  <2>1. UNCHANGED revived  BY <1>3 DEF TenantClosed, GhostsSame
  <2>2. ASSUME NEW i \in Requests, NEW t \in Tenants, ClosingFor(i, t)'
        PROVE  \/ status'[t] \notin Served
               \/ (\E j \in Requests : ClosingFor(j, t)) /\ status'[t] = status[t]
    BY <1>3, <2>2 DEF TenantClosed, Others, ClosingFor, ClosingStep
  <2> QED  BY <1>1, <2>1, <2>2
<1>4. CASE RightsGiven
  <2>1. UNCHANGED request /\ Revive  BY <1>4 DEF RightsGiven
  <2>2. revived \subseteq revived'  BY <2>1 DEF Revive
  <2>3. ASSUME NEW q \in Requests, NEW t \in Tenants, t \notin revived', ClosingFor(q, t)'
        PROVE  status'[t] \notin Served
    <3>1. ClosingFor(q, t)  BY <2>1, <2>3 DEF ClosingFor
    <3>2. t \notin revived /\ Closing(t)  BY <2>2, <2>3, <3>1, ClosingIs
    <3>3. status[t] \notin Served  BY <3>1, <3>2 DEF OutOfService
    <3> QED  BY <2>1, <2>3, <3>2, <3>3 DEF Revive
  <2> QED  BY <2>2, <2>3 DEF OutOfService
<1>5. ASSUME NEW q \in Requests, RequestMoved(q) PROVE OutOfService'
  <2>1. CASE Authenticated(q)
    BY <1>2, <2>1 DEF Authenticated, RestSame, RightsSame, GhostsSame, ClosingStep
  <2>2. CASE RoleChanged(q) \/ UserDisabled(q)
    BY <1>2, <2>2 DEF RoleChanged, UserDisabled, GhostsSame, ClosingStep
  <2>3. CASE Resolved(q)
    BY <1>2, <1>a, <2>3 DEF Resolved, Goes, RightsSame, GhostsSame, ClosingStep
  <2>4. CASE LookedUp(q) \/ Checked(q)
    BY <1>2, <1>a, <2>4
       DEF LookedUp, Checked, Goes, RestSame, RightsSame, GhostsSame, ClosingStep
  <2>5. CASE RowEnsured(q)
    BY <1>2, <1>a, <2>5 DEF RowEnsured, Goes, RightsSame, GhostsSame, ClosingStep
  <2>6. ASSUME NEW r \in Runs, RunStarted(q, r) PROVE OutOfService'
    BY <1>2, <1>a, <2>6 DEF RunStarted, RightsSame, ClosingStep
  <2>7. CASE RequestEnded(q)
    BY <1>2, <1>a, <2>7 DEF RequestEnded, RightsSame, GhostsSame, ClosingStep
  <2>8. CASE RuntimeEvicted(q) \/ HistoryClosed(q)
    BY <1>2, <1>a, <2>8
       DEF RuntimeEvicted, HistoryClosed, Goes, SameTopic, RightsSame, GhostsSame, ClosingStep
  <2>9. CASE DeletionWritten(q)
    <3>1. \A i \in Requests, t \in Tenants : ClosingFor(i, t)' => ClosingFor(i, t)
      BY <2>9 DEF DeletionWritten, Goes, SameTopic, SameStep, ClosingFor, ClosingStep
    <3> QED  BY <1>1, <2>9, <3>1 DEF DeletionWritten, RightsSame, GhostsSame
  <2>10. CASE Overtaken(q)
    <3>1. \A i \in Requests, t \in Tenants : ClosingFor(i, t)' => ClosingFor(i, t)
      BY <2>10, <1>a DEF Overtaken, SameTopic, SameStep, ClosingFor, ClosingStep
    <3> QED  BY <1>1, <2>10, <3>1 DEF Overtaken, RightsSame, GhostsSame
  <2> QED
    BY <1>3, <1>5, <2>1, <2>2, <2>3, <2>4, <2>5, <2>6, <2>7, <2>8, <2>9, <2>10
       DEF RequestMoved
<1>6. ASSUME NEW r \in Runs, MessageWritten(r) \/ RunWentOn(r) PROVE OutOfService'
  <2>1. UNCHANGED <<request, status, revived>>
    BY <1>6 DEF MessageWritten, RunWentOn, RightsSame, GhostsSame
  <2> QED  BY <1>1, <2>1 DEF ClosingFor
<1>7. CASE CustomerBound \/ Still
  <2>1. UNCHANGED <<request, status, revived>>
    BY <1>7 DEF CustomerBound, Still, RestSame, RightsSame, GhostsSame
  <2> QED  BY <1>1, <2>1 DEF ClosingFor
<1>8. CASE Crashed
  BY <1>8, <1>a DEF Crashed, OutOfService, ClosingFor, ClosingStep
<1> QED  BY <1>4, <1>5, <1>6, <1>7, <1>8 DEF StepKind

LEMMA GhostsStep ==
  ASSUME GhostsTyped, StepKind
  PROVE  GhostsTyped'
<1>1. CASE GhostsSame  BY <1>1 DEF GhostsSame, GhostsTyped
<1>2. ASSUME NEW q \in Requests, RequestMoved(q) PROVE GhostsTyped'
  BY <1>1, <1>2 DEF RequestMoved, Authenticated, RoleChanged, UserDisabled, TenantClosed,
     Resolved, LookedUp, RowEnsured, RunStarted, Checked, DeletionWritten, RequestEnded,
     Overtaken, RuntimeEvicted, HistoryClosed, RestSame, GhostsTyped
<1>3. ASSUME NEW r \in Runs, MessageWritten(r) \/ RunWentOn(r) PROVE GhostsTyped'
  BY <1>1, <1>3 DEF MessageWritten, RunWentOn, GhostsTyped
<1>4. CASE CustomerBound \/ Crashed \/ Still
  BY <1>1, <1>4 DEF CustomerBound, Crashed, Still, RestSame
<1>5. CASE RightsGiven
  BY <1>5 DEF RightsGiven, Revive, GhostsTyped
<1> QED  BY <1>2, <1>3, <1>4, <1>5 DEF StepKind

(* What a Run that has started was told, and holds, stays.                 *)
LEMMA Grows ==
  ASSUME FlowInv, FlowInv', StepKind
  PROVE  /\ revived \subseteq revived' /\ late \subseteq late'
         /\ \A r \in Runs : pc[r] # "unborn" =>
               /\ pc'[r] # "unborn" /\ runKey'[r] = runKey[r] /\ (cancelled[r] => cancelled'[r])
               /\ work'[r].handle = work[r].handle
         /\ \A r \in Runs : Executing(r)' => Executing(r) \/ pc[r] = "unborn"
<1> USE DEF Executing
<1>0. TypeOK  BY DEF FlowInv, RegistryInv
<1>1. ASSUME RunsSame, UNCHANGED work, revived \subseteq revived', late \subseteq late'
      PROVE  /\ revived \subseteq revived' /\ late \subseteq late'
             /\ \A r \in Runs : pc[r] # "unborn" =>
                   /\ pc'[r] # "unborn" /\ runKey'[r] = runKey[r]
                   /\ (cancelled[r] => cancelled'[r]) /\ work'[r].handle = work[r].handle
             /\ \A r \in Runs : Executing(r)' => Executing(r) \/ pc[r] = "unborn"
  BY <1>1 DEF RunsSame
<1>2. ASSUME NEW q \in Requests, RequestMoved(q)
      PROVE  /\ revived \subseteq revived' /\ late \subseteq late'
             /\ \A r \in Runs : pc[r] # "unborn" =>
                   /\ pc'[r] # "unborn" /\ runKey'[r] = runKey[r]
                   /\ (cancelled[r] => cancelled'[r]) /\ work'[r].handle = work[r].handle
             /\ \A r \in Runs : Executing(r)' => Executing(r) \/ pc[r] = "unborn"
  <2>1. CASE Authenticated(q) \/ LookedUp(q) \/ Checked(q)
    BY <1>1, <2>1 DEF Authenticated, LookedUp, Checked, RestSame, GhostsSame, RowsSame
  <2>2. CASE RoleChanged(q) \/ UserDisabled(q) \/ TenantClosed(q)
    BY <1>1, <2>2 DEF RoleChanged, UserDisabled, TenantClosed, GhostsSame, RowsSame
  <2>3. CASE Resolved(q) \/ RuntimeEvicted(q) \/ HistoryClosed(q)
    BY <1>1, <2>3 DEF Resolved, RuntimeEvicted, HistoryClosed, GhostsSame, RowsSame
  <2>4. CASE RowEnsured(q) \/ DeletionWritten(q)
    BY <1>1, <2>4 DEF RowEnsured, DeletionWritten, GhostsSame
  <2>5. ASSUME NEW r \in Runs, RunStarted(q, r)
        PROVE  /\ revived \subseteq revived' /\ late \subseteq late'
               /\ \A i \in Runs : pc[i] # "unborn" =>
                     /\ pc'[i] # "unborn" /\ runKey'[i] = runKey[i]
                     /\ (cancelled[i] => cancelled'[i]) /\ work'[i].handle = work[i].handle
               /\ \A i \in Runs : Executing(i)' => Executing(i) \/ pc[i] = "unborn"
    <3>1. /\ UNCHANGED <<cancelled, revived>> /\ pc[r] = "unborn" /\ late \subseteq late'
          /\ pc' = [pc EXCEPT ![r] = "body"] /\ runKey' = [runKey EXCEPT ![r] = request[q].key]
          /\ \A i \in Runs \ {r} : work'[i] = work[i]
      BY <2>5 DEF RunStarted
    <3>2. \A i \in Runs \ {r} : pc'[i] = pc[i] /\ runKey'[i] = runKey[i]
      BY <1>0, <3>1 DEF TypeOK
    <3> QED  BY <3>1, <3>2
  <2>6. CASE RequestEnded(q)
    BY <2>6 DEF RequestEnded, GhostsSame, RowsSame
  <2>7. CASE Overtaken(q)
    BY <2>7 DEF Overtaken, GhostsSame, RowsSame
  <2> QED  BY <1>2, <2>1, <2>2, <2>3, <2>4, <2>5, <2>6, <2>7 DEF RequestMoved
<1>3. ASSUME NEW q \in Runs, MessageWritten(q) \/ RunWentOn(q)
      PROVE  /\ revived \subseteq revived' /\ late \subseteq late'
             /\ \A r \in Runs : pc[r] # "unborn" =>
                   /\ pc'[r] # "unborn" /\ runKey'[r] = runKey[r]
                   /\ (cancelled[r] => cancelled'[r]) /\ work'[r].handle = work[r].handle
             /\ \A r \in Runs : Executing(r)' => Executing(r) \/ pc[r] = "unborn"
  BY <1>3 DEF MessageWritten, RunWentOn, RunsSame, GhostsSame, RowsSame
<1>4. CASE CustomerBound \/ RightsGiven \/ Still
  BY <1>1, <1>4 DEF CustomerBound, RightsGiven, Still, Revive, RestSame, GhostsSame, RowsSame
<1>5. CASE Crashed  BY <1>5 DEF Crashed, GhostsSame, RowsSame
<1> QED  BY <1>2, <1>3, <1>4, <1>5 DEF StepKind

LEMMA ToldStays ==
  ASSUME FlowInv, FlowInv', StepKind, NEW r \in Runs, pc[r] # "unborn", Told(r)
  PROVE  Told(r)'
BY Grows DEF Told

LEMMA ShutQuiet ==
  ASSUME FlowInv, FlowInv', StepKind, ShutMeansTold,
         \A q \in Requests, t \in Tenants : ShutFor(q, t)' => \E i \in Requests : ShutFor(i, t),
         \A p \in Requests, i \in Requests, t \in Tenants \ revived :
            (p \in Messages)' /\ request'[p].tenant = t /\ ShutFor(i, t) =>
               \/ request'[p].stale
               \/ /\ p \in Messages /\ request[p].tenant = t
                  /\ (request[p].stale => request'[p].stale),
         \A r \in Runs, i \in Requests, t \in Tenants \ revived :
            Executing(r)' /\ TenantOf[runKey'[r]] = t /\ ShutFor(i, t) =>
               Executing(r) \/ Told(r)'
  PROVE  ShutMeansTold'
<1> SUFFICES ASSUME NEW q \in Requests, NEW t \in Tenants, t \notin revived', ShutFor(q, t)'
             PROVE  /\ \A r \in Runs : Executing(r)' /\ TenantOf[runKey'[r]] = t => Told(r)'
                    /\ \A p \in Messages' : request'[p].tenant = t => request'[p].stale
  BY DEF ShutMeansTold
<1>1. t \notin revived  BY Grows
<1>2. PICK i \in Requests : ShutFor(i, t)  OBVIOUS
<1>3. /\ \A r \in Runs : Executing(r) /\ TenantOf[runKey[r]] = t => Told(r)
      /\ \A p \in Messages : request[p].tenant = t => request[p].stale
  BY <1>1, <1>2 DEF ShutMeansTold
<1>4. ASSUME NEW r \in Runs, Executing(r)', TenantOf[runKey'[r]] = t PROVE Told(r)'
  <2>1. CASE Executing(r)
    <3>1. pc[r] # "unborn"  BY <2>1 DEF Executing
    <3>2. runKey'[r] = runKey[r]  BY <3>1, Grows
    <3> QED  BY <1>3, <1>4, <2>1, <3>1, <3>2, ToldStays
  <2>2. CASE ~Executing(r)  BY <1>1, <1>2, <1>4, <2>2
  <2> QED  BY <2>1, <2>2
<1>5. ASSUME NEW p \in Messages', request'[p].tenant = t PROVE request'[p].stale
  <2>1. p \in Requests  BY <1>5 DEF Messages
  <2> QED  BY <1>1, <1>2, <1>3, <1>5, <2>1
<1> QED  BY <1>4, <1>5

LEMMA ShutStep ==
  ASSUME FlowInv, FlowInv', StepKind, OutOfService, ShutMeansTold
  PROVE  ShutMeansTold'
<1>a. Idle.step = "idle" /\ "idle" \notin MessageStep  BY DEF Idle, Fresh, MessageStep
<1>b. MessageStep \cap ({"tenant.dropped", "tenant.evicted"} \cup RevokeStep) = {}
  BY DEF MessageStep, RevokeStep
<1>c. RunsSame \/ UNCHANGED <<pc, runKey>> => \A r \in Runs : Executing(r)' => Executing(r)
  BY DEF RunsSame, Executing
(* A request moves, and no message or Run begins.                          *)
<1>1. ASSUME NEW q \in Requests, Others(q), \A r \in Runs : Executing(r)' => Executing(r),
             \/ /\ request'[q].step \notin {"tenant.dropped", "tenant.evicted"}
             \/ /\ request[q].step \in {"tenant.dropped", "tenant.evicted"}
                /\ request'[q].tenant = request[q].tenant,
             \/ request'[q].step \notin MessageStep
             \/ request[q].step \in MessageStep /\ SameTopic(q) /\ SameMarks(q)
      PROVE  ShutMeansTold'
  <2>1. \A i \in Requests, t \in Tenants : ShutFor(i, t)' => ShutFor(i, t)
    BY <1>1 DEF Others, ShutFor
  <2>2. \A p \in Requests : (p \in Messages)' =>
           /\ p \in Messages /\ request'[p].tenant = request[p].tenant
           /\ (request[p].stale => request'[p].stale)
    BY <1>1 DEF Others, Messages, SameTopic, SameMarks
  <2> QED  BY <1>1, <2>1, <2>2, ShutQuiet
<1>2. ASSUME NEW q \in Requests, Authenticated(q) PROVE ShutMeansTold'
  <2>1. PICK u \in Users, t \in Tenants : request'[q].tenant = t /\ Rights(u, t) # "none"
    BY <1>2 DEF Authenticated
  <2>2. status[t] \in Served  BY <2>1 DEF Rights
  <2>3. \A i \in Requests : t \in revived \/ ~ShutFor(i, t)
    BY <2>2 DEF OutOfService, ClosingFor, ClosingStep, ShutFor
  <2>4. /\ Others(q) /\ RunsSame
        /\ request'[q].step \notin {"tenant.dropped", "tenant.evicted"}
    BY <1>2 DEF Authenticated, RestSame
  <2>5. \A i \in Requests, s \in Tenants : ShutFor(i, s)' => ShutFor(i, s)
    BY <2>4 DEF Others, ShutFor
  <2>6. \A p \in Requests \ {q} : (p \in Messages)' =>
           p \in Messages /\ request'[p] = request[p]
    BY <2>4 DEF Others, Messages
  <2> QED  BY <1>c, <2>1, <2>3, <2>4, <2>5, <2>6, ShutQuiet
<1>3. ASSUME NEW q \in Requests, NEW r \in Runs, RunStarted(q, r) PROVE ShutMeansTold'
  <2>1. /\ Others(q) /\ request[q].step = "message.ensured" /\ request'[q] = Idle
        /\ (request[q].stale => r \in late')
        /\ pc' = [pc EXCEPT ![r] = "body"] /\ runKey' = [runKey EXCEPT ![r] = request[q].key]
    BY <1>3 DEF RunStarted
  <2>2. q \in Messages  BY <2>1 DEF Messages, MessageStep
  <2>3. TypeOK  BY DEF FlowInv, RegistryInv
  <2>4. /\ runKey'[r] = request[q].key /\ request[q].tenant = TenantOf[request[q].key]
        /\ \A i \in Runs \ {r} : pc'[i] = pc[i]
    BY <2>1, <2>2, <2>3, RunsConcern DEF TypeOK
  <2>5. \A i \in Requests, t \in Tenants \ revived :
           TenantOf[runKey'[r]] = t /\ ShutFor(i, t) => Told(r)'
    BY <2>1, <2>2, <2>4 DEF ShutMeansTold, Told
  <2>6. \A i \in Requests, s \in Tenants : ShutFor(i, s)' => ShutFor(i, s)
    BY <1>a, <2>1 DEF Others, ShutFor
  <2>7. \A p \in Requests : (p \in Messages)' => p \in Messages /\ request'[p] = request[p]
    BY <1>a, <2>1 DEF Others, Messages
  <2>8. \A i \in Runs \ {r} : Executing(i)' => Executing(i)  BY <2>4 DEF Executing
  <2> QED  BY <2>5, <2>6, <2>7, <2>8, ShutQuiet
<1>4. ASSUME NEW q \in Requests, Overtaken(q) PROVE ShutMeansTold'
  <2>1. /\ UNCHANGED <<pc, runKey, actor, late, revived>>
        /\ \A i \in Requests \ {q} : SameTopic(i) /\ SameStep(i)
        /\ request'[q].step \in {"idle", "tenant.dropped"}
    BY <1>4, <1>a DEF Overtaken, GhostsSame
  <2>2. \A p \in Requests : (p \in Messages)' =>
           /\ p # q /\ p \in Messages /\ request'[p].tenant = request[p].tenant
           /\ request'[p].stale <=>
                 request[p].stale \/ Concerns(q, request[p].user, request[p].tenant)
    BY <1>4, <1>b, <1>a, <2>1 DEF Overtaken, Messages, SameTopic, SameStep
  <2>3. CASE request[q].step # "tenant.written"
    <3>1. request'[q].step = "idle"  BY <1>4, <1>a, <2>3 DEF Overtaken
    <3>2. \A i \in Requests, t \in Tenants : ShutFor(i, t)' => ShutFor(i, t)
      BY <2>1, <3>1 DEF ShutFor, SameTopic, SameStep
    <3> QED  BY <1>c, <2>1, <2>2, <3>2, ShutQuiet
  <2>4. CASE request[q].step = "tenant.written"
    <3> SUFFICES ASSUME NEW i \in Requests, NEW t \in Tenants, t \notin revived', ShutFor(i, t)'
                 PROVE  /\ \A r \in Runs : Executing(r)' /\ TenantOf[runKey'[r]] = t => Told(r)'
                        /\ \A p \in Messages' : request'[p].tenant = t => request'[p].stale
      BY DEF ShutMeansTold
    <3>1. t \notin revived  BY <2>1
    <3>2. (i = q /\ request[q].tenant = t) \/ ShutFor(i, t)
      BY <1>4, <2>1, <2>4 DEF Overtaken, ShutFor, SameTopic, SameStep
    <3>3. CASE ShutFor(i, t)
      <4>1. \A r \in Runs : Executing(r) /\ TenantOf[runKey[r]] = t => Told(r)
        BY <3>1, <3>3 DEF ShutMeansTold
      <4>2. \A p \in Messages : request[p].tenant = t => request[p].stale
        BY <3>1, <3>3 DEF ShutMeansTold
      <4>3. \A r \in Runs : Executing(r)' => Executing(r) /\ pc[r] # "unborn"
        BY <2>1 DEF Executing
      <4>4. \A r \in Runs : Executing(r)' /\ TenantOf[runKey'[r]] = t => Told(r)'
        BY <2>1, <4>1, <4>3, ToldStays
      <4>5. \A p \in Messages' : request'[p].tenant = t => request'[p].stale
        BY <2>2, <4>2 DEF Messages
      <4> QED  BY <4>4, <4>5
    <3>4. CASE request[q].tenant = t
      <4>1. \A u \in Users : Concerns(q, u, t)  BY <2>4, <3>4 DEF Concerns, At
      <4>2. \A r \in Runs : Executing(r) => Registered(r) /\ actor[r] \in Users
        BY RunsConcern DEF Executing, Registered
      <4>3. \A r \in Runs : Executing(r)' /\ TenantOf[runKey'[r]] = t => Told(r)'
        BY <1>4, <2>1, <4>1, <4>2 DEF Overtaken, Executing, Told
      <4>4. \A p \in Messages' : request'[p].tenant = t => request'[p].stale
        BY <2>2, <4>1, RunsConcern DEF Messages
      <4> QED  BY <4>3, <4>4
    <3> QED  BY <3>2, <3>3, <3>4
  <2> QED  BY <2>3, <2>4
<1>5. ASSUME NEW q \in Requests, RequestMoved(q) PROVE ShutMeansTold'
  <2>1. CASE RoleChanged(q) \/ UserDisabled(q) \/ TenantClosed(q)
    BY <1>1, <1>c, <2>1 DEF RoleChanged, UserDisabled, TenantClosed, MessageStep
  <2>2. CASE Resolved(q)
    BY <1>1, <1>a, <1>c, <2>2 DEF Resolved, Goes, MessageStep
  <2>3. CASE LookedUp(q)
    BY <1>1, <1>a, <1>c, <2>3 DEF LookedUp, Goes, RestSame, MessageStep
  <2>4. CASE RowEnsured(q)
    BY <1>1, <1>a, <1>c, <2>4 DEF RowEnsured, Goes, MessageStep
  <2>5. CASE Checked(q)
    BY <1>1, <1>a, <1>c, <2>5 DEF Checked, Goes, RestSame, MessageStep
  <2>6. CASE RequestEnded(q)  BY <1>1, <1>a, <1>c, <2>6 DEF RequestEnded
  <2>7. CASE RuntimeEvicted(q) \/ HistoryClosed(q)
    BY <1>1, <1>a, <1>c, <2>7
       DEF RuntimeEvicted, HistoryClosed, Goes, SameTopic, MessageStep
  <2>8. CASE DeletionWritten(q)
    <3>1. \A i \in Requests, t \in Tenants : ShutFor(i, t)' => ShutFor(i, t)
      BY <2>8 DEF DeletionWritten, Goes, SameTopic, SameStep, ShutFor
    <3>2. \A p \in Requests : (p \in Messages)' =>
             /\ p \in Messages /\ request'[p].tenant = request[p].tenant
             /\ (request[p].stale => request'[p].stale)
      BY <2>8 DEF DeletionWritten, Goes, SameTopic, SameStep, Messages, MessageStep
    <3> QED  BY <1>c, <2>8, <3>1, <3>2, ShutQuiet DEF DeletionWritten
  <2> QED
    BY <1>2, <1>3, <1>4, <1>5, <2>1, <2>2, <2>3, <2>4, <2>5, <2>6, <2>7, <2>8
       DEF RequestMoved
<1>6. ASSUME UNCHANGED request, \A r \in Runs : Executing(r)' => Executing(r)
      PROVE  ShutMeansTold'
  BY <1>6, ShutQuiet DEF ShutFor, Messages
<1>7. ASSUME NEW r \in Runs, MessageWritten(r) \/ RunWentOn(r) PROVE ShutMeansTold'
  BY <1>6, <1>7 DEF MessageWritten, RunWentOn, RunsSame, Executing
<1>8. CASE CustomerBound \/ RightsGiven \/ Still
  BY <1>6, <1>c, <1>8 DEF CustomerBound, RightsGiven, Still, RestSame
<1>9. CASE Crashed
  BY <1>9, <1>a DEF Crashed, ShutMeansTold, ShutFor
<1> QED  BY <1>5, <1>7, <1>8, <1>9 DEF StepKind

(* A step that closes no history: what is reached stays reached.           *)
LEMMA WritersQuiet ==
  ASSUME FlowInv, FlowInv', StepKind, GhostsTyped', WritersKnow, open \subseteq open',
         \A p \in Requests : Resolving(p)' =>
            \/ Reaches(p)'
            \/ /\ Resolving(p) /\ SameTopic(p) /\ request'[p].handle = request[p].handle
               /\ (request[p].stale => request'[p].stale),
         \A r \in Runs : Executing(r)' => Executing(r) \/ Handle(r)' \in open' \/ Told(r)',
         \A r \in lost' : r \in lost \/ (pc[r] # "unborn" /\ Told(r))
  PROVE  WritersKnow'
<1>1. ASSUME NEW p \in Requests, Resolving(p)' PROVE Reaches(p)'
  <2>1. CASE Reaches(p)'  BY <2>1
  <2>2. CASE ~Reaches(p)'
    <3>1. /\ Resolving(p) /\ SameTopic(p) /\ request'[p].handle = request[p].handle
          /\ (request[p].stale => request'[p].stale)
      BY <1>1, <2>2
    <3>2. Reaches(p)  BY <3>1 DEF WritersKnow
    <3> QED  BY <3>1, <3>2, Grows DEF Reaches, SameTopic
  <2> QED  BY <2>1, <2>2
<1>2. ASSUME NEW r \in Runs, Executing(r)' PROVE Handle(r)' \in open' \/ Told(r)'
  <2>1. CASE Executing(r)
    <3>1. pc[r] # "unborn"  BY <2>1 DEF Executing
    <3>2. Handle(r)' = Handle(r)  BY <3>1, Grows DEF Handle
    <3>3. Handle(r) \in open \/ Told(r)  BY <2>1 DEF WritersKnow
    <3> QED  BY <3>1, <3>2, <3>3, ToldStays
  <2>2. CASE ~Executing(r)  BY <1>2, <2>2
  <2> QED  BY <2>1, <2>2
<1>3. ASSUME NEW r \in lost' PROVE pc'[r] # "unborn" /\ Told(r)'
  <2>1. r \in Runs /\ pc[r] # "unborn" /\ Told(r)  BY <1>3 DEF WritersKnow, GhostsTyped
  <2> QED  BY <2>1, Grows, ToldStays
<1> QED  BY <1>1, <1>2, <1>3 DEF WritersKnow

LEMMA WritersStep ==
  ASSUME FlowInv, FlowInv', StepKind, GhostsTyped', HandlesInv', ShutMeansTold, WritersKnow
  PROVE  WritersKnow'
<1>a. Idle.step = "idle"  BY DEF Idle, Fresh
<1>c. RunsSame \/ UNCHANGED <<pc, runKey>> => \A r \in Runs : Executing(r)' => Executing(r)
  BY DEF RunsSame, Executing
(* A request moves, no Run begins, and no message is lost.                 *)
<1>1. ASSUME NEW q \in Requests, Others(q), open \subseteq open', UNCHANGED lost,
             \A r \in Runs : Executing(r)' => Executing(r),
             \/ ~Resolving(q)' \/ Reaches(q)'
             \/ /\ Resolving(q) /\ SameTopic(q) /\ SameMarks(q)
                /\ request'[q].handle = request[q].handle
      PROVE  WritersKnow'
  <2>1. \A p \in Requests : Resolving(p)' =>
            \/ Reaches(p)'
            \/ /\ Resolving(p) /\ SameTopic(p) /\ request'[p].handle = request[p].handle
               /\ (request[p].stale => request'[p].stale)
    BY <1>1 DEF Others, Resolving, SameTopic, SameMarks
  <2> QED  BY <1>1, <2>1, WritersQuiet
<1>2. ASSUME NEW q \in Requests, Resolved(q) PROVE WritersKnow'
  <2>1. /\ Others(q) /\ UNCHANGED lost /\ request[q].tenant \in Tenants
        /\ RunsSame /\ open \subseteq open'
        /\ \/ request'[q] = Idle
           \/ SameTopic(q) /\ request'[q].handle = runtime'[request[q].tenant]
    BY <1>2 DEF Resolved, Goes, GhostsSame, HandlesSame
  <2>2. ASSUME ~(request'[q] = Idle) PROVE Reaches(q)'
    <3> DEFINE t == request[q].tenant
    <3>1. t \in Tenants /\ request'[q].tenant = t /\ request'[q].handle = runtime'[t]
      BY <2>1, <2>2 DEF SameTopic
    <3>2. runtime'[t] # 0
      <4>1. CASE runtime[t] # 0  BY <1>2, <2>2, <4>1 DEF Resolved, HandlesSame
      <4>2. CASE runtime[t] = 0
        <5>1. CacheTyped  BY DEF FlowInv, LifeInv
        <5>2. runtime' = [runtime EXCEPT ![t] = opened[t] + 1]
          BY <1>2, <2>2, <4>2 DEF Resolved
        <5>3. runtime'[t] = opened[t] + 1 /\ opened[t] \in Nat
          BY <3>1, <5>1, <5>2 DEF CacheTyped
        <5> QED  BY <5>3
      <4> QED  BY <4>1, <4>2
    <3>3. <<t, runtime'[t]>> \in open'  BY <3>1, <3>2 DEF HandlesInv
    <3> QED  BY <3>1, <3>3 DEF Reaches
  <2> QED  BY <1>1, <1>a, <1>c, <2>1, <2>2 DEF Resolving
<1>3. ASSUME NEW q \in Requests, NEW r \in Runs, RunStarted(q, r) PROVE WritersKnow'
  <2>1. /\ Others(q) /\ request[q].step = "message.ensured" /\ request'[q] = Idle
        /\ (request[q].stale => r \in late') /\ HandlesSame /\ UNCHANGED <<lost, revived>>
        /\ pc' = [pc EXCEPT ![r] = "body"] /\ runKey' = [runKey EXCEPT ![r] = request[q].key]
        /\ work'[r].handle = request[q].handle
    BY <1>3 DEF RunStarted
  <2>2. q \in Messages /\ Resolving(q)  BY <2>1 DEF Messages, MessageStep, Resolving
  <2>3. TypeOK  BY DEF FlowInv, RegistryInv
  <2>4. /\ runKey'[r] = request[q].key /\ request[q].tenant = TenantOf[request[q].key]
        /\ \A i \in Runs \ {r} : pc'[i] = pc[i]
    BY <2>1, <2>2, <2>3, RunsConcern DEF TypeOK
  <2>5. Reaches(q)  BY <2>2 DEF WritersKnow
  <2>6. Handle(r)' = <<request[q].tenant, request[q].handle>>  BY <2>1, <2>4 DEF Handle
  <2>7. Handle(r)' \in open' \/ Told(r)'
    BY <2>1, <2>4, <2>5, <2>6 DEF Reaches, Told, HandlesSame
  <2>8. \A p \in Requests : Resolving(p)' =>
           /\ Resolving(p) /\ SameTopic(p) /\ request'[p].handle = request[p].handle
           /\ (request[p].stale => request'[p].stale)
    BY <1>a, <2>1 DEF Others, Resolving, SameTopic
  <2>9. \A i \in Runs \ {r} : Executing(i)' => Executing(i)  BY <2>4 DEF Executing
  <2> QED  BY <2>1, <2>7, <2>8, <2>9, WritersQuiet DEF HandlesSame
(* The history that is closed is the one whose writers were told.          *)
<1>4. ASSUME NEW q \in Requests, HistoryClosed(q) PROVE WritersKnow'
  <2> DEFINE t == request[q].tenant
             h == <<t, request[q].handle>>
  <2>1. /\ Others(q) /\ request[q].step = "tenant.evicted" /\ request'[q] = Idle
        /\ t \in Tenants /\ open' = open \ {h}
        /\ UNCHANGED <<pc, runKey, cancelled, work, late, lost, revived>>
    BY <1>4 DEF HistoryClosed, RunsSame, GhostsSame, RowsSame
  <2>2. ShutFor(q, t)  BY <2>1 DEF ShutFor
  <2>3. ASSUME t \notin revived
        PROVE  /\ \A r \in Runs : Executing(r) /\ TenantOf[runKey[r]] = t => Told(r)
               /\ \A p \in Messages : request[p].tenant = t => request[p].stale
    BY <2>1, <2>2, <2>3 DEF ShutMeansTold
  <2>4. ASSUME NEW p \in Requests, Resolving(p)' PROVE Reaches(p)'
    <3>1. p # q /\ request'[p] = request[p] /\ Resolving(p)
      BY <1>a, <2>1, <2>4 DEF Others, Resolving
    <3>2. Reaches(p) /\ p \in Messages
      BY <3>1 DEF WritersKnow, Messages, MessageStep, Resolving
    <3>3. CASE request[p].tenant = t
      BY <2>1, <2>3, <3>1, <3>2, <3>3 DEF Reaches
    <3>4. CASE request[p].tenant # t
      BY <2>1, <3>1, <3>2, <3>4 DEF Reaches
    <3> QED  BY <3>3, <3>4
  <2>5. ASSUME NEW r \in Runs, Executing(r)' PROVE Handle(r)' \in open' \/ Told(r)'
    <3>1. Executing(r) /\ Handle(r)' = Handle(r) /\ (Told(r)' <=> Told(r))
      BY <2>1, <2>5 DEF Executing, Handle, Told
    <3>2. Handle(r) \in open \/ Told(r)  BY <3>1 DEF WritersKnow
    <3>3. CASE TenantOf[runKey[r]] = t
      <4>1. Told(r)  BY <2>3, <3>1, <3>3 DEF Told
      <4> QED  BY <3>1, <4>1
    <3>4. CASE TenantOf[runKey[r]] # t
      <4>1. Handle(r) # h  BY <3>4 DEF Handle
      <4> QED  BY <2>1, <3>1, <3>2, <4>1
    <3> QED  BY <3>3, <3>4
  <2>6. \A r \in lost' : pc'[r] # "unborn" /\ Told(r)'
    BY <2>1 DEF WritersKnow, Told
  <2> QED  BY <2>4, <2>5, <2>6 DEF WritersKnow
<1>5. ASSUME NEW q \in Requests, Overtaken(q) PROVE WritersKnow'
  <2>1. /\ UNCHANGED <<pc, runKey, lost, open>>
        /\ \A p \in Requests : Resolving(p)' =>
              /\ Resolving(p) /\ SameTopic(p) /\ request'[p].handle = request[p].handle
              /\ (request[p].stale => request'[p].stale)
    BY <1>5, <1>a DEF Overtaken, Resolving, SameTopic, SameStep, GhostsSame, HandlesSame
  <2> QED  BY <1>c, <2>1, WritersQuiet
<1>6. ASSUME NEW q \in Requests, RequestMoved(q) PROVE WritersKnow'
  <2>1. CASE Authenticated(q)
    BY <1>1, <1>c, <2>1 DEF Authenticated, RestSame, GhostsSame, HandlesSame, Resolving
  <2>2. CASE RoleChanged(q) \/ UserDisabled(q) \/ TenantClosed(q)
    BY <1>1, <1>c, <2>2
       DEF RoleChanged, UserDisabled, TenantClosed, GhostsSame, HandlesSame, Resolving
  <2>3. CASE LookedUp(q)
    BY <1>1, <1>a, <1>c, <2>3
       DEF LookedUp, Goes, RestSame, GhostsSame, HandlesSame, Resolving
  <2>4. CASE RowEnsured(q)
    BY <1>1, <1>a, <1>c, <2>4 DEF RowEnsured, Goes, GhostsSame, HandlesSame, Resolving
  <2>5. CASE Checked(q)
    BY <1>1, <1>a, <1>c, <2>5 DEF Checked, Goes, RestSame, GhostsSame, HandlesSame, Resolving
  <2>6. CASE RequestEnded(q)
    BY <1>1, <1>a, <1>c, <2>6 DEF RequestEnded, GhostsSame, HandlesSame, Resolving
  <2>7. CASE RuntimeEvicted(q)
    BY <1>1, <1>a, <1>c, <2>7 DEF RuntimeEvicted, Goes, GhostsSame, Resolving
  <2>8. CASE DeletionWritten(q)
    <3>1. \A p \in Requests : Resolving(p)' =>
             /\ Resolving(p) /\ SameTopic(p) /\ request'[p].handle = request[p].handle
             /\ (request[p].stale => request'[p].stale)
      BY <2>8 DEF DeletionWritten, Goes, SameTopic, SameStep, Resolving
    <3> QED
      BY <1>c, <2>8, <3>1, WritersQuiet DEF DeletionWritten, GhostsSame, HandlesSame
  <2> QED
    BY <1>2, <1>3, <1>4, <1>5, <1>6, <2>1, <2>2, <2>3, <2>4, <2>5, <2>6, <2>7, <2>8
       DEF RequestMoved
<1>7. ASSUME UNCHANGED <<request, open>>, \A r \in Runs : Executing(r)' => Executing(r),
             \A r \in lost' : r \in lost \/ (pc[r] # "unborn" /\ Told(r))
      PROVE  WritersKnow'
  BY <1>7, WritersQuiet DEF Resolving, SameTopic
<1>8. ASSUME NEW r \in Runs, MessageWritten(r) PROVE WritersKnow'
  <2>1. pc[r] = "body" /\ Executing(r)  BY <1>8 DEF MessageWritten, Executing
  <2>2. Handle(r) \in open \/ Told(r)  BY <2>1 DEF WritersKnow
  <2>3. \A i \in lost' : i \in lost \/ (pc[i] # "unborn" /\ Told(i))
    BY <1>8, <2>1, <2>2 DEF MessageWritten
  <2> QED  BY <1>7, <1>8, <1>c, <2>3 DEF MessageWritten, HandlesSame
<1>9. ASSUME NEW r \in Runs, RunWentOn(r) PROVE WritersKnow'
  BY <1>7, <1>9 DEF RunWentOn, GhostsSame, HandlesSame, Executing
<1>10. CASE CustomerBound \/ RightsGiven \/ Still
  BY <1>7, <1>c, <1>10
     DEF CustomerBound, RightsGiven, Still, RestSame, GhostsSame, HandlesSame
<1>11. CASE Crashed
  <2>1. \A r \in Runs : (pc'[r] = "unborn" <=> pc[r] = "unborn") /\ (Told(r)' <=> Told(r))
    BY <1>11 DEF Crashed, Told, GhostsSame
  <2>2. lost' = lost /\ lost \subseteq Runs  BY <1>11 DEF Crashed, GhostsSame, GhostsTyped
  <2> QED  BY <1>11, <1>a, <2>1, <2>2 DEF Crashed, WritersKnow, Resolving
<1> QED  BY <1>6, <1>8, <1>9, <1>10, <1>11 DEF StepKind

-----------------------------------------------------------------------------
(* A customer once set is written over only by a message that looked       *)
(* before there was a session.                                             *)
LEMMA CustomerStep ==
  ASSUME FlowInv, StepKind, NEW k \in Keys,
         session[k].customer # NoCustomer, session'[k].customer # session[k].customer
  PROVE  \E q \in Requests : At(q, "message.looked") /\ request[q].key = k
                               /\ ~request[q].known /\ request'[q].step # "message.looked"
<1>a. Idle.step = "idle"  BY DEF Idle, Fresh
<1>1. ~UNCHANGED session  OBVIOUS
<1>2. ~CustomerBound  BY DEF CustomerBound
<1>3. ASSUME NEW q \in Requests, RowEnsured(q)
      PROVE  At(q, "message.looked") /\ request[q].key = k
                /\ ~request[q].known /\ request'[q].step # "message.looked"
  BY <1>3, <1>a DEF RowEnsured, Goes, At
<1>4. ASSUME NEW q \in Requests, DeletionWritten(q) PROVE FALSE
  <2>1. session' = [session EXCEPT ![request[q].key].gone = TRUE]  BY <1>4 DEF DeletionWritten
  <2>2. session'[k].customer = session[k].customer
    BY <2>1 DEF FlowInv, RowsTyped, Row
  <2> QED  BY <2>2
<1>5. ASSUME NEW q \in Requests, RequestMoved(q) PROVE RowEnsured(q)
  BY <1>1, <1>4, <1>5 DEF RequestMoved, Authenticated, RoleChanged, UserDisabled, TenantClosed,
     Resolved, LookedUp, RunStarted, Checked, RequestEnded, Overtaken, RuntimeEvicted,
     HistoryClosed, RestSame, RowsSame
<1>6. ~RightsGiven /\ ~Crashed /\ ~Still
  BY <1>1 DEF RightsGiven, Crashed, Still, RestSame, RowsSame
<1>7. \A r \in Runs : ~MessageWritten(r) /\ ~RunWentOn(r)
  BY <1>1 DEF MessageWritten, RunWentOn, RowsSame
<1> QED  BY <1>2, <1>3, <1>5, <1>6, <1>7 DEF StepKind

LEMMA CountedStep ==
  ASSUME Counted, [FlowNext]_allVars
  PROVE  Counted'
<1>0. MaxCalls \in Nat /\ MaxGrants \in Nat  BY MaxCallsType
<1>1. ASSUME UNCHANGED <<calls, grants>> PROVE Counted'  BY <1>1 DEF Counted
<1>2. ASSUME NEW q \in Requests, BeginRequest(q) PROVE Counted'
  <2>1. /\ calls < MaxCalls /\ calls' = calls + 1 /\ UNCHANGED grants
    BY <1>2 DEF BeginRequest, Authenticate, ChangeRole, DisableUser, CloseDown, Revoke, Call
  <2> QED  BY <1>0, <2>1 DEF Counted
<1>3. ASSUME NEW q \in Requests, MessageRequest(q) \/ CancelRequest(q) \/ RevokeRequest(q)
      PROVE  UNCHANGED <<calls, grants>>
  BY <1>3 DEF MessageRequest, CancelRequest, RevokeRequest, Resolve, LookUp, Ensure, Busy,
     StartRun, Allowed, CancelMember, CancelAccount, CancelTenant, CloseTenant, Elsewhere
<1>4. ASSUME NEW q \in Requests, DeleteRequest(q) PROVE UNCHANGED <<calls, grants>>
  <2>1. ASSUME DeleteWrite(q) PROVE UNCHANGED <<lifeVars, rank, enabled, calls, grants>>
    BY <2>1, Zenon DEF DeleteWrite, Elsewhere
  <2> QED  BY <1>4, <2>1 DEF DeleteRequest, Resolve, NotBusy, Allowed, Elsewhere
<1>5. ASSUME NEW r \in Runs, RunOf(r) PROVE UNCHANGED <<calls, grants>>
  <2>1. ASSUME NEW c \in Customers, BindCustomerOnce(r, c)
        PROVE  UNCHANGED <<lifeVars, rank, enabled, calls, grants>>
    BY <2>1, Zenon DEF BindCustomerOnce, Elsewhere
  <2>2. ASSUME NEW from, NEW to, WriteMessage(r, from, to)
        PROVE  UNCHANGED <<lifeVars, rank, enabled, calls, grants>>
    BY <2>2, Zenon DEF WriteMessage, Elsewhere
  <2> QED  BY <1>5, <2>1, <2>2 DEF RunOf, RunGoesOn, Elsewhere
<1>6. CASE Grant
  <2>1. /\ UNCHANGED calls
        /\ \/ grants < MaxGrants /\ grants' = grants + 1
           \/ UNCHANGED grants
    BY <1>6 DEF Grant
  <2> QED  BY <1>0, <2>1 DEF Counted
<1>7. CASE Provisioning \/ Crash  BY <1>1, <1>7 DEF Provisioning, Crash
<1>8. CASE UNCHANGED allVars  BY <1>1, <1>8 DEF allVars, flowVars
<1> QED  BY <1>1, <1>2, <1>3, <1>4, <1>5, <1>6, <1>7, <1>8 DEF FlowNext

-----------------------------------------------------------------------------
(* The theorems. *)

SafeInv == /\ FlowInv /\ GhostsTyped /\ Counted
           /\ HandlesInv /\ RightsInv /\ QuietInv /\ ToldInv

LEMMA SafeInit == FlowInit => SafeInv
<1> SUFFICES ASSUME FlowInit PROVE SafeInv  OBVIOUS
<1>a. \A q \in Requests : request[q].step = "idle"  BY DEF FlowInit, Idle, Fresh
<1>b. Init /\ LifeInit  BY DEF FlowInit
<1>c. \A r \in Runs : pc[r] = "unborn"  BY <1>b DEF Init
<1>1. FlowInv /\ GhostsTyped /\ Counted
  BY FlowInitInv, MaxCallsType DEF FlowInit, GhostsTyped, Counted
<1>2. HandlesInv
  BY <1>a, <1>b DEF LifeInit, HandlesInv, NoHistoryLeaks, Evicted
<1>3. RightsInv
  BY <1>a, <1>c DEF RightsInv, Fair, Entitled, Unwarned, Executing, Messages, MessageStep
<1>4. QuietInv
  BY <1>a, <1>c DEF FlowInit, QuietInv, DeletedStaysQuiet, Registered, Unaware, Deleting, NoRow
<1>5. ToldInv
  BY <1>a, <1>c DEF FlowInit, ToldInv, OutOfService, ShutMeansTold, WritersKnow, ClosingFor,
                    ShutFor, ClosingStep, Resolving, Executing
<1> QED  BY <1>1, <1>2, <1>3, <1>4, <1>5 DEF SafeInv

LEMMA SafeStep == SafeInv /\ [FlowNext]_allVars => SafeInv' /\ StepKind
<1> SUFFICES ASSUME SafeInv, [FlowNext]_allVars PROVE SafeInv' /\ StepKind  OBVIOUS
<1>1. FlowInv' /\ StepKind  BY FlowStep DEF SafeInv
<1>2. GhostsTyped' /\ Counted'  BY <1>1, GhostsStep, CountedStep DEF SafeInv
<1>3. HandlesInv' /\ RightsInv' /\ QuietInv'
  BY <1>1, HandlesStep, RightsStep, QuietStep DEF SafeInv
<1>4. OutOfService' /\ ShutMeansTold' /\ WritersKnow'
  BY <1>1, <1>2, <1>3, OutOfServiceStep, ShutStep, WritersStep DEF SafeInv, ToldInv
<1> QED  BY <1>1, <1>2, <1>3, <1>4 DEF SafeInv, ToldInv

LEMMA SafeInvariant == FlowSpec => []SafeInv
<1>1. FlowInit => SafeInv  BY SafeInit
<1>2. SafeInv /\ [FlowNext]_allVars => SafeInv'  BY SafeStep
<1> QED  BY <1>1, <1>2, PTL DEF FlowSpec

(* The requests, the rows and what they share keep their types, and so do  *)
(* the registry of Runs and the tenants' directories under them.           *)
THEOREM FlowTypesCorrect == FlowSpec => []FlowTypeOK
<1>1. SafeInv => FlowTypeOK
  <2> SUFFICES ASSUME SafeInv PROVE FlowTypeOK  OBVIOUS
  <2>1. TypeOK  BY DEF SafeInv, FlowInv, RegistryInv
  <2>2. LifeTypeOK
    BY DEF SafeInv, FlowInv, LifeInv, FilesTyped, CacheTyped, CountersTyped, LifeTypeOK
  <2> QED
    BY <2>1, <2>2 DEF SafeInv, FlowInv, RequestsTyped, RowsTyped, GhostsTyped, Counted, FlowTypeOK
<1> QED  BY <1>1, SafeInvariant, PTL

(* A Run that was not cancelled works with the rights its user has, in     *)
(* every order of Start with the changes of roles, accounts and tenants,   *)
(* unless the cancellation is under way or came before the Run.            *)
THEOREM RightsAreKept == FlowSpec => []RunsKeepTheirRights
<1>1. SafeInv => RunsKeepTheirRights
  <2> SUFFICES ASSUME SafeInv, NEW r \in Runs, Executing(r), ~cancelled[r], r \notin late
               PROVE  \/ Rights(actor[r], TenantOf[runKey[r]]) = work[r].rank
                      \/ RevocationUnderWay(r)
    BY DEF RunsKeepTheirRights
  <2>1. Keeps(work[r].rank, actor[r], TenantOf[runKey[r]])
    BY DEF SafeInv, RightsInv, Entitled, Unwarned
  <2> QED  BY <2>1 DEF Keeps, Concerns, RevocationUnderWay
<1> QED  BY <1>1, SafeInvariant, PTL

(* In a deleted session only the Runs that started between the deletion's  *)
(* busy check and its write execute.                                       *)
THEOREM DeletedSessionsAreQuiet == FlowSpec => []DeletedStaysQuiet
<1>1. SafeInv => DeletedStaysQuiet  BY DEF SafeInv, QuietInv
<1> QED  BY <1>1, SafeInvariant, PTL

(* Whoever loses a message to a closed history was told, came late, or     *)
(* belongs to a tenant that is served again.                               *)
THEOREM ToldRunsLose == FlowSpec => []OnlyToldRunsLose
<1>1. SafeInv => OnlyToldRunsLose
  BY DEF SafeInv, ToldInv, WritersKnow, Told, OnlyToldRunsLose
<1> QED  BY <1>1, SafeInvariant, PTL

(* Every open history is the registry's or about to be closed.             *)
THEOREM HistoriesAreAccountedFor == FlowSpec => []NoHistoryLeaks
<1>1. SafeInv => NoHistoryLeaks  BY DEF SafeInv, HandlesInv
<1> QED  BY <1>1, SafeInvariant, PTL

(* A session's customer is written over only by a message that looked when *)
(* there was no session.                                                   *)
THEOREM CustomerIsBoundOnce == FlowSpec => CustomerStaysBound
<1> DEFINE Stays ==
      \A k \in Keys :
         session[k].customer # NoCustomer /\ session'[k].customer # session[k].customer =>
            \E q \in Requests : At(q, "message.looked") /\ request[q].key = k
                                  /\ ~request[q].known /\ request'[q].step # "message.looked"
<1>1. SafeInv /\ [FlowNext]_allVars => [Stays]_allVars
  BY SafeStep, CustomerStep DEF SafeInv
<1>2. FlowSpec => [][Stays]_allVars
  BY <1>1, SafeInvariant, PTL DEF FlowSpec
<1> QED  BY <1>2 DEF CustomerStaysBound

(* Under the requests and restarts, too, the registry names the one writer *)
(* of a session, a directory that exists is whole, and an active tenant    *)
(* has one.                                                                *)
THEOREM FlowKeepsTheParts ==
    FlowSpec => [](RegistryNamesTheWriter /\ ProvisionedIsWhole /\ ActiveIsProvisioned)
<1>1. SafeInv => RegistryNamesTheWriter /\ ProvisionedIsWhole /\ ActiveIsProvisioned
  BY DEF SafeInv, FlowInv, RegistryInv, WriterInv, LifeInv
<1> QED  BY <1>1, SafeInvariant, PTL

=============================================================================
