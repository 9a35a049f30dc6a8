------------------------------ MODULE WikiReview ------------------------------
(***************************************************************************)
(* One entry of reviewed knowledge (a threat, compliance or industry page) *)
(* in the wikis of the tenants and in the platform's read-only baseline:   *)
(* memory/longterm (WikiStore, CompositeStore), the tools with which the   *)
(* agent writes it (memory/tools), the consolidation task (cmd/agent), and *)
(* the human's edit, delete, approve and reject (channel/http, review).    *)
(*                                                                         *)
(* The store's mutex is released around every file operation, so an        *)
(* operation is a sequence of steps and several may be in flight.  A page  *)
(* is a status and the set of notes it is made of; a file is written by    *)
(* rename, so it is never seen half.  Notes are one-time tokens: every     *)
(* write brings a new text.  Two entries with the same notes are therefore *)
(* the same *Entry, whose Status a pointer taken earlier still changes.    *)
(***************************************************************************)
EXTENDS Naturals, FiniteSets

CONSTANTS
    Tenants,
    Base,       \* the owner of the baseline's directory
    Actors,     \* requests, Runs and tasks that may be in flight together
    Ops,        \* bound of the model: the operations that are called
    HumanNotes, AgentNotes,     \* the texts that may be written
    BaseNotes,  \* the baseline's page ({}: the baseline has none)
    MaxRevs,    \* bound of the model: revision files per tenant
    MaxSec,     \* bound of the model: seconds that pass
    MaxFailures \* bound of the model: writes that fail

ASSUME BaseIsNoTenant == Base \notin Tenants
ASSUME NotesDiffer == HumanNotes \cap AgentNotes = {} /\ BaseNotes \cap (HumanNotes \cup AgentNotes) = {}
ASSUME BoundsAreNat == MaxRevs \in Nat \ {0} /\ MaxSec \in Nat /\ MaxFailures \in Nat

VARIABLES
    disk,       \* the pages on disk: the active files and the .revision- files
    past,       \* the .superseded- files of an active file, by second
    system,     \* the baseline's entry in memory
    entry,      \* a tenant's entry in memory (w.entries)
    revision,   \* its pending revision in memory (w.revisions)
    op,         \* what each actor is in the middle of
    fresh,      \* the notes not written yet
    now,        \* the clock, in seconds
    failures,   \* the writes that failed since the last restart, and before
    \* For the properties only:
    approved,   \* the notes a human wrote or approved
    trusted,    \* the last version a human wrote or approved for a tenant
    disturbed   \* calls overlapped, a write failed, a tenant edited the
                \* baseline's page, or an agent's text was written over the
                \* entry whatever its status

storeVars == <<disk, past, system, entry, revision>>
ghostVars == <<approved, trusted>>
vars == <<storeVars, op, fresh, now, failures, ghostVars, disturbed>>

-----------------------------------------------------------------------------

Notes  == HumanNotes \cup AgentNotes \cup BaseNotes
Status == {"verified", "pending_review", "archived"}

(* <<owner, 0>> is the active file, <<owner, n>> the n-th revision file:   *)
(* their names carry the nanosecond, so they are numbered in time.         *)
Files  == (Tenants \cup {Base}) \X (0 .. MaxRevs)
Active(o) == <<o, 0>>
NoFile == << >>

Page   == [status : Status, notes : SUBSET Notes]
NoPage == [status |-> "none", notes |-> {}]
Absent == [status |-> "none", notes |-> {}, file |-> NoFile]
Idle   == [step |-> "idle", tenant |-> Base, e |-> Absent, other |-> NoFile]

Exists(e)  == e.status # "none"

(* visibleToAgent.  Mutant: only the archived are hidden. *)
VisibleIfPending(e) == e.status \in {"verified", "pending_review"}
Visible(e) == e.status = "verified"
OnDisk(e)  == [status |-> e.status, notes |-> e.notes]
SameEntry(e, f) == Exists(e) /\ Exists(f) /\ e.notes = f.notes

(* Load: the active file, and of the revision files the last one in the    *)
(* order of their names.                                                   *)
LoadEntry(o) ==
    LET p == disk[Active(o)]
    IN  IF p = NoPage THEN Absent
        ELSE [status |-> p.status, notes |-> p.notes, file |-> Active(o)]

LoadRevision(o) ==
    LET on == {n \in 1 .. MaxRevs : disk[<<o, n>>] # NoPage}
    IN  IF on = {} THEN Absent
        ELSE LET n == CHOOSE n \in on : \A m \in on : m <= n
             IN  [status |-> "pending_review", notes |-> disk[<<o, n>>].notes, file |-> <<o, n>>]

(* CompositeStore.GetEntry: the tenant's entry hides the baseline's. *)
Get(t) == IF Exists(entry[t]) THEN entry[t] ELSE system

(* memory_get shows Get(t), memory_search and memory_list each layer's.    *)
AgentSees(t) ==
    UNION {e.notes : e \in {f \in {Get(t), entry[t], system} : Visible(f)}}

Init ==
    /\ disk = [f \in Files |-> IF f = Active(Base) /\ BaseNotes # {}
                               THEN [status |-> "verified", notes |-> BaseNotes] ELSE NoPage]
    /\ past     = [f \in Files |-> [s \in 0 .. MaxSec |-> {}]]
    /\ system   = IF BaseNotes = {} THEN Absent
                  ELSE [status |-> "verified", notes |-> BaseNotes, file |-> Active(Base)]
    /\ entry    = [t \in Tenants |-> Absent]
    /\ revision = [t \in Tenants |-> Absent]
    /\ op       = [a \in Actors |-> Idle]
    /\ fresh    = HumanNotes \cup AgentNotes
    /\ now      = 0
    /\ failures = 0
    /\ approved = BaseNotes
    /\ trusted  = [t \in Tenants |-> {}]
    /\ disturbed = FALSE

-----------------------------------------------------------------------------
(* Calls: the reads and checks before the first write. *)

At(a, s) == op[a].step = s

Begin(a, s, t, e, other) ==
    op' = [op EXCEPT ![a] = [step |-> s, tenant |-> t, e |-> e, other |-> other]]

Write(n) == n \in fresh /\ fresh' = fresh \ {n}

NewEntry(t, s, ns) == [status |-> s, notes |-> ns, file |-> Active(t)]

RoomForRevision(t) ==
    /\ disk[<<t, MaxRevs>>] = NoPage
    /\ \A a \in Actors : op[a].e.file # <<t, MaxRevs>>

(* revisionPathFor. *)
NewRevisionAt(t, ns, file) == [status |-> "pending_review", notes |-> ns, file |-> file]

(* Mutant: the revision has the path of the active page. *)
RevisionInPlace(t, ns) == NewRevisionAt(t, ns, Active(t))

NewRevision(t, ns) ==
    LET used == {n \in 1 .. MaxRevs : \/ disk[<<t, n>>] # NoPage
                                      \/ \E a \in Actors : op[a].e.file = <<t, n>>}
        last == IF used = {} THEN 0 ELSE CHOOSE n \in used : \A m \in used : m <= n
    IN  NewRevisionAt(t, ns, <<t, last + 1>>)

(* execEnsure: a verified entry gets a revision, anything else is replaced. *)
Ensure(a, t, n) ==
    /\ "ensure" \in Ops /\ At(a, "idle") /\ n \in AgentNotes /\ Write(n)
    /\ \/ /\ Visible(Get(t)) /\ RoomForRevision(t)
          /\ Begin(a, "write revision", t, NewRevision(t, {n}), NoFile)
       \/ /\ ~ Visible(Get(t))
          /\ Begin(a, "archive", t, NewEntry(t, "pending_review", {n}), NoFile)
    /\ UNCHANGED <<storeVars, now, failures, ghostVars>>

(* execObserve: the observation is appended to a copy of the entry, file   *)
(* path included.                                                          *)
Observe(a, t, n) ==
    LET e == [Get(t) EXCEPT !.notes = @ \cup {n}]
    IN  /\ "observe" \in Ops /\ At(a, "idle") /\ n \in AgentNotes /\ Write(n)
        /\ \/ /\ Visible(Get(t))
              /\ Begin(a, "write revision", t, [e EXCEPT !.status = "pending_review"], NoFile)
           \/ /\ Exists(Get(t)) /\ ~ Visible(Get(t))
              /\ Begin(a, "archive", t, e, NoFile)
           \/ /\ ~ Exists(Get(t))
              /\ Begin(a, "archive", t, NewEntry(t, "pending_review", {n}), NoFile)
        /\ UNCHANGED <<storeVars, now, failures, ghostVars>>

(* The consolidation task reads the observations of an entry (any text of  *)
(* the agent may hold some), asks a model and replaces the entry, whatever *)
(* became of it meanwhile.                                                 *)
Consolidate(a, t, n) ==
    /\ "consolidate" \in Ops /\ At(a, "idle") /\ n \in AgentNotes
    /\ Get(t).notes \cap AgentNotes # {}
    /\ Write(n)
    /\ Begin(a, "archive", t, NewEntry(t, "pending_review", {n}), NoFile)
    /\ UNCHANGED <<storeVars, now, failures, ghostVars>>

(* handleMemoryUpsert: a copy of the existing entry, file path included.   *)
HumanEdit(a, t, n) ==
    LET file == IF Exists(Get(t)) THEN Get(t).file ELSE Active(t)
    IN  /\ "human" \in Ops /\ At(a, "idle") /\ n \in HumanNotes /\ Write(n)
        /\ Begin(a, "archive", t, [status |-> "verified", notes |-> {n}, file |-> file], NoFile)
        /\ approved' = approved \cup {n}
        /\ UNCHANGED <<storeVars, now, failures, trusted>>

(* DeleteEntry up to its first unlock, with archive = true or false. *)
Remove(a, t, next) ==
    /\ Exists(entry[t]) \/ Exists(revision[t])
    /\ revision' = [revision EXCEPT ![t] = Absent]
    /\ Begin(a, next, t, entry[t], revision[t].file)

HumanDelete(a, t) ==
    /\ "delete" \in Ops /\ At(a, "idle")
    /\ Remove(a, t, "delete") \/ Remove(a, t, "hide")
    /\ UNCHANGED <<disk, past, system, entry, fresh, now, failures, ghostVars>>

(* Where an approved revision goes. *)
Home(t) == IF Exists(entry[t]) THEN entry[t].file ELSE Active(t)

(* ApproveEntry: the revision under the entry's path, or the entry itself. *)
Approve(a, t) ==
    LET rev == revision[t]
        e   == IF Exists(rev) THEN [rev EXCEPT !.status = "verified", !.file = Home(t)]
                ELSE [entry[t] EXCEPT !.status = "verified"]
    IN  /\ "approve" \in Ops /\ At(a, "idle")
        /\ Exists(rev) \/ Exists(entry[t])
        /\ IF Exists(rev) THEN Begin(a, "replace", t, e, rev.file)
                          ELSE Begin(a, "set status", t, e, NoFile)
        /\ approved' = approved \cup e.notes
        /\ UNCHANGED <<storeVars, fresh, now, failures, trusted>>

(* RejectEntry: discard the revision, or delete the pending entry. *)
Reject(a, t) ==
    /\ "reject" \in Ops /\ At(a, "idle")
    /\ IF Exists(revision[t])
       THEN /\ revision' = [revision EXCEPT ![t] = Absent]
            /\ Begin(a, "discard", t, Absent, revision[t].file)
       ELSE Remove(a, t, "delete")
    /\ UNCHANGED <<disk, past, system, entry, fresh, now, failures, ghostVars>>

-----------------------------------------------------------------------------
(* The steps between the calls' locks and file operations. *)

Goto(a, s) == op' = [op EXCEPT ![a].step = s]
Done(a)    == op' = [op EXCEPT ![a] = Idle]

WithoutFile(f) == IF f = NoFile THEN disk ELSE [disk EXCEPT ![f] = NoPage]

(* The Status of a pointer changes wherever it still is the entry. *)
PointerSet(a) ==
    entry' = IF SameEntry(entry[op[a].tenant], op[a].e)
             THEN [entry EXCEPT ![op[a].tenant].status = op[a].e.status] ELSE entry

(* UpsertEntry: archiveSupersededLocked, writePage, addEntry.  addEntry    *)
(* keeps a page of a deeper directory (the baseline's) over a new one.     *)
ArchiveOld(a) ==
    LET old == entry[op[a].tenant]
    IN  /\ At(a, "archive")
        /\ past' = IF Exists(old) /\ old.notes # op[a].e.notes
                   THEN [past EXCEPT ![old.file][now] = old.notes] ELSE past
        /\ Goto(a, "write")
        /\ UNCHANGED <<disk, system, entry, revision, fresh, now, failures, ghostVars>>

WriteEntry(a) ==
    LET e == op[a].e
    IN  /\ At(a, "write")
        /\ disk' = [disk EXCEPT ![e.file] = OnDisk(e)]
        /\ trusted' = IF Visible(e) THEN [trusted EXCEPT ![op[a].tenant] = e.notes] ELSE trusted
        /\ Goto(a, "index")
        /\ UNCHANGED <<past, system, entry, revision, fresh, now, failures, approved>>

IndexEntry(a) ==
    LET t == op[a].tenant
    IN  /\ At(a, "index")
        /\ entry' = IF entry[t].file = Active(Base) /\ op[a].e.file # Active(Base)
                    THEN entry ELSE [entry EXCEPT ![t] = op[a].e]
        /\ Done(a)
        /\ UNCHANGED <<disk, past, system, revision, fresh, now, failures, ghostVars>>

(* SubmitRevision: writePage, then the older revision's file is removed.   *)
WriteRevision(a) ==
    /\ At(a, "write revision")
    /\ disk' = [disk EXCEPT ![op[a].e.file] = OnDisk(op[a].e)]
    /\ Goto(a, "index revision")
    /\ UNCHANGED <<past, system, entry, revision, fresh, now, failures, ghostVars>>

IndexRevision(a) ==
    LET t == op[a].tenant
        old == revision[t]
    IN  /\ At(a, "index revision")
        /\ revision' = [revision EXCEPT ![t] = op[a].e]
        /\ disk' = IF old.file # op[a].e.file THEN WithoutFile(old.file) ELSE disk
        /\ Done(a)
        /\ UNCHANGED <<past, system, entry, fresh, now, failures, ghostVars>>

(* The rest of DeleteEntry: the revision's file, then the entry. *)
DropRevisionFile(a) ==
    /\ At(a, "delete") \/ At(a, "hide")
    /\ disk' = WithoutFile(op[a].other)
    /\ IF Exists(op[a].e) THEN Goto(a, IF At(a, "delete") THEN "remove" ELSE "write archived")
                          ELSE Done(a)
    /\ UNCHANGED <<past, system, entry, revision, fresh, now, failures, ghostVars>>

RemoveFile(a) ==
    /\ At(a, "remove")
    /\ disk' = WithoutFile(op[a].e.file)
    /\ trusted' = [trusted EXCEPT ![op[a].tenant] = {}]
    /\ Goto(a, "forget")
    /\ UNCHANGED <<past, system, entry, revision, fresh, now, failures, approved>>

Forget(a) ==
    /\ At(a, "forget")
    /\ entry' = [entry EXCEPT ![op[a].tenant] = Absent]
    /\ Done(a)
    /\ UNCHANGED <<disk, past, system, revision, fresh, now, failures, ghostVars>>

(* archive = true: the status is set before the write.  Mutant: no write. *)
ArchiveInMemory(a) ==
    /\ At(a, "write archived")
    /\ entry' = IF SameEntry(entry[op[a].tenant], op[a].e)
                THEN [entry EXCEPT ![op[a].tenant].status = "archived"] ELSE entry
    /\ trusted' = [trusted EXCEPT ![op[a].tenant] = {}]
    /\ Done(a)
    /\ UNCHANGED <<disk, past, system, revision, fresh, now, failures, approved>>

WriteArchived(a) ==
    LET e == [op[a].e EXCEPT !.status = "archived"]
    IN  /\ At(a, "write archived")
        /\ disk' = [disk EXCEPT ![e.file] = OnDisk(e)]
        /\ entry' = IF SameEntry(entry[op[a].tenant], e)
                    THEN [entry EXCEPT ![op[a].tenant].status = "archived"] ELSE entry
        /\ trusted' = [trusted EXCEPT ![op[a].tenant] = {}]
        /\ Begin(a, "index", op[a].tenant, e, op[a].other)
        /\ UNCHANGED <<past, system, revision, fresh, now, failures, approved>>

(* The rest of ApproveEntry: setEntryStatus, or write, remove, replace.    *)
SetStatus(a) ==
    /\ At(a, "set status")
    /\ PointerSet(a)
    /\ disk' = [disk EXCEPT ![op[a].e.file] = OnDisk(op[a].e)]
    /\ trusted' = [trusted EXCEPT ![op[a].tenant] = op[a].e.notes]
    /\ Done(a)
    /\ UNCHANGED <<past, system, revision, fresh, now, failures, approved>>

WriteReplacement(a) ==
    /\ At(a, "replace")
    /\ disk' = [disk EXCEPT ![op[a].e.file] = OnDisk(op[a].e)]
    /\ trusted' = [trusted EXCEPT ![op[a].tenant] = op[a].e.notes]
    /\ Goto(a, "drop file")
    /\ UNCHANGED <<past, system, entry, revision, fresh, now, failures, approved>>

DropApprovedFile(a) ==
    /\ At(a, "drop file")
    /\ disk' = WithoutFile(op[a].other)
    /\ Goto(a, "swap")
    /\ UNCHANGED <<past, system, entry, revision, fresh, now, failures, ghostVars>>

Swap(a) ==
    LET t == op[a].tenant
    IN  /\ At(a, "swap")
        /\ revision' = [revision EXCEPT ![t] = Absent]
        /\ entry' = [entry EXCEPT ![t] = op[a].e]
        /\ Done(a)
        /\ UNCHANGED <<disk, past, system, fresh, now, failures, ghostVars>>

(* The rest of RejectEntry. *)
Discard(a) ==
    /\ At(a, "discard")
    /\ disk' = WithoutFile(op[a].other)
    /\ Done(a)
    /\ UNCHANGED <<past, system, entry, revision, fresh, now, failures, ghostVars>>

(* writePage fails: the call returns the error.  setEntryStatus and        *)
(* DeleteEntry have set the pointer's status before.                       *)
WriteFails(a) ==
    /\ failures < MaxFailures
    /\ op[a].step \in {"write", "write revision", "write archived", "set status", "replace"}
    /\ IF At(a, "set status") THEN PointerSet(a)
       ELSE IF At(a, "write archived") /\ SameEntry(entry[op[a].tenant], op[a].e)
            THEN entry' = [entry EXCEPT ![op[a].tenant].status = "archived"]
            ELSE UNCHANGED entry
    /\ failures' = failures + 1
    /\ Done(a)
    /\ UNCHANGED <<disk, past, system, revision, fresh, now, ghostVars>>

(* The process stops at any point and starts again from the files. *)
Restart ==
    /\ entry'    = [t \in Tenants |-> LoadEntry(t)]
    /\ revision' = [t \in Tenants |-> LoadRevision(t)]
    /\ system'   = LoadEntry(Base)
    /\ op'       = [a \in Actors |-> Idle]
    /\ UNCHANGED <<disk, past, fresh, now, failures, ghostVars>>

Tick ==
    /\ now < MaxSec
    /\ now' = now + 1
    /\ UNCHANGED <<storeVars, op, fresh, failures, ghostVars>>

-----------------------------------------------------------------------------

Call(a, t) ==
    \/ \E n \in fresh : Ensure(a, t, n) \/ HumanEdit(a, t, n)
    \/ HumanDelete(a, t) \/ Approve(a, t) \/ Reject(a, t)

(* Calls that write over the entry they read, whatever has become of it. *)
BlindCall(a, t) == \E n \in fresh : Observe(a, t, n) \/ Consolidate(a, t, n)

(* The tenant's edit of a baseline's page goes to the baseline's file. *)
EditsBase(a) == At(a, "archive") /\ op[a].e.file = Active(Base)

Step(a) ==
    \/ ArchiveOld(a) \/ WriteEntry(a) \/ IndexEntry(a)
    \/ WriteRevision(a) \/ IndexRevision(a)
    \/ DropRevisionFile(a) \/ RemoveFile(a) \/ Forget(a) \/ WriteArchived(a)
    \/ SetStatus(a) \/ WriteReplacement(a) \/ DropApprovedFile(a) \/ Swap(a)
    \/ Discard(a) \/ WriteFails(a)

Next ==
    \/ /\ \E a \in Actors, t \in Tenants : Call(a, t)
       /\ disturbed' = (disturbed \/ \E a \in Actors : ~ At(a, "idle") \/ EditsBase(a)')
    \/ /\ \E a \in Actors, t \in Tenants : BlindCall(a, t)
       /\ disturbed' = TRUE
    \/ /\ \E a \in Actors : Step(a)
       /\ disturbed' = (disturbed \/ failures' > failures)
    \/ (Restart \/ Tick) /\ UNCHANGED disturbed

Spec == Init /\ [][Next]_vars

-----------------------------------------------------------------------------
(* Properties. *)

Entry == [status : Status, notes : SUBSET Notes, file : Files] \cup {Absent}

Labels == {"idle", "archive", "write", "index", "write revision", "index revision", "delete",
           "hide", "remove", "forget", "write archived", "set status", "replace", "drop file",
           "swap", "discard"}

Operation == [step : Labels, tenant : Tenants \cup {Base}, e : Entry, other : Files \cup {NoFile}]

TypeOK ==
    /\ disk     \in [Files -> Page \cup {NoPage}]
    /\ past     \in [Files -> [0 .. MaxSec -> SUBSET Notes]]
    /\ system   \in Entry
    /\ entry    \in [Tenants -> Entry]
    /\ revision \in [Tenants -> Entry]
    /\ op       \in [Actors -> Operation]
    /\ fresh \subseteq Notes /\ approved \subseteq Notes
    /\ now \in 0 .. MaxSec /\ failures \in 0 .. MaxFailures
    /\ trusted \in [Tenants -> SUBSET Notes] /\ disturbed \in BOOLEAN

(* The gate of the review: the agent is never shown a text that no human   *)
(* wrote or approved, whatever runs together, fails or is restarted.       *)
AgentSeesOnlyApproved == \A t \in Tenants : AgentSees(t) \subseteq approved

(* What a human wrote or approved stays on disk, verified, until a human   *)
(* replaces or deletes it: no revision, rejection or crash takes it away   *)
(* from the next start (retriever.go:411, "the verified version stays as   *)
(* it is and in effect; on rejection the revision is discarded"), as long  *)
(* as one call runs at a time, writes succeed, nothing is observed and the *)
(* baseline's page is not edited.                                          *)
KnowledgeSurvives ==
    ~ disturbed => \A t \in Tenants :
        trusted[t] # {} => disk[Active(t)] = [status |-> "verified", notes |-> trusted[t]]

(* Between operations a restart changes nothing the agent is shown, under  *)
(* the same condition.                                                     *)
RestartIsNeutral ==
    (~ disturbed /\ \A a \in Actors : At(a, "idle")) =>
        system = LoadEntry(Base) /\ \A t \in Tenants : entry[t] = LoadEntry(t)

=============================================================================
