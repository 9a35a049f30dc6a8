--------------------------- MODULE WikiReviewProofs ---------------------------
(***************************************************************************)
(* The gate of the review, for any number of tenants, actors, texts,       *)
(* revisions, failed writes and restarts.                                  *)
(***************************************************************************)
EXTENDS WikiReview, TLAPS, WellFoundedInduction

(* A version that the agent would be shown is made of approved notes. *)
Clean(p) == p.status = "verified" => p.notes \subseteq approved

(* TypeOK without op, and what is clean of it. *)
StoreTyped ==
    /\ disk     \in [Files -> Page \cup {NoPage}]
    /\ past     \in [Files -> [0 .. MaxSec -> SUBSET Notes]]
    /\ system   \in Entry
    /\ entry    \in [Tenants -> Entry]
    /\ revision \in [Tenants -> Entry]
    /\ fresh \subseteq Notes /\ approved \subseteq Notes
    /\ now \in 0 .. MaxSec /\ failures \in 0 .. MaxFailures
    /\ trusted \in [Tenants -> SUBSET Notes]

StoreClean ==
    /\ \A f \in Files : Clean(disk[f])
    /\ Clean(system)
    /\ \A t \in Tenants : Clean(entry[t])

(* What an operation in flight holds: a tenant, and the entry to archive.  *)
Fits(o) == /\ o.step # "idle" => o.tenant \in Tenants
           /\ o.step \in {"write archived", "set status"} => Exists(o.e)

OpsFit == op \in [Actors -> Operation] /\ \A a \in Actors : Fits(op[a]) /\ Clean(op[a].e)

Gate == StoreTyped /\ StoreClean /\ OpsFit

WikiInv == Gate /\ disturbed \in BOOLEAN

-----------------------------------------------------------------------------

(* A set of numbers up to a bound has a largest one. *)
LEMMA Largest ==
  ASSUME NEW k \in Nat, NEW U \in SUBSET (1 .. k), U # {}
  PROVE  \E n \in U : \A m \in U : m <= n
<1> DEFINE V == {k - n : n \in U}
<1>1. V \subseteq Nat
  <2>1. \A n \in U : k - n \in Nat  OBVIOUS
  <2> QED  BY <2>1
<1>2. V # {}  OBVIOUS
<1>3. PICK x \in V : \A y \in V : ~ (<<y, x>> \in OpToRel(<, Nat))
  <2> HIDE DEF V
  <2> QED  BY <1>1, <1>2, WFMin, NatLessThanWellFounded
<1>4. \A y \in V : ~ (y < x)
  <2> HIDE DEF V
  <2> QED  BY <1>1, <1>3 DEF OpToRel
<1>5. PICK n \in U : x = k - n  OBVIOUS
<1>6. \A m \in U : ~ (k - m < x)  BY <1>4
<1>7. \A m \in U : m <= n  BY <1>5, <1>6
<1> QED  BY <1>7

(* The file of a new revision, and the revision found at a start. *)
LEMMA RevisionTyped ==
  ASSUME OpsFit, NEW t \in Tenants, RoomForRevision(t), NEW ns \in SUBSET Notes
  PROVE  /\ NewRevision(t, ns) \in Entry
         /\ \E n \in 1 .. MaxRevs : NewRevision(t, ns).file = <<t, n>>
<1> DEFINE U == {n \in 1 .. MaxRevs : \/ disk[<<t, n>>] # NoPage
                                      \/ \E a \in Actors : op[a].e.file = <<t, n>>}
           last == IF U = {} THEN 0 ELSE CHOOSE n \in U : \A m \in U : m <= n
<1>1. MaxRevs \in Nat \ {0} /\ MaxRevs \notin U  BY BoundsAreNat DEF RoomForRevision
<1>2. last \in 0 .. (MaxRevs - 1)
  <2>1. CASE U = {}  BY <1>1, <2>1
  <2>2. CASE U # {}
    <3>1. \E n \in U : \A m \in U : m <= n
      <4>1. U \in SUBSET (1 .. MaxRevs)  OBVIOUS
      <4> HIDE DEF U
      <4> QED  BY <1>1, <2>2, <4>1, Largest
    <3>2. last \in U  BY <2>2, <3>1
    <3>3. last \in 1 .. MaxRevs /\ last # MaxRevs  BY <1>1, <3>2
    <3> HIDE DEF last
    <3> QED  BY <1>1, <3>3
  <2> QED  BY <2>1, <2>2
<1>3. NewRevision(t, ns) = [status |-> "pending_review", notes |-> ns, file |-> <<t, last + 1>>]
  BY DEF NewRevision, NewRevisionAt
<1> HIDE DEF last
<1>4. last + 1 \in 1 .. MaxRevs /\ <<t, last + 1>> \in Files
  <2>1. last + 1 \in 1 .. MaxRevs /\ last + 1 \in 0 .. MaxRevs
    <3> HIDE DEF U
    <3> QED  BY <1>1, <1>2
  <2> QED  BY <2>1 DEF Files
<1>5. NewRevision(t, ns) \in Entry  BY <1>3, <1>4 DEF Entry, Status
<1>6. NewRevision(t, ns).file = <<t, last + 1>>  BY <1>3
<1> QED  BY <1>4, <1>5, <1>6

LEMMA LoadedTyped ==
  ASSUME StoreTyped, NEW o \in Tenants \cup {Base}
  PROVE  /\ LoadEntry(o) \in Entry /\ LoadRevision(o) \in Entry
         /\ \/ LoadRevision(o) = Absent
            \/ \E n \in 1 .. MaxRevs : LoadRevision(o).file = <<o, n>>
<1> DEFINE U == {n \in 1 .. MaxRevs : disk[<<o, n>>] # NoPage}
           last == CHOOSE n \in U : \A m \in U : m <= n
<1>1. MaxRevs \in Nat  BY BoundsAreNat
<1>2. LoadEntry(o) \in Entry
  <2>1. Active(o) \in Files  BY <1>1 DEF Active, Files
  <2> QED  BY <2>1 DEF LoadEntry, StoreTyped, Entry, Page, Absent
<1>3. CASE U = {}
  <2>1. LoadRevision(o) = Absent  BY <1>3 DEF LoadRevision
  <2> QED  BY <1>2, <2>1 DEF Entry
<1>4. CASE U # {}
  <2>1. \E n \in U : \A m \in U : m <= n
    <3>1. U \in SUBSET (1 .. MaxRevs)  OBVIOUS
    <3> HIDE DEF U
    <3> QED  BY <1>1, <1>4, <3>1, Largest
  <2>2. last \in U  BY <2>1
  <2>3. last \in 1 .. MaxRevs /\ last \in 0 .. MaxRevs /\ disk[<<o, last>>] # NoPage
    BY <1>1, <2>2
  <2>4. LoadRevision(o) = [status |-> "pending_review", notes |-> disk[<<o, last>>].notes,
                           file |-> <<o, last>>]
    BY <1>4 DEF LoadRevision
  <2> HIDE DEF last
  <2>5. <<o, last>> \in Files  BY <2>3 DEF Files
  <2>6. disk[<<o, last>>] \in Page  BY <2>3, <2>5 DEF StoreTyped
  <2>7. disk[<<o, last>>].notes \in SUBSET Notes  BY <2>6 DEF Page
  <2>8. LoadRevision(o) \in Entry  BY <2>4, <2>5, <2>7 DEF Entry, Status
  <2>9. LoadRevision(o).file = <<o, last>>  BY <2>4
  <2> QED  BY <1>2, <2>3, <2>8, <2>9
<1> QED  BY <1>3, <1>4

LEMMA GateInit == Init => WikiInv
<1> SUFFICES ASSUME Init PROVE WikiInv  OBVIOUS
<1>1. MaxRevs \in Nat /\ MaxSec \in Nat /\ MaxFailures \in Nat  BY BoundsAreNat
<1>2. Active(Base) \in Files  BY <1>1 DEF Active, Files
<1>3. BaseNotes \subseteq Notes /\ HumanNotes \cup AgentNotes \subseteq Notes  BY DEF Notes
<1>4. disk \in [Files -> Page \cup {NoPage}] /\ \A f \in Files : Clean(disk[f])
  BY <1>2, <1>3 DEF Init, Page, NoPage, Status, Clean
<1>5. system \in Entry /\ Clean(system)
  BY <1>2, <1>3 DEF Init, Entry, Absent, Status, Clean
<1>6. Absent \in Entry /\ Clean(Absent)  BY DEF Entry, Absent, Clean
<1>7. op \in [Actors -> Operation] /\ \A a \in Actors : Fits(op[a]) /\ Clean(op[a].e)
  BY <1>6 DEF Init, Idle, Operation, Labels, Fits
<1>8. past \in [Files -> [0 .. MaxSec -> SUBSET Notes]]  BY DEF Init
<1>9. /\ entry \in [Tenants -> Entry] /\ revision \in [Tenants -> Entry]
      /\ trusted \in [Tenants -> SUBSET Notes]
      /\ \A t \in Tenants : Clean(entry[t])
  BY <1>6 DEF Init
<1>10. now \in 0 .. MaxSec /\ failures \in 0 .. MaxFailures  BY <1>1 DEF Init
<1>11. fresh \subseteq Notes /\ approved \subseteq Notes /\ disturbed \in BOOLEAN
  BY <1>3 DEF Init
<1>12. StoreTyped  BY <1>4, <1>5, <1>8, <1>9, <1>10, <1>11 DEF StoreTyped
<1>13. StoreClean  BY <1>4, <1>5, <1>9 DEF StoreClean
<1>14. OpsFit  BY <1>7 DEF OpsFit
<1> QED  BY <1>11, <1>12, <1>13, <1>14 DEF WikiInv, Gate

-----------------------------------------------------------------------------
(* What an actor does to its operation. *)

LEMMA BeginFits ==
  ASSUME OpsFit, NEW a \in Actors, NEW t \in Tenants, NEW s \in Labels, NEW e \in Entry,
         NEW other \in Files \cup {NoFile}, Begin(a, s, t, e, other),
         approved \subseteq approved',
         Visible(e) => e.notes \subseteq approved',
         s \in {"write archived", "set status"} => Exists(e)
  PROVE  OpsFit'
<1>1. [step |-> s, tenant |-> t, e |-> e, other |-> other] \in Operation  BY DEF Operation
<1>2. op' \in [Actors -> Operation]  BY <1>1 DEF OpsFit, Begin
<1>3. ASSUME NEW b \in Actors PROVE Fits(op'[b]) /\ Clean(op[b].e)'
  <2>1. CASE b = a
    <3>1. op'[b] = [step |-> s, tenant |-> t, e |-> e, other |-> other]
      BY <2>1 DEF OpsFit, Begin
    <3>2. op'[b].step = s /\ op'[b].tenant = t /\ op'[b].e = e
      <4> DEFINE o == [step |-> s, tenant |-> t, e |-> e, other |-> other]
      <4>1. o.step = s /\ o.tenant = t /\ o.e = e  OBVIOUS
      <4>2. op'[b] = o  BY <3>1
      <4> HIDE DEF o
      <4> QED  BY <4>1, <4>2
    <3>3. Fits(op'[b])  BY <3>2 DEF Fits
    <3>4. Clean(op[b].e)'  BY <3>2 DEF Clean, Visible
    <3> QED  BY <3>3, <3>4
  <2>2. CASE b # a
    <3>1. op'[b] = op[b]  BY <2>2 DEF OpsFit, Begin
    <3>2. Fits(op[b]) /\ Clean(op[b].e)  BY DEF OpsFit
    <3> QED  BY <3>1, <3>2 DEF Clean
  <2> QED  BY <2>1, <2>2
<1> QED  BY <1>2, <1>3 DEF OpsFit

LEMMA GotoFits ==
  ASSUME OpsFit, NEW a \in Actors, ~ At(a, "idle"), NEW s \in Labels, Goto(a, s),
         UNCHANGED approved, s # "set status", s = "write archived" => Exists(op[a].e)
  PROVE  OpsFit'
<1>1. op' \in [Actors -> Operation]  BY DEF OpsFit, Goto, Operation
<1>2. ASSUME NEW b \in Actors PROVE Fits(op'[b]) /\ Clean(op[b].e)'
  <2>1. Fits(op[b]) /\ Clean(op[b].e)  BY DEF OpsFit
  <2>2. CASE b = a
    <3>1. op'[b] = [op[b] EXCEPT !.step = s]  BY <2>2 DEF OpsFit, Goto
    <3>2. op'[b].step = s /\ op'[b].tenant = op[b].tenant /\ op'[b].e = op[b].e
      BY <3>1 DEF OpsFit, Operation
    <3> QED  BY <2>1, <2>2, <3>2 DEF Fits, Clean, At
  <2>3. CASE b # a
    <3>1. op'[b] = op[b]  BY <2>3 DEF OpsFit, Goto
    <3> QED  BY <2>1, <3>1 DEF Clean
  <2> QED  BY <2>2, <2>3
<1> QED  BY <1>1, <1>2 DEF OpsFit

LEMMA DoneFits ==
  ASSUME OpsFit, NEW a \in Actors, Done(a), UNCHANGED approved
  PROVE  OpsFit'
<1>1. Idle \in Operation /\ Fits(Idle) /\ Clean(Idle.e)
  BY DEF Idle, Operation, Labels, Entry, Absent, Fits, Clean
<1>2. op' \in [Actors -> Operation]  BY <1>1 DEF OpsFit, Done
<1>3. ASSUME NEW b \in Actors PROVE Fits(op'[b]) /\ Clean(op[b].e)'
  <2>1. op'[b] = Idle \/ op'[b] = op[b]  BY DEF OpsFit, Done
  <2> QED  BY <1>1, <2>1 DEF Clean, OpsFit
<1> QED  BY <1>2, <1>3 DEF OpsFit

-----------------------------------------------------------------------------
(* The calls change no file and no entry but the revision in memory. *)

LEMMA CallKeepsStore ==
  ASSUME Gate, UNCHANGED <<disk, past, system, entry, now, failures, trusted>>,
         fresh' \subseteq fresh, approved \subseteq approved', approved' \subseteq Notes,
         revision' \in [Tenants -> Entry]
  PROVE  StoreTyped' /\ StoreClean'
<1>1. StoreTyped'  BY DEF Gate, StoreTyped
<1>2. StoreClean'  BY DEF Gate, StoreClean, Clean
<1> QED  BY <1>1, <1>2

LEMMA GetTyped ==
  ASSUME Gate, NEW t \in Tenants
  PROVE  Get(t) \in Entry /\ Clean(Get(t)) /\ entry[t] \in Entry /\ revision[t] \in Entry
BY DEF Gate, StoreTyped, StoreClean, Get

(* A note that is written, as text of an agent or of a human. *)
LEMMA NewText ==
  ASSUME Gate, NEW t \in Tenants, NEW n \in HumanNotes \cup AgentNotes, Write(n)
  PROVE  /\ n \in Notes /\ fresh' \subseteq fresh
         /\ NewEntry(t, "pending_review", {n}) \in Entry
         /\ NewEntry(t, "pending_review", {n}).status = "pending_review"
         /\ Active(t) \in Files
<1>1. n \in Notes  BY DEF Notes
<1>2. Active(t) \in Files  BY BoundsAreNat DEF Active, Files
<1> QED  BY <1>1, <1>2 DEF NewEntry, Entry, Status, Write

LEMMA EnsureStep ==
  ASSUME Gate, NEW a \in Actors, NEW t \in Tenants, NEW n \in fresh, Ensure(a, t, n)
  PROVE  Gate'
<1>1. n \in AgentNotes /\ Write(n)  BY DEF Ensure
<1>2. /\ n \in Notes /\ fresh' \subseteq fresh
      /\ NewEntry(t, "pending_review", {n}) \in Entry
      /\ NewEntry(t, "pending_review", {n}).status = "pending_review"
  BY <1>1, NewText
<1>3. UNCHANGED <<storeVars, now, failures, approved, trusted>>  BY DEF Ensure, ghostVars
<1>4. StoreTyped' /\ StoreClean'
  BY <1>2, <1>3, CallKeepsStore DEF Gate, StoreTyped, storeVars
<1>5. CASE RoomForRevision(t) /\ Begin(a, "write revision", t, NewRevision(t, {n}), NoFile)
  <2>1. NewRevision(t, {n}) \in Entry  BY <1>2, <1>5, RevisionTyped DEF Gate
  <2>2. NewRevision(t, {n}).status = "pending_review"  BY DEF NewRevision, NewRevisionAt
  <2> QED  BY <1>3, <1>4, <1>5, <2>1, <2>2, BeginFits DEF Gate, Labels, Visible
<1>6. CASE Begin(a, "archive", t, NewEntry(t, "pending_review", {n}), NoFile)
  BY <1>2, <1>3, <1>4, <1>6, BeginFits DEF Gate, Labels, Visible
<1> QED  BY <1>5, <1>6 DEF Ensure

LEMMA ObserveStep ==
  ASSUME Gate, NEW a \in Actors, NEW t \in Tenants, NEW n \in fresh, Observe(a, t, n)
  PROVE  Gate'
<1> DEFINE e == [Get(t) EXCEPT !.notes = @ \cup {n}]
           p == [e EXCEPT !.status = "pending_review"]
<1>1. n \in AgentNotes /\ Write(n)  BY DEF Observe
<1>2. /\ n \in Notes /\ fresh' \subseteq fresh
      /\ NewEntry(t, "pending_review", {n}) \in Entry
      /\ NewEntry(t, "pending_review", {n}).status = "pending_review"
  BY <1>1, NewText
<1>3. UNCHANGED <<storeVars, now, failures, approved, trusted>>  BY DEF Observe, ghostVars
<1>4. StoreTyped' /\ StoreClean'
  BY <1>2, <1>3, CallKeepsStore DEF Gate, StoreTyped, storeVars
<1>5. Exists(Get(t)) => e \in Entry /\ p \in Entry /\ e.status = Get(t).status
                        /\ p.status = "pending_review"
  <2> SUFFICES ASSUME Exists(Get(t))
               PROVE  e \in Entry /\ p \in Entry /\ e.status = Get(t).status
                      /\ p.status = "pending_review"
    OBVIOUS
  <2>1. Get(t) \in [status : Status, notes : SUBSET Notes, file : Files]
    BY GetTyped DEF Exists, Entry, Absent
  <2>2. e = [status |-> Get(t).status, notes |-> Get(t).notes \cup {n}, file |-> Get(t).file]
    BY <2>1
  <2>3. p = [status |-> "pending_review", notes |-> Get(t).notes \cup {n}, file |-> Get(t).file]
    <3> HIDE DEF e
    <3> QED  BY <2>2
  <2>4. Get(t).notes \cup {n} \subseteq Notes /\ Get(t).file \in Files /\ Get(t).status \in Status
    BY <1>2, <2>1
  <2> HIDE DEF e, p
  <2> QED  BY <2>2, <2>3, <2>4 DEF Entry, Status
<1> HIDE DEF e, p
<1>6. CASE Visible(Get(t)) /\ Begin(a, "write revision", t, p, NoFile)
  <2>1. Exists(Get(t))  BY <1>6 DEF Visible, Exists
  <2> QED  BY <1>3, <1>4, <1>5, <1>6, <2>1, BeginFits DEF Gate, Labels, Visible
<1>7. CASE Exists(Get(t)) /\ ~ Visible(Get(t)) /\ Begin(a, "archive", t, e, NoFile)
  BY <1>3, <1>4, <1>5, <1>7, BeginFits DEF Gate, Labels, Visible
<1>8. CASE Begin(a, "archive", t, NewEntry(t, "pending_review", {n}), NoFile)
  BY <1>2, <1>3, <1>4, <1>8, BeginFits DEF Gate, Labels, Visible
<1> QED  BY <1>6, <1>7, <1>8 DEF Observe, e, p

LEMMA ConsolidateStep ==
  ASSUME Gate, NEW a \in Actors, NEW t \in Tenants, NEW n \in fresh, Consolidate(a, t, n)
  PROVE  Gate'
<1>1. n \in AgentNotes /\ Write(n)  BY DEF Consolidate
<1>2. /\ fresh' \subseteq fresh
      /\ NewEntry(t, "pending_review", {n}) \in Entry
      /\ NewEntry(t, "pending_review", {n}).status = "pending_review"
  BY <1>1, NewText
<1>3. UNCHANGED <<storeVars, now, failures, approved, trusted>>  BY DEF Consolidate, ghostVars
<1>4. StoreTyped' /\ StoreClean'
  BY <1>2, <1>3, CallKeepsStore DEF Gate, StoreTyped, storeVars
<1>5. Begin(a, "archive", t, NewEntry(t, "pending_review", {n}), NoFile)  BY DEF Consolidate
<1> QED  BY <1>2, <1>3, <1>4, <1>5, BeginFits DEF Gate, Labels, Visible

LEMMA HumanEditStep ==
  ASSUME Gate, NEW a \in Actors, NEW t \in Tenants, NEW n \in fresh, HumanEdit(a, t, n)
  PROVE  Gate'
<1> DEFINE file == IF Exists(Get(t)) THEN Get(t).file ELSE Active(t)
           e == [status |-> "verified", notes |-> {n}, file |-> file]
<1>1. n \in HumanNotes /\ Write(n)  BY DEF HumanEdit
<1>2. n \in Notes /\ fresh' \subseteq fresh /\ Active(t) \in Files  BY <1>1, NewText
<1>3. /\ UNCHANGED <<storeVars, now, failures, trusted>> /\ approved' = approved \cup {n}
      /\ Begin(a, "archive", t, e, NoFile)
  BY DEF HumanEdit
<1>4. StoreTyped' /\ StoreClean'
  BY <1>2, <1>3, CallKeepsStore DEF Gate, StoreTyped, storeVars
<1>5. file \in Files  BY <1>2, GetTyped DEF Exists, Entry, Absent
<1>6. e \in Entry  BY <1>2, <1>5 DEF Entry, Status
<1>7. e.notes \subseteq approved'  BY <1>3
<1> HIDE DEF e
<1> QED  BY <1>3, <1>4, <1>6, <1>7, BeginFits DEF Gate, Labels

LEMMA RemoveStep ==
  ASSUME Gate, NEW a \in Actors, NEW t \in Tenants, NEW s \in {"delete", "hide"},
         Remove(a, t, s), UNCHANGED <<disk, past, system, entry, fresh, now, failures, ghostVars>>
  PROVE  Gate'
<1>1. entry[t] \in Entry /\ revision[t] \in Entry /\ Clean(entry[t])
  BY GetTyped DEF Gate, StoreClean
<1>2. revision[t].file \in Files \cup {NoFile} /\ Absent \in Entry
  BY <1>1 DEF Entry, Absent
<1>3. revision' \in [Tenants -> Entry]  BY <1>2 DEF Gate, StoreTyped, Remove
<1>4. approved \subseteq Notes /\ UNCHANGED <<approved, trusted>>
  BY DEF Gate, StoreTyped, ghostVars
<1>5. StoreTyped' /\ StoreClean'  BY <1>3, <1>4, CallKeepsStore
<1>6. Begin(a, s, t, entry[t], revision[t].file)  BY DEF Remove
<1> QED  BY <1>1, <1>2, <1>4, <1>5, <1>6, BeginFits DEF Gate, Labels, Visible, Clean

LEMMA ApproveStep ==
  ASSUME Gate, NEW a \in Actors, NEW t \in Tenants, Approve(a, t)
  PROVE  Gate'
<1> DEFINE rev == revision[t]
           e == IF Exists(rev) THEN [rev EXCEPT !.status = "verified", !.file = Home(t)]
                ELSE [entry[t] EXCEPT !.status = "verified"]
<1>1. entry[t] \in Entry /\ rev \in Entry  BY GetTyped
<1>2. Home(t) \in Files
  <2>1. Active(t) \in Files  BY BoundsAreNat DEF Active, Files
  <2> QED  BY <1>1, <2>1 DEF Home, Exists, Entry, Absent
<1>3. /\ Exists(rev) \/ Exists(entry[t])
      /\ IF Exists(rev) THEN Begin(a, "replace", t, e, rev.file)
                        ELSE Begin(a, "set status", t, e, NoFile)
      /\ approved' = approved \cup e.notes
      /\ UNCHANGED <<storeVars, fresh, now, failures, trusted>>
  BY DEF Approve
<1>4. e \in Entry /\ Exists(e)
  <2>1. CASE Exists(rev)
    <3>1. rev \in [status : Status, notes : SUBSET Notes, file : Files]
      BY <1>1, <2>1 DEF Entry, Exists, Absent
    <3>2. e = [status |-> "verified", notes |-> rev.notes, file |-> Home(t)]  BY <2>1, <3>1
    <3> QED  BY <1>2, <3>1, <3>2 DEF Entry, Status, Exists
  <2>2. CASE ~ Exists(rev)
    <3>0. Exists(entry[t])  BY <1>3, <2>2
    <3>1. entry[t] \in [status : Status, notes : SUBSET Notes, file : Files]
      BY <1>1, <3>0 DEF Entry, Exists, Absent
    <3>2. e = [status |-> "verified", notes |-> entry[t].notes, file |-> entry[t].file]
      BY <2>2, <3>1
    <3> QED  BY <3>1, <3>2 DEF Entry, Status, Exists
  <2> QED  BY <2>1, <2>2
<1>5. rev.file \in Files \cup {NoFile}  BY <1>1 DEF Entry, Absent
<1>6. e.notes \subseteq Notes  BY <1>4 DEF Entry, Absent
<1> HIDE DEF e, rev
<1>7. approved \subseteq Notes /\ approved' \subseteq Notes
  BY <1>3, <1>6 DEF Gate, StoreTyped
<1>8. StoreTyped' /\ StoreClean'
  BY <1>3, <1>7, CallKeepsStore DEF Gate, StoreTyped, storeVars
<1>9. OpsFit'
  <2>1. e.notes \subseteq approved' /\ approved \subseteq approved'  BY <1>3
  <2>2. CASE Exists(rev)
    <3>1. Begin(a, "replace", t, e, rev.file)  BY <1>3, <2>2
    <3> QED  BY <1>4, <1>5, <2>1, <3>1, BeginFits DEF Gate, Labels
  <2>3. CASE ~ Exists(rev)
    <3>1. Begin(a, "set status", t, e, NoFile)  BY <1>3, <2>3
    <3> QED  BY <1>4, <2>1, <3>1, BeginFits DEF Gate, Labels
  <2> QED  BY <2>2, <2>3
<1> QED  BY <1>8, <1>9 DEF Gate

LEMMA RejectStep ==
  ASSUME Gate, NEW a \in Actors, NEW t \in Tenants, Reject(a, t)
  PROVE  Gate'
<1>1. UNCHANGED <<disk, past, system, entry, fresh, now, failures, ghostVars>>  BY DEF Reject
<1>2. CASE Remove(a, t, "delete")  BY <1>1, <1>2, RemoveStep
<1>3. CASE ~ Remove(a, t, "delete")
  <2>1. /\ revision' = [revision EXCEPT ![t] = Absent]
        /\ Begin(a, "discard", t, Absent, revision[t].file)
    BY <1>3 DEF Reject
  <2>2. Absent \in Entry /\ ~ Visible(Absent)  BY DEF Absent, Entry, Visible
  <2>3. revision[t].file \in Files \cup {NoFile}  BY GetTyped DEF Entry, Absent
  <2>4. revision' \in [Tenants -> Entry]  BY <2>1, <2>2 DEF Gate, StoreTyped
  <2>5. approved \subseteq Notes /\ UNCHANGED <<approved, trusted>>
    BY <1>1 DEF Gate, StoreTyped, ghostVars
  <2>6. StoreTyped' /\ StoreClean'  BY <1>1, <2>4, <2>5, CallKeepsStore
  <2>7. OpsFit'  BY <2>1, <2>2, <2>3, <2>5, BeginFits DEF Gate, Labels
  <2> QED  BY <2>6, <2>7 DEF Gate
<1> QED  BY <1>2, <1>3

-----------------------------------------------------------------------------
(* The steps of an operation: which of them keep files and entries clean. *)

DiskGood    == disk \in [Files -> Page \cup {NoPage}] /\ \A f \in Files : Clean(disk[f])
EntriesGood == entry \in [Tenants -> Entry] /\ \A t \in Tenants : Clean(entry[t])

LEMMA StepKeepsStore ==
  ASSUME Gate, DiskGood', EntriesGood', past' \in [Files -> [0 .. MaxSec -> SUBSET Notes]],
         revision' \in [Tenants -> Entry], trusted' \in [Tenants -> SUBSET Notes],
         failures' \in 0 .. MaxFailures, UNCHANGED <<system, fresh, now, approved>>
  PROVE  StoreTyped' /\ StoreClean'
<1>1. StoreTyped'  BY DEF Gate, StoreTyped, DiskGood, EntriesGood
<1>2. Clean(system)'  BY DEF Gate, StoreClean, Clean
<1>3. StoreClean'  BY <1>2 DEF StoreClean, DiskGood, EntriesGood
<1> QED  BY <1>1, <1>3

(* What the gate says of an operation, and of what no step changed.        *)
LEMMA InFlight ==
  ASSUME Gate, NEW a \in Actors
  PROVE  /\ op[a].e \in Entry /\ Clean(op[a].e) /\ op[a].e.notes \in SUBSET Notes
         /\ ~ At(a, "idle") => op[a].tenant \in Tenants
         /\ op[a].other \in Files \cup {NoFile}
         /\ At(a, "write archived") \/ At(a, "set status") => Exists(op[a].e)
<1>1. op[a] \in Operation /\ Fits(op[a]) /\ Clean(op[a].e)  BY DEF Gate, OpsFit
<1>2. op[a].e \in Entry /\ op[a].other \in Files \cup {NoFile}  BY <1>1 DEF Operation
<1>3. op[a].e.notes \in SUBSET Notes  BY <1>2 DEF Entry, Absent
<1> QED  BY <1>1, <1>2, <1>3 DEF Fits, At

LEMMA Unchanged ==
  ASSUME Gate, UNCHANGED approved
  PROVE  /\ UNCHANGED disk => DiskGood'
         /\ UNCHANGED entry => EntriesGood'
         /\ UNCHANGED past => past' \in [Files -> [0 .. MaxSec -> SUBSET Notes]]
         /\ UNCHANGED revision => revision' \in [Tenants -> Entry]
         /\ UNCHANGED trusted => trusted' \in [Tenants -> SUBSET Notes]
         /\ UNCHANGED failures => failures' \in 0 .. MaxFailures
<1>1. /\ UNCHANGED past => past' \in [Files -> [0 .. MaxSec -> SUBSET Notes]]
      /\ UNCHANGED revision => revision' \in [Tenants -> Entry]
      /\ UNCHANGED trusted => trusted' \in [Tenants -> SUBSET Notes]
      /\ UNCHANGED failures => failures' \in 0 .. MaxFailures
  BY DEF Gate, StoreTyped
<1>2. UNCHANGED disk => DiskGood'  BY DEF Gate, StoreTyped, StoreClean, DiskGood, Clean
<1>3. UNCHANGED entry => EntriesGood'  BY DEF Gate, StoreTyped, StoreClean, EntriesGood, Clean
<1> QED  BY <1>1, <1>2, <1>3

LEMMA FileWritten ==
  ASSUME Gate, UNCHANGED approved, NEW e \in Entry, Clean(e), NEW g,
         disk' = [disk EXCEPT ![g] = OnDisk(e)]
  PROVE  DiskGood'
<1>1. OnDisk(e) \in Page \cup {NoPage}
  <2>1. CASE e = Absent  BY <2>1 DEF OnDisk, Absent, NoPage
  <2>2. CASE e # Absent  BY <2>2 DEF OnDisk, Entry, Page
  <2> QED  BY <2>1, <2>2
<1>2. Clean(OnDisk(e))  BY DEF OnDisk, Clean
<1>3. disk' \in [Files -> Page \cup {NoPage}]  BY <1>1 DEF Gate, StoreTyped
<1>4. ASSUME NEW f \in Files PROVE Clean(disk[f])'
  <2>1. disk'[f] = OnDisk(e) \/ disk'[f] = disk[f]  BY DEF Gate, StoreTyped
  <2>2. Clean(disk[f])  BY DEF Gate, StoreClean
  <2> QED  BY <1>2, <2>1, <2>2 DEF Clean
<1> QED  BY <1>3, <1>4 DEF DiskGood

LEMMA FileRemoved ==
  ASSUME Gate, UNCHANGED approved, NEW g, disk' = WithoutFile(g)
  PROVE  DiskGood'
<1>1. CASE g = NoFile  BY <1>1, Unchanged DEF WithoutFile
<1>2. CASE g # NoFile
  <2>1. disk' = [disk EXCEPT ![g] = NoPage]  BY <1>2 DEF WithoutFile
  <2>2. disk' \in [Files -> Page \cup {NoPage}]  BY <2>1 DEF Gate, StoreTyped
  <2>3. ASSUME NEW f \in Files PROVE Clean(disk[f])'
    <3>1. disk'[f] = NoPage \/ disk'[f] = disk[f]  BY <2>1 DEF Gate, StoreTyped
    <3>2. Clean(disk[f])  BY DEF Gate, StoreClean
    <3>3. NoPage.status # "verified"  BY DEF NoPage
    <3> QED  BY <3>1, <3>2, <3>3 DEF Clean
  <2> QED  BY <2>2, <2>3 DEF DiskGood
<1> QED  BY <1>1, <1>2

LEMMA EntryReplaced ==
  ASSUME Gate, UNCHANGED approved, NEW e \in Entry, Clean(e), NEW t,
         entry' = [entry EXCEPT ![t] = e]
  PROVE  EntriesGood'
<1>1. entry' \in [Tenants -> Entry]  BY DEF Gate, StoreTyped
<1>2. ASSUME NEW u \in Tenants PROVE Clean(entry[u])'
  <2>1. entry'[u] = e \/ entry'[u] = entry[u]  BY DEF Gate, StoreTyped
  <2>2. Clean(entry[u])  BY DEF Gate, StoreClean
  <2> QED  BY <2>1, <2>2 DEF Clean
<1> QED  BY <1>1, <1>2 DEF EntriesGood

(* A status is written through a pointer to the entry of a tenant.         *)
LEMMA PointerWritten ==
  ASSUME Gate, UNCHANGED approved, NEW t \in Tenants, NEW e \in Entry, NEW s \in Status,
         s = "verified" => Clean(e) /\ e.status = s,
         entry' = IF SameEntry(entry[t], e) THEN [entry EXCEPT ![t].status = s] ELSE entry
  PROVE  EntriesGood'
<1>1. CASE SameEntry(entry[t], e)
  <2> DEFINE old == entry[t]
             new == [status |-> s, notes |-> old.notes, file |-> old.file]
  <2>1. old \in [status : Status, notes : SUBSET Notes, file : Files]
    BY <1>1 DEF Gate, StoreTyped, Entry, SameEntry, Exists, Absent
  <2>2. [old EXCEPT !.status = s] = new  BY <2>1
  <2>3. new \in Entry  BY <2>1 DEF Entry
  <2>4. Clean(new)  BY <1>1 DEF Clean, SameEntry
  <2>5. entry' = [entry EXCEPT ![t] = new]
    <3>1. entry' = [entry EXCEPT ![t] = [old EXCEPT !.status = s]]  BY <1>1
    <3> HIDE DEF new, old
    <3> QED  BY <2>2, <3>1
  <2> HIDE DEF new
  <2> QED  BY <2>3, <2>4, <2>5, EntryReplaced
<1>2. CASE ~ SameEntry(entry[t], e)  BY <1>2, Unchanged
<1> QED  BY <1>1, <1>2

LEMMA TrustedTyped ==
  ASSUME Gate, NEW t, NEW ns \in SUBSET Notes, trusted' = [trusted EXCEPT ![t] = ns]
  PROVE  trusted' \in [Tenants -> SUBSET Notes]
BY DEF Gate, StoreTyped

LEMMA PointerSetGood ==
  ASSUME Gate, NEW a \in Actors, ~ At(a, "idle"), Exists(op[a].e), PointerSet(a),
         UNCHANGED approved
  PROVE  EntriesGood'
<1>1. op[a].tenant \in Tenants /\ op[a].e \in Entry /\ Clean(op[a].e)  BY InFlight
<1>2. op[a].e.status \in Status  BY <1>1 DEF Entry, Absent, Exists
<1> QED  BY <1>1, <1>2, PointerWritten DEF PointerSet

-----------------------------------------------------------------------------
(* One lemma per step. *)

LEMMA ArchiveOldStep == ASSUME Gate, NEW a \in Actors, ArchiveOld(a) PROVE Gate'
<1> DEFINE old == entry[op[a].tenant]
<1>1. UNCHANGED <<disk, system, entry, revision, fresh, now, failures, approved, trusted>>
  BY DEF ArchiveOld, ghostVars
<1>2. old \in Entry  BY InFlight DEF Gate, StoreTyped, ArchiveOld, At
<1>3. past' \in [Files -> [0 .. MaxSec -> SUBSET Notes]]
  <2>1. past \in [Files -> [0 .. MaxSec -> SUBSET Notes]]  BY DEF Gate, StoreTyped
  <2>2. CASE Exists(old) /\ old.notes # op[a].e.notes
    <3>1. old.file \in Files /\ old.notes \in SUBSET Notes
      BY <1>2, <2>2 DEF Entry, Exists, Absent
    <3>2. past' = [past EXCEPT ![old.file][now] = old.notes]  BY <2>2 DEF ArchiveOld
    <3> HIDE DEF old
    <3> QED  BY <2>1, <3>1, <3>2
  <2>3. CASE ~ (Exists(old) /\ old.notes # op[a].e.notes)  BY <2>1, <2>3 DEF ArchiveOld
  <2> QED  BY <2>2, <2>3
<1>4. StoreTyped' /\ StoreClean'
  <2>1. failures' \in 0 .. MaxFailures /\ DiskGood' /\ EntriesGood'
        /\ revision' \in [Tenants -> Entry] /\ trusted' \in [Tenants -> SUBSET Notes]
    BY <1>1, Unchanged
  <2> QED  BY <1>1, <1>3, <2>1, StepKeepsStore
<1>5. OpsFit'  BY <1>1, GotoFits DEF Gate, ArchiveOld, At, Labels
<1> QED  BY <1>4, <1>5 DEF Gate

LEMMA WriteEntryStep == ASSUME Gate, NEW a \in Actors, WriteEntry(a) PROVE Gate'
<1>1. UNCHANGED <<past, system, entry, revision, fresh, now, failures, approved>>
  BY DEF WriteEntry
<1>2. DiskGood'  BY <1>1, InFlight, FileWritten DEF WriteEntry
<1>3. trusted' \in [Tenants -> SUBSET Notes]
  BY <1>1, InFlight, TrustedTyped, Unchanged DEF WriteEntry
<1>4. StoreTyped' /\ StoreClean'  BY <1>1, <1>2, <1>3, Unchanged, StepKeepsStore
<1>5. OpsFit'  BY <1>1, GotoFits DEF Gate, WriteEntry, At, Labels
<1> QED  BY <1>4, <1>5 DEF Gate

LEMMA IndexEntryStep == ASSUME Gate, NEW a \in Actors, IndexEntry(a) PROVE Gate'
<1>1. UNCHANGED <<disk, past, system, revision, fresh, now, failures, approved, trusted>>
  BY DEF IndexEntry, ghostVars
<1>2. EntriesGood'  BY <1>1, InFlight, EntryReplaced, Unchanged DEF IndexEntry
<1>3. StoreTyped' /\ StoreClean'  BY <1>1, <1>2, Unchanged, StepKeepsStore
<1>4. OpsFit'  BY <1>1, DoneFits DEF Gate, IndexEntry
<1> QED  BY <1>3, <1>4 DEF Gate

LEMMA WriteRevisionStep == ASSUME Gate, NEW a \in Actors, WriteRevision(a) PROVE Gate'
<1>1. UNCHANGED <<past, system, entry, revision, fresh, now, failures, approved, trusted>>
  BY DEF WriteRevision, ghostVars
<1>2. DiskGood'  BY <1>1, InFlight, FileWritten DEF WriteRevision
<1>3. StoreTyped' /\ StoreClean'  BY <1>1, <1>2, Unchanged, StepKeepsStore
<1>4. OpsFit'  BY <1>1, GotoFits DEF Gate, WriteRevision, At, Labels
<1> QED  BY <1>3, <1>4 DEF Gate

LEMMA IndexRevisionStep == ASSUME Gate, NEW a \in Actors, IndexRevision(a) PROVE Gate'
<1>1. UNCHANGED <<past, system, entry, fresh, now, failures, approved, trusted>>
  BY DEF IndexRevision, ghostVars
<1>2. DiskGood'  BY <1>1, FileRemoved, Unchanged DEF IndexRevision
<1>3. revision' \in [Tenants -> Entry]  BY InFlight DEF Gate, StoreTyped, IndexRevision
<1>4. StoreTyped' /\ StoreClean'  BY <1>1, <1>2, <1>3, Unchanged, StepKeepsStore
<1>5. OpsFit'  BY <1>1, DoneFits DEF Gate, IndexRevision
<1> QED  BY <1>4, <1>5 DEF Gate

LEMMA DropRevisionFileStep ==
  ASSUME Gate, NEW a \in Actors, DropRevisionFile(a) PROVE Gate'
<1>1. UNCHANGED <<past, system, entry, revision, fresh, now, failures, approved, trusted>>
  BY DEF DropRevisionFile, ghostVars
<1>2. DiskGood'  BY <1>1, FileRemoved DEF DropRevisionFile
<1>3. StoreTyped' /\ StoreClean'  BY <1>1, <1>2, Unchanged, StepKeepsStore
<1>4. CASE Exists(op[a].e) /\ Goto(a, "remove")
  BY <1>1, <1>3, <1>4, GotoFits DEF Gate, DropRevisionFile, At, Labels
<1>5. CASE Exists(op[a].e) /\ Goto(a, "write archived")
  BY <1>1, <1>3, <1>5, GotoFits DEF Gate, DropRevisionFile, At, Labels
<1>6. CASE Done(a)  BY <1>1, <1>3, <1>6, DoneFits DEF Gate
<1> QED  BY <1>4, <1>5, <1>6 DEF DropRevisionFile

LEMMA RemoveFileStep == ASSUME Gate, NEW a \in Actors, RemoveFile(a) PROVE Gate'
<1>1. UNCHANGED <<past, system, entry, revision, fresh, now, failures, approved>>
  BY DEF RemoveFile
<1>2. DiskGood'  BY <1>1, FileRemoved DEF RemoveFile
<1>3. trusted' \in [Tenants -> SUBSET Notes]  BY TrustedTyped DEF RemoveFile
<1>4. StoreTyped' /\ StoreClean'  BY <1>1, <1>2, <1>3, Unchanged, StepKeepsStore
<1>5. OpsFit'  BY <1>1, GotoFits DEF Gate, RemoveFile, At, Labels
<1> QED  BY <1>4, <1>5 DEF Gate

LEMMA ForgetStep == ASSUME Gate, NEW a \in Actors, Forget(a) PROVE Gate'
<1>1. UNCHANGED <<disk, past, system, revision, fresh, now, failures, approved, trusted>>
  BY DEF Forget, ghostVars
<1>2. Absent \in Entry /\ Clean(Absent)  BY DEF Entry, Absent, Clean
<1>3. EntriesGood'  BY <1>1, <1>2, EntryReplaced DEF Forget
<1>4. StoreTyped' /\ StoreClean'  BY <1>1, <1>3, Unchanged, StepKeepsStore
<1>5. OpsFit'  BY <1>1, DoneFits DEF Gate, Forget
<1> QED  BY <1>4, <1>5 DEF Gate

LEMMA WriteArchivedStep == ASSUME Gate, NEW a \in Actors, WriteArchived(a) PROVE Gate'
<1> DEFINE e == [op[a].e EXCEPT !.status = "archived"]
<1>1. UNCHANGED <<past, system, revision, fresh, now, failures, approved>>
  BY DEF WriteArchived
<1>2. op[a].e \in [status : Status, notes : SUBSET Notes, file : Files]
  <2>1. At(a, "write archived")  BY DEF WriteArchived
  <2>2. op[a].e \in Entry /\ Exists(op[a].e)  BY <2>1, InFlight
  <2> QED  BY <2>2 DEF Entry, Exists, Absent
<1>3. e = [status |-> "archived", notes |-> op[a].e.notes, file |-> op[a].e.file]  BY <1>2
<1> HIDE DEF e
<1>4. e \in Entry /\ Clean(e)  BY <1>2, <1>3 DEF Entry, Status, Clean
<1>5. DiskGood'  BY <1>1, <1>4, FileWritten DEF WriteArchived, e
<1>6. op[a].tenant \in Tenants  BY InFlight DEF WriteArchived, At
<1>7. EntriesGood'
  BY <1>1, <1>4, <1>6, PointerWritten DEF WriteArchived, e, Status
<1>8. trusted' \in [Tenants -> SUBSET Notes]  BY TrustedTyped DEF WriteArchived
<1>9. StoreTyped' /\ StoreClean'  BY <1>1, <1>5, <1>7, <1>8, Unchanged, StepKeepsStore
<1>10. OpsFit'
  <2>1. Begin(a, "index", op[a].tenant, e, op[a].other)  BY DEF WriteArchived, e
  <2> QED  BY <1>1, <1>4, <1>6, <2>1, InFlight, BeginFits DEF Gate, Labels, Visible, Clean
<1> QED  BY <1>9, <1>10 DEF Gate

LEMMA SetStatusStep == ASSUME Gate, NEW a \in Actors, SetStatus(a) PROVE Gate'
<1>1. UNCHANGED <<past, system, revision, fresh, now, failures, approved>>
  BY DEF SetStatus
<1>2. DiskGood'  BY <1>1, InFlight, FileWritten DEF SetStatus
<1>3. EntriesGood'  BY <1>1, InFlight, PointerSetGood DEF SetStatus, At
<1>4. trusted' \in [Tenants -> SUBSET Notes]  BY InFlight, TrustedTyped DEF SetStatus
<1>5. StoreTyped' /\ StoreClean'  BY <1>1, <1>2, <1>3, <1>4, Unchanged, StepKeepsStore
<1>6. OpsFit'  BY <1>1, DoneFits DEF Gate, SetStatus
<1> QED  BY <1>5, <1>6 DEF Gate

LEMMA WriteReplacementStep ==
  ASSUME Gate, NEW a \in Actors, WriteReplacement(a) PROVE Gate'
<1>1. UNCHANGED <<past, system, entry, revision, fresh, now, failures, approved>>
  BY DEF WriteReplacement
<1>2. DiskGood'  BY <1>1, InFlight, FileWritten DEF WriteReplacement
<1>3. trusted' \in [Tenants -> SUBSET Notes]  BY InFlight, TrustedTyped DEF WriteReplacement
<1>4. StoreTyped' /\ StoreClean'  BY <1>1, <1>2, <1>3, Unchanged, StepKeepsStore
<1>5. OpsFit'  BY <1>1, GotoFits DEF Gate, WriteReplacement, At, Labels
<1> QED  BY <1>4, <1>5 DEF Gate

LEMMA DropApprovedFileStep ==
  ASSUME Gate, NEW a \in Actors, DropApprovedFile(a) PROVE Gate'
<1>1. UNCHANGED <<past, system, entry, revision, fresh, now, failures, approved, trusted>>
  BY DEF DropApprovedFile, ghostVars
<1>2. DiskGood'  BY <1>1, FileRemoved DEF DropApprovedFile
<1>3. StoreTyped' /\ StoreClean'  BY <1>1, <1>2, Unchanged, StepKeepsStore
<1>4. OpsFit'  BY <1>1, GotoFits DEF Gate, DropApprovedFile, At, Labels
<1> QED  BY <1>3, <1>4 DEF Gate

LEMMA SwapStep == ASSUME Gate, NEW a \in Actors, Swap(a) PROVE Gate'
<1>1. UNCHANGED <<disk, past, system, fresh, now, failures, approved, trusted>>
  BY DEF Swap, ghostVars
<1>2. EntriesGood'  BY <1>1, InFlight, EntryReplaced DEF Swap
<1>3. revision' \in [Tenants -> Entry]
  <2>1. Absent \in Entry  BY DEF Entry
  <2> QED  BY <2>1 DEF Gate, StoreTyped, Swap
<1>4. StoreTyped' /\ StoreClean'  BY <1>1, <1>2, <1>3, Unchanged, StepKeepsStore
<1>5. OpsFit'  BY <1>1, DoneFits DEF Gate, Swap
<1> QED  BY <1>4, <1>5 DEF Gate

LEMMA DiscardStep == ASSUME Gate, NEW a \in Actors, Discard(a) PROVE Gate'
<1>1. UNCHANGED <<past, system, entry, revision, fresh, now, failures, approved, trusted>>
  BY DEF Discard, ghostVars
<1>2. DiskGood'  BY <1>1, FileRemoved DEF Discard
<1>3. StoreTyped' /\ StoreClean'  BY <1>1, <1>2, Unchanged, StepKeepsStore
<1>4. OpsFit'  BY <1>1, DoneFits DEF Gate, Discard
<1> QED  BY <1>3, <1>4 DEF Gate

LEMMA WriteFailsStep == ASSUME Gate, NEW a \in Actors, WriteFails(a) PROVE Gate'
<1>1. UNCHANGED <<disk, past, system, revision, fresh, now, approved, trusted>>
  BY DEF WriteFails, ghostVars
<1>2. EntriesGood'
  <2>1. CASE At(a, "set status")  BY <1>1, <2>1, InFlight, PointerSetGood DEF WriteFails, At
  <2>2. CASE At(a, "write archived") /\ SameEntry(entry[op[a].tenant], op[a].e)
    <3>1. entry' = [entry EXCEPT ![op[a].tenant].status = "archived"]
      BY <2>2 DEF WriteFails, At
    <3>2. op[a].tenant \in Tenants  BY <2>2, InFlight DEF At
    <3> QED  BY <1>1, <2>2, <3>1, <3>2, InFlight, PointerWritten DEF Status
  <2>3. CASE UNCHANGED entry  BY <1>1, <2>3, Unchanged
  <2> QED  BY <2>1, <2>2, <2>3 DEF WriteFails
<1>3. failures' \in 0 .. MaxFailures
  <2>1. failures \in 0 .. MaxFailures  BY DEF Gate, StoreTyped
  <2>2. failures < MaxFailures /\ failures' = failures + 1  BY DEF WriteFails
  <2> QED  BY <2>1, <2>2, BoundsAreNat
<1>4. StoreTyped' /\ StoreClean'  BY <1>1, <1>2, <1>3, Unchanged, StepKeepsStore
<1>5. OpsFit'  BY <1>1, DoneFits DEF Gate, WriteFails
<1> QED  BY <1>4, <1>5 DEF Gate

(* A start reads what is on disk, which is clean. *)
LEMMA RestartStep == Gate /\ Restart => Gate'
<1> SUFFICES ASSUME Gate, Restart PROVE Gate'  OBVIOUS
<1>1. UNCHANGED <<disk, past, fresh, now, failures, approved, trusted>>
  BY DEF Restart, ghostVars
<1>2. ASSUME NEW o \in Tenants \cup {Base} PROVE LoadEntry(o) \in Entry /\ Clean(LoadEntry(o))
  <2>1. LoadEntry(o) \in Entry  BY LoadedTyped DEF Gate
  <2>2. Active(o) \in Files  BY BoundsAreNat DEF Active, Files
  <2>3. Clean(disk[Active(o)])  BY <2>2 DEF Gate, StoreClean
  <2>4. Clean(LoadEntry(o))
    <3>1. CASE disk[Active(o)] = NoPage  BY <3>1 DEF LoadEntry, Clean, Absent
    <3>2. CASE disk[Active(o)] # NoPage
      <4>1. LoadEntry(o).status = disk[Active(o)].status
            /\ LoadEntry(o).notes = disk[Active(o)].notes
        BY <3>2 DEF LoadEntry
      <4> QED  BY <2>3, <4>1 DEF Clean
    <3> QED  BY <3>1, <3>2
  <2> QED  BY <2>1, <2>4
<1>3. system' \in Entry /\ Clean(system)'
  BY <1>1, <1>2 DEF Restart, Clean
<1>4. revision' \in [Tenants -> Entry]  BY LoadedTyped DEF Gate, Restart
<1>5. EntriesGood'
  <2>1. entry' = [t \in Tenants |-> LoadEntry(t)]  BY DEF Restart
  <2>2. entry' \in [Tenants -> Entry]  BY <1>2, <2>1
  <2>3. \A t \in Tenants : Clean(entry[t])'  BY <1>1, <1>2, <2>1 DEF Clean
  <2> QED  BY <2>2, <2>3 DEF EntriesGood
<1>6. StoreTyped'
  <2>1. DiskGood'  BY <1>1, Unchanged
  <2> QED  BY <1>1, <1>3, <1>4, <1>5, <2>1 DEF Gate, StoreTyped, DiskGood, EntriesGood
<1>7. StoreClean'
  <2>1. DiskGood'  BY <1>1, Unchanged
  <2> QED  BY <1>3, <1>5, <2>1 DEF StoreClean, DiskGood, EntriesGood
<1>8. OpsFit'
  <2>1. Idle \in Operation /\ Fits(Idle) /\ Clean(Idle.e)'
    BY DEF Idle, Operation, Labels, Entry, Absent, Fits, Clean
  <2>2. op' = [a \in Actors |-> Idle]  BY DEF Restart
  <2> QED  BY <2>1, <2>2 DEF OpsFit, Clean
<1> QED  BY <1>6, <1>7, <1>8 DEF Gate

LEMMA OpsUnchanged == ASSUME OpsFit, UNCHANGED <<op, approved>> PROVE OpsFit'
BY DEF OpsFit, Clean

LEMMA TickStep == Gate /\ Tick => Gate'
<1> SUFFICES ASSUME Gate, Tick PROVE Gate'  OBVIOUS
<1>1. UNCHANGED <<disk, past, system, entry, revision, op, fresh, failures, approved, trusted>>
  BY DEF Tick, storeVars, ghostVars
<1>2. now' \in 0 .. MaxSec  BY BoundsAreNat DEF Gate, StoreTyped, Tick
<1>3. StoreTyped'  BY <1>1, <1>2 DEF Gate, StoreTyped
<1>4. StoreClean'  BY <1>1 DEF Gate, StoreClean, Clean
<1> QED  BY <1>1, <1>3, <1>4, OpsUnchanged DEF Gate

-----------------------------------------------------------------------------

LEMMA EveryCall ==
  ASSUME Gate, NEW a \in Actors, NEW t \in Tenants, Call(a, t) \/ BlindCall(a, t) PROVE Gate'
<1>1. CASE HumanDelete(a, t)  BY <1>1, RemoveStep DEF HumanDelete
<1> QED  BY <1>1, EnsureStep, HumanEditStep, ApproveStep, RejectStep, ObserveStep,
            ConsolidateStep DEF Call, BlindCall

LEMMA EveryStep == ASSUME Gate, NEW a \in Actors, Step(a) PROVE Gate'
BY ArchiveOldStep, WriteEntryStep, IndexEntryStep, WriteRevisionStep, IndexRevisionStep,
   DropRevisionFileStep, RemoveFileStep, ForgetStep, WriteArchivedStep, SetStatusStep,
   WriteReplacementStep, DropApprovedFileStep, SwapStep, DiscardStep, WriteFailsStep DEF Step

LEMMA GateHolds == Spec => []WikiInv
<1>1. WikiInv /\ [Next]_vars => WikiInv'
  <2> SUFFICES ASSUME WikiInv, [Next]_vars PROVE WikiInv'  OBVIOUS
  <2>1. Gate /\ disturbed \in BOOLEAN  BY DEF WikiInv
  <2>2. CASE UNCHANGED vars
    <3>1. UNCHANGED <<disk, past, system, entry, revision, op, fresh, now, failures, approved,
                      trusted, disturbed>>
      BY <2>2 DEF vars, storeVars, ghostVars
    <3>2. StoreTyped'  BY <2>1, <3>1 DEF Gate, StoreTyped
    <3>3. StoreClean'  BY <2>1, <3>1 DEF Gate, StoreClean, Clean
    <3>4. OpsFit'  BY <2>1, <3>1, OpsUnchanged DEF Gate
    <3> QED  BY <2>1, <3>1, <3>2, <3>3, <3>4 DEF WikiInv, Gate
  <2>3. CASE Next
    <3>1. Gate'
      BY <2>1, <2>3, EveryCall, EveryStep, RestartStep, TickStep DEF Next
    <3>2. disturbed' \in BOOLEAN  BY <2>1, <2>3 DEF Next
    <3> QED  BY <3>1, <3>2 DEF WikiInv
  <2> QED  BY <2>2, <2>3
<1> QED  BY <1>1, GateInit, PTL DEF Spec

(* Every variable keeps its type: internal/memory/longterm.                *)
THEOREM WikiTypesCorrect == Spec => []TypeOK
<1>1. WikiInv => TypeOK  BY DEF WikiInv, Gate, StoreTyped, OpsFit, TypeOK
<1> QED  BY <1>1, GateHolds, PTL

(* However many agents, humans, tasks, failed writes and restarts there    *)
(* are, the agent is shown only what a human wrote or approved             *)
(* (retriever.go:254, visibleToAgent).                                     *)
THEOREM OnlyApprovedIsShown == Spec => []AgentSeesOnlyApproved
<1>1. WikiInv => AgentSeesOnlyApproved
  <2> SUFFICES ASSUME WikiInv, NEW t \in Tenants, NEW n \in AgentSees(t)
               PROVE  n \in approved
    BY DEF AgentSeesOnlyApproved
  <2>1. PICK e \in {Get(t), entry[t], system} : Visible(e) /\ n \in e.notes  BY DEF AgentSees
  <2>2. Clean(e)  BY <2>1, GetTyped DEF WikiInv, Gate, StoreClean
  <2> QED  BY <2>1, <2>2 DEF Visible, Clean
<1> QED  BY <1>1, GateHolds, PTL

-----------------------------------------------------------------------------
(* What survives while nothing disturbs the store: one call at a time,     *)
(* writes succeed, nothing is written blindly.                             *)

(* The trusted version is on disk; a revision has a file of its own.       *)
Kept(t) == trusted[t] # {} => disk[Active(t)] = [status |-> "verified", notes |-> trusted[t]]

OwnFile(f, t) == \E n \in 1 .. MaxRevs : f = <<t, n>>
Apart(t)      == revision[t] = Absent \/ OwnFile(revision[t].file, t)

(* Memory and disk agree on a tenant's page, unless an operation is        *)
(* between its last file and its last entry.                               *)
InMemory(t)  == entry[t] = LoadEntry(t)
Midway(a, t) == op[a].tenant = t /\ op[a].step \in {"index", "forget", "drop file", "swap"}

(* What an operation has done, and what it holds, at each of its steps.    *)
InOrder(a) ==
    LET o == op[a]
        t == o.tenant
    IN  /\ o.step \in {"archive", "write"} =>
              Exists(o.e) /\ o.e.file = Active(t) /\ (Visible(o.e) \/ trusted[t] = {})
        /\ o.step = "index" =>
              /\ Exists(o.e) /\ o.e.file = Active(t) /\ disk[Active(t)] = OnDisk(o.e)
              /\ entry[t].file # Active(Base)
        /\ o.step \in {"write revision", "index revision"} => OwnFile(o.e.file, t)
        /\ o.step \in {"delete", "hide", "remove", "write archived"} => o.e = entry[t]
        /\ o.step \in {"delete", "hide", "replace", "drop file", "discard"} =>
              o.other = NoFile \/ OwnFile(o.other, t)
        /\ o.step \in {"remove", "write archived", "set status"} => Exists(entry[t])
        /\ o.step = "forget" => disk[Active(t)] = NoPage
        /\ o.step = "set status" => o.e = [entry[t] EXCEPT !.status = "verified"]
        /\ o.step \in {"replace", "drop file", "swap"} =>
              Visible(o.e) /\ o.e.file = Active(t)
        /\ o.step \in {"drop file", "swap"} => disk[Active(t)] = OnDisk(o.e)

Alone == \A a, b \in Actors : ~ At(a, "idle") /\ ~ At(b, "idle") => a = b

Rest ==
    /\ Alone
    /\ system = LoadEntry(Base)
    /\ \A t \in Tenants : /\ Kept(t) /\ Apart(t)
                          /\ InMemory(t) \/ \E a \in Actors : Midway(a, t)
    /\ \A a \in Actors : InOrder(a)

SafeInv == WikiInv /\ (~ disturbed => Rest)

(* A step of one actor for one tenant leaves the others' pages alone.      *)
Spares(a, t) ==
    /\ \A b \in Actors \ {a} : op'[b] = op[b]
    /\ system' = system /\ disk'[Active(Base)] = disk[Active(Base)]
    /\ \A u \in Tenants \ {t} :
          /\ disk'[Active(u)] = disk[Active(u)] /\ entry'[u] = entry[u]
          /\ revision'[u] = revision[u] /\ trusted'[u] = trusted[u]

LEMMA RestKept ==
  ASSUME Rest, NEW a \in Actors, NEW t \in Tenants,
         \A b \in Actors \ {a} : At(b, "idle"),
         At(a, "idle") \/ op[a].tenant = t, Spares(a, t),
         Kept(t)', Apart(t)', InMemory(t)' \/ Midway(a, t)', InOrder(a)'
  PROVE  Rest'
<1>1. \A b \in Actors \ {a} : op'[b] = op[b] /\ op'[b].step = "idle"  BY DEF Spares, At
<1>2. Alone'  BY <1>1 DEF Alone, At
<1>3. (system = LoadEntry(Base))'  BY DEF Rest, Spares, LoadEntry
<1>4. ASSUME NEW b \in Actors PROVE InOrder(b)'
  <2>1. CASE b # a  BY <1>1, <2>1 DEF InOrder
  <2> QED  BY <2>1
<1>5. ASSUME NEW u \in Tenants
      PROVE  (Kept(u) /\ Apart(u) /\ (InMemory(u) \/ \E b \in Actors : Midway(b, u)))'
  <2>1. CASE u # t
    <3>1. /\ disk'[Active(u)] = disk[Active(u)] /\ entry'[u] = entry[u]
          /\ revision'[u] = revision[u] /\ trusted'[u] = trusted[u]
      BY <2>1 DEF Spares
    <3>2. Kept(u) /\ Apart(u) /\ InMemory(u)
      <4>1. \A b \in Actors : ~ Midway(b, u)  BY <2>1 DEF Midway, At
      <4> QED  BY <4>1 DEF Rest
    <3>3. Kept(u)' /\ Apart(u)'  BY <3>1, <3>2 DEF Kept, Apart
    <3>4. InMemory(u)'  BY <3>1, <3>2 DEF InMemory, LoadEntry
    <3> QED  BY <3>3, <3>4
  <2> QED  BY <2>1
<1> QED  BY <1>2, <1>3, <1>4, <1>5 DEF Rest

(* What the three ways to change an operation put in its place.            *)
LEMMA BeginIs ==
  ASSUME OpsFit, NEW a \in Actors, NEW s, NEW t, NEW e, NEW other, Begin(a, s, t, e, other)
  PROVE  /\ op'[a].step = s /\ op'[a].tenant = t /\ op'[a].e = e /\ op'[a].other = other
         /\ \A b \in Actors \ {a} : op'[b] = op[b]
<1> DEFINE o == [step |-> s, tenant |-> t, e |-> e, other |-> other]
<1>1. o.step = s /\ o.tenant = t /\ o.e = e /\ o.other = other  OBVIOUS
<1>2. op' = [op EXCEPT ![a] = o] /\ op \in [Actors -> Operation]  BY DEF Begin, OpsFit
<1> HIDE DEF o
<1> QED  BY <1>1, <1>2

LEMMA GotoIs ==
  ASSUME OpsFit, NEW a \in Actors, NEW s, Goto(a, s)
  PROVE  /\ op'[a].step = s /\ op'[a].tenant = op[a].tenant /\ op'[a].e = op[a].e
         /\ op'[a].other = op[a].other
         /\ \A b \in Actors \ {a} : op'[b] = op[b]
<1>1. op' = [op EXCEPT ![a] = [op[a] EXCEPT !.step = s]] /\ op \in [Actors -> Operation]
  BY DEF Goto, OpsFit
<1>2. op'[a] = [op[a] EXCEPT !.step = s] /\ op[a] \in Operation  BY <1>1
<1> QED  BY <1>1, <1>2 DEF Operation

LEMMA DoneIs ==
  ASSUME OpsFit, NEW a \in Actors, Done(a)
  PROVE  op'[a].step = "idle" /\ \A b \in Actors \ {a} : op'[b] = op[b]
BY DEF OpsFit, Done, Idle

(* The files of different owners, and of a page and its revisions.         *)
LEMMA OwnFileGone ==
  ASSUME Gate, NEW t \in Tenants, NEW f, f = NoFile \/ OwnFile(f, t), disk' = WithoutFile(f)
  PROVE  \A o \in Tenants \cup {Base} : disk'[Active(o)] = disk[Active(o)]
<1> SUFFICES ASSUME NEW o \in Tenants \cup {Base} PROVE disk'[Active(o)] = disk[Active(o)]
  OBVIOUS
<1>1. CASE f = NoFile  BY <1>1 DEF WithoutFile
<1>2. CASE f # NoFile
  <2>1. PICK n \in 1 .. MaxRevs : f = <<t, n>>  BY <1>2 DEF OwnFile
  <2>2. f # Active(o)  BY <2>1, BoundsAreNat DEF Active
  <2>3. disk' = [disk EXCEPT ![f] = NoPage]  BY <1>2 DEF WithoutFile
  <2>4. Active(o) \in Files /\ disk \in [Files -> Page \cup {NoPage}]
    BY BoundsAreNat DEF Active, Files, Gate, StoreTyped
  <2> QED  BY <2>2, <2>3, <2>4
<1> QED  BY <1>1, <1>2

LEMMA ActiveChanged ==
  ASSUME Gate, NEW t \in Tenants, NEW p, disk' = [disk EXCEPT ![Active(t)] = p]
  PROVE  /\ disk'[Active(t)] = p
         /\ \A o \in (Tenants \cup {Base}) \ {t} : disk'[Active(o)] = disk[Active(o)]
<1>1. \A o \in Tenants \cup {Base} : Active(o) \in Files
  BY BoundsAreNat DEF Active, Files
<1>2. \A o \in Tenants \cup {Base} : o # t => Active(o) # Active(t)  BY DEF Active
<1> QED  BY <1>1, <1>2 DEF Gate, StoreTyped

(* A page at rest is in memory as it is on disk, trusted text included. *)
LEMMA AtRest ==
  ASSUME Gate, Rest, NEW t \in Tenants, \A a \in Actors : ~ Midway(a, t)
  PROVE  /\ InMemory(t) /\ Kept(t) /\ Apart(t)
         /\ Exists(entry[t]) => entry[t].file = Active(t)
         /\ entry[t].file # Active(Base)
         /\ trusted[t] # {} => Visible(entry[t]) /\ Exists(entry[t])
<1>1. InMemory(t) /\ Kept(t) /\ Apart(t)  BY DEF Rest
<1>2. Active(t) # Active(Base) /\ NoFile # Active(Base)
  BY BaseIsNoTenant DEF Active, NoFile
<1>3. CASE disk[Active(t)] = NoPage
  <2>1. entry[t] = Absent  BY <1>1, <1>3 DEF InMemory, LoadEntry
  <2>2. ~ Exists(entry[t]) /\ entry[t].file = NoFile  BY <2>1 DEF Exists, Absent
  <2>3. trusted[t] = {}  BY <1>1, <1>3 DEF Kept, NoPage
  <2> QED  BY <1>1, <1>2, <2>2, <2>3
<1>4. CASE disk[Active(t)] # NoPage
  <2>1. entry[t] = [status |-> disk[Active(t)].status, notes |-> disk[Active(t)].notes,
                    file |-> Active(t)]
    BY <1>1, <1>4 DEF InMemory, LoadEntry
  <2>2. entry[t].status = disk[Active(t)].status /\ entry[t].file = Active(t)  BY <2>1
  <2>3. trusted[t] # {} => disk[Active(t)].status = "verified"  BY <1>1 DEF Kept
  <2> QED  BY <1>1, <1>2, <2>2, <2>3 DEF Visible, Exists
<1> QED  BY <1>3, <1>4

LEMMA CallRests ==
  ASSUME Gate, Rest, NEW a \in Actors, NEW t \in Tenants, \A b \in Actors : At(b, "idle"),
         UNCHANGED <<disk, system, entry, trusted>>,
         revision' = revision \/ revision' = [revision EXCEPT ![t] = Absent],
         \A b \in Actors \ {a} : op'[b] = op[b], InOrder(a)'
  PROVE  Rest'
<1>1. InMemory(t) /\ Kept(t) /\ Apart(t)  BY AtRest DEF At, Midway
<1>2. Spares(a, t)  BY DEF Spares, Gate, StoreTyped
<1>3. Apart(t)'  BY <1>1 DEF Apart, Gate, StoreTyped
<1>4. Kept(t)' /\ InMemory(t)'  BY <1>1 DEF Kept, InMemory, LoadEntry
<1> QED  BY <1>2, <1>3, <1>4, RestKept

LEMMA EnsureRests ==
  ASSUME Gate, Rest, NEW a \in Actors, NEW t \in Tenants, \A b \in Actors : At(b, "idle"),
         NEW n \in fresh, Ensure(a, t, n)
  PROVE  Rest'
<1>1. UNCHANGED <<disk, system, entry, revision, trusted>>  BY DEF Ensure, storeVars, ghostVars
<1>2. CASE RoomForRevision(t) /\ Begin(a, "write revision", t, NewRevision(t, {n}), NoFile)
  <2>1. n \in Notes  BY DEF Ensure, Notes
  <2>2. OwnFile(NewRevision(t, {n}).file, t)  BY <1>2, <2>1, RevisionTyped DEF Gate, OwnFile
  <2>3. /\ op'[a].step = "write revision" /\ op'[a].tenant = t
        /\ op'[a].e = NewRevision(t, {n}) /\ \A b \in Actors \ {a} : op'[b] = op[b]
    BY <1>2, BeginIs DEF Gate
  <2>4. InOrder(a)'  BY <2>2, <2>3 DEF InOrder, OwnFile
  <2> QED  BY <1>1, <2>3, <2>4, CallRests
<1>3. CASE ~ Visible(Get(t)) /\ Begin(a, "archive", t, NewEntry(t, "pending_review", {n}), NoFile)
  <2>1. trusted[t] = {}  BY <1>3, AtRest DEF At, Midway, Get
  <2>2. NewEntry(t, "pending_review", {n}).file = Active(t)
        /\ Exists(NewEntry(t, "pending_review", {n}))
    BY DEF NewEntry, Exists
  <2>3. /\ op'[a].step = "archive" /\ op'[a].tenant = t
        /\ op'[a].e = NewEntry(t, "pending_review", {n})
        /\ \A b \in Actors \ {a} : op'[b] = op[b]
    BY <1>3, BeginIs DEF Gate
  <2>4. InOrder(a)'  BY <1>1, <2>1, <2>2, <2>3 DEF InOrder
  <2> QED  BY <1>1, <2>3, <2>4, CallRests
<1> QED  BY <1>2, <1>3 DEF Ensure

(* An edit goes to the tenant's own page, or the baseline was edited. *)
LEMMA HumanEditRests ==
  ASSUME Gate, Rest, NEW a \in Actors, NEW t \in Tenants, \A b \in Actors : At(b, "idle"),
         NEW n \in fresh, HumanEdit(a, t, n), ~ EditsBase(a)'
  PROVE  Rest'
<1> DEFINE file == IF Exists(Get(t)) THEN Get(t).file ELSE Active(t)
           e    == [status |-> "verified", notes |-> {n}, file |-> file]
<1>1. UNCHANGED <<disk, system, entry, revision, trusted>>
      /\ Begin(a, "archive", t, e, NoFile)
  BY DEF HumanEdit, storeVars
<1>2. Exists(e) /\ Visible(e) /\ e.file = file  BY DEF Exists, Visible
<1> HIDE DEF e
<1>3. /\ op'[a].step = "archive" /\ op'[a].tenant = t /\ op'[a].e = e
      /\ \A b \in Actors \ {a} : op'[b] = op[b]
  BY <1>1, BeginIs DEF Gate
<1>4. file # Active(Base)  BY <1>2, <1>3 DEF EditsBase, At
<1>5. file = Active(t)
  <2>1. CASE Exists(entry[t])  BY <2>1, AtRest DEF At, Midway, Get
  <2>2. CASE ~ Exists(entry[t]) /\ Exists(system)
    <3>1. system = LoadEntry(Base)  BY DEF Rest
    <3>2. system.file = Active(Base)  BY <2>2, <3>1 DEF LoadEntry, Exists, Absent
    <3> QED  BY <1>4, <2>2, <3>2 DEF Get
  <2>3. CASE ~ Exists(entry[t]) /\ ~ Exists(system)  BY <2>3 DEF Get
  <2> QED  BY <2>1, <2>2, <2>3
<1>6. InOrder(a)'  BY <1>2, <1>3, <1>5 DEF InOrder
<1> QED  BY <1>1, <1>3, <1>6, CallRests

LEMMA RemoveRests ==
  ASSUME Gate, Rest, NEW a \in Actors, NEW t \in Tenants, \A b \in Actors : At(b, "idle"),
         NEW s \in {"delete", "hide"}, Remove(a, t, s), UNCHANGED <<disk, system, entry, trusted>>
  PROVE  Rest'
<1>1. Apart(t)  BY AtRest DEF At, Midway
<1>2. revision[t].file = NoFile \/ OwnFile(revision[t].file, t)  BY <1>1 DEF Apart, Absent
<1>3. /\ op'[a].step = s /\ op'[a].tenant = t /\ op'[a].e = entry[t]
      /\ op'[a].other = revision[t].file /\ \A b \in Actors \ {a} : op'[b] = op[b]
  BY BeginIs DEF Gate, Remove
<1>4. InOrder(a)'  BY <1>2, <1>3 DEF InOrder, OwnFile
<1> QED  BY <1>3, <1>4, CallRests DEF Remove

LEMMA ApproveRests ==
  ASSUME Gate, Rest, NEW a \in Actors, NEW t \in Tenants, \A b \in Actors : At(b, "idle"),
         Approve(a, t)
  PROVE  Rest'
<1>1. UNCHANGED <<disk, system, entry, revision, trusted>>  BY DEF Approve, storeVars
<1>2. Apart(t) /\ Home(t) = Active(t)  BY AtRest DEF At, Midway, Home
<1>3. CASE Exists(revision[t])
  <2> DEFINE e == [revision[t] EXCEPT !.status = "verified", !.file = Home(t)]
  <2>1. Begin(a, "replace", t, e, revision[t].file)  BY <1>3 DEF Approve
  <2>2. revision[t] \in [status : Status, notes : SUBSET Notes, file : Files]
    BY <1>3, GetTyped DEF Entry, Exists, Absent
  <2>3. e = [status |-> "verified", notes |-> revision[t].notes, file |-> Home(t)]
    <3> HIDE DEF e
    <3>1. PICK r : r = revision[t]  OBVIOUS
    <3>2. r \in [status : Status, notes : SUBSET Notes, file : Files]  BY <2>2, <3>1
    <3>3. e = [r EXCEPT !.status = "verified", !.file = Home(t)]  BY <3>1 DEF e
    <3>4. e = [status |-> "verified", notes |-> r.notes, file |-> Home(t)]  BY <3>2, <3>3
    <3> QED  BY <3>1, <3>4
  <2>4. Visible(e) /\ e.file = Active(t)  BY <1>2, <2>3 DEF Visible
  <2>5. OwnFile(revision[t].file, t)  BY <1>2, <1>3 DEF Apart, Exists, Absent
  <2> HIDE DEF e
  <2>6. /\ op'[a].step = "replace" /\ op'[a].tenant = t /\ op'[a].e = e
        /\ op'[a].other = revision[t].file /\ \A b \in Actors \ {a} : op'[b] = op[b]
    BY <2>1, BeginIs DEF Gate
  <2>7. InOrder(a)'  BY <2>4, <2>5, <2>6 DEF InOrder, OwnFile
  <2> QED  BY <1>1, <2>6, <2>7, CallRests
<1>4. CASE ~ Exists(revision[t])
  <2> DEFINE e == [entry[t] EXCEPT !.status = "verified"]
  <2>1. Begin(a, "set status", t, e, NoFile) /\ Exists(entry[t])  BY <1>4 DEF Approve
  <2> HIDE DEF e
  <2>2. /\ op'[a].step = "set status" /\ op'[a].tenant = t /\ op'[a].e = e
        /\ \A b \in Actors \ {a} : op'[b] = op[b]
    BY <2>1, BeginIs DEF Gate
  <2>3. InOrder(a)'  BY <1>1, <2>1, <2>2 DEF InOrder, e
  <2> QED  BY <1>1, <2>2, <2>3, CallRests
<1> QED  BY <1>3, <1>4

LEMMA RejectRests ==
  ASSUME Gate, Rest, NEW a \in Actors, NEW t \in Tenants, \A b \in Actors : At(b, "idle"),
         Reject(a, t)
  PROVE  Rest'
<1>1. UNCHANGED <<disk, system, entry, trusted>>  BY DEF Reject, ghostVars
<1>2. CASE Remove(a, t, "delete")  BY <1>1, <1>2, RemoveRests
<1>3. CASE ~ Remove(a, t, "delete")
  <2>1. /\ revision' = [revision EXCEPT ![t] = Absent]
        /\ Begin(a, "discard", t, Absent, revision[t].file)
    BY <1>3 DEF Reject
  <2>2. Apart(t)  BY AtRest DEF At, Midway
  <2>3. revision[t].file = NoFile \/ OwnFile(revision[t].file, t)  BY <2>2 DEF Apart, Absent
  <2>4. /\ op'[a].step = "discard" /\ op'[a].tenant = t
        /\ op'[a].other = revision[t].file /\ \A b \in Actors \ {a} : op'[b] = op[b]
    BY <2>1, BeginIs DEF Gate
  <2>5. InOrder(a)'  BY <2>3, <2>4 DEF InOrder, OwnFile
  <2> QED  BY <1>1, <2>1, <2>4, <2>5, CallRests
<1> QED  BY <1>2, <1>3

-----------------------------------------------------------------------------
(* The steps of the one operation in flight. *)

LEMMA Acting ==
  ASSUME Gate, Rest, NEW a \in Actors, ~ At(a, "idle"), NEW t, t = op[a].tenant
  PROVE  /\ t \in Tenants /\ \A b \in Actors \ {a} : At(b, "idle")
         /\ Kept(t) /\ Apart(t) /\ InOrder(a) /\ op[a].e \in Entry
         /\ ~ Midway(a, t) =>
               /\ InMemory(t)
               /\ Exists(entry[t]) => entry[t].file = Active(t)
               /\ entry[t].file # Active(Base)
               /\ trusted[t] # {} => Visible(entry[t]) /\ Exists(entry[t])
<1>1. t \in Tenants /\ op[a].e \in Entry  BY InFlight
<1>2. \A b \in Actors \ {a} : At(b, "idle")  BY DEF Rest, Alone
<1>3. \A b \in Actors \ {a} : ~ Midway(b, t)  BY <1>2 DEF At, Midway
<1>4. Kept(t) /\ Apart(t) /\ InOrder(a)  BY <1>1 DEF Rest
<1>5. CASE ~ Midway(a, t)
  <2>1. \A b \in Actors : ~ Midway(b, t)  BY <1>3, <1>5
  <2> QED  BY <1>1, <1>2, <1>4, <2>1, AtRest
<1> QED  BY <1>1, <1>2, <1>4, <1>5

(* Whatever leaves the tenant's page alone, on disk and in memory. *)
LEMMA PageAlone ==
  ASSUME Gate, Rest, NEW a \in Actors, ~ At(a, "idle"), NEW t, t = op[a].tenant,
         \A b \in Actors \ {a} : op'[b] = op[b],
         ~ Midway(a, t), UNCHANGED <<system, entry, trusted>>,
         revision' = revision \/ revision' = [revision EXCEPT ![t] = op[a].e],
         \A o \in Tenants \cup {Base} : disk'[Active(o)] = disk[Active(o)],
         Apart(t)', InOrder(a)'
  PROVE  Rest'
<1>1. /\ t \in Tenants /\ \A b \in Actors \ {a} : At(b, "idle")
      /\ Kept(t) /\ InMemory(t)
  BY Acting
<1>2. Spares(a, t)  BY <1>1 DEF Spares, Gate, StoreTyped
<1>3. Kept(t)'  BY <1>1 DEF Kept
<1>4. InMemory(t)'  BY <1>1 DEF InMemory, LoadEntry
<1> QED  BY <1>1, <1>2, <1>3, <1>4, RestKept

LEMMA ArchiveOldRests == ASSUME Gate, Rest, NEW a \in Actors, ArchiveOld(a) PROVE Rest'
<1>1. PICK t : t = op[a].tenant  OBVIOUS
<1>2. /\ ~ At(a, "idle") /\ ~ Midway(a, t) /\ op[a].step = "archive" /\ Goto(a, "write")
      /\ UNCHANGED <<disk, system, entry, revision, trusted>>
  BY DEF ArchiveOld, At, Midway, ghostVars
<1>3. Apart(t) /\ InOrder(a)  BY <1>1, <1>2, Acting
<1>4. /\ op'[a].step = "write" /\ op'[a].tenant = t /\ op'[a].e = op[a].e
      /\ \A b \in Actors \ {a} : op'[b] = op[b]
  BY <1>1, <1>2, GotoIs DEF Gate
<1>5. InOrder(a)'  BY <1>1, <1>2, <1>3, <1>4 DEF InOrder
<1>6. Apart(t)'  BY <1>2, <1>3 DEF Apart
<1> QED  BY <1>1, <1>2, <1>4, <1>5, <1>6, PageAlone

LEMMA WriteEntryRests == ASSUME Gate, Rest, NEW a \in Actors, WriteEntry(a) PROVE Rest'
<1>1. PICK t : t = op[a].tenant  OBVIOUS
<1>2. PICK e : e = op[a].e  OBVIOUS
<1>3. /\ ~ At(a, "idle") /\ ~ Midway(a, t) /\ op[a].step = "write" /\ Goto(a, "index")
      /\ UNCHANGED <<system, entry, revision>>
      /\ disk' = [disk EXCEPT ![e.file] = OnDisk(e)]
      /\ trusted' = IF Visible(e) THEN [trusted EXCEPT ![t] = e.notes] ELSE trusted
  BY <1>1, <1>2 DEF WriteEntry, At, Midway
<1>4. /\ t \in Tenants /\ \A b \in Actors \ {a} : At(b, "idle")
      /\ Apart(t) /\ InOrder(a) /\ entry[t].file # Active(Base)
  BY <1>1, <1>3, Acting
<1>5. Exists(e) /\ e.file = Active(t) /\ (Visible(e) \/ trusted[t] = {})
  BY <1>1, <1>2, <1>3, <1>4 DEF InOrder
<1>6. /\ op'[a].step = "index" /\ op'[a].tenant = t /\ op'[a].e = e
      /\ \A b \in Actors \ {a} : op'[b] = op[b]
  BY <1>1, <1>2, <1>3, GotoIs DEF Gate
<1>7. /\ disk'[Active(t)] = OnDisk(e)
      /\ \A o \in (Tenants \cup {Base}) \ {t} : disk'[Active(o)] = disk[Active(o)]
  BY <1>3, <1>4, <1>5, ActiveChanged
<1>8. Spares(a, t)
  BY <1>3, <1>4, <1>6, <1>7, BaseIsNoTenant DEF Spares, Gate, StoreTyped
<1>9. Kept(t)'
  <2>1. CASE Visible(e)
    <3>1. trusted'[t] = e.notes  BY <1>3, <1>4, <2>1 DEF Gate, StoreTyped
    <3> QED  BY <1>7, <2>1, <3>1 DEF Kept, OnDisk, Visible
  <2>2. CASE ~ Visible(e)  BY <1>3, <1>5, <2>2 DEF Kept
  <2> QED  BY <2>1, <2>2
<1>10. Apart(t)' /\ Midway(a, t)'  BY <1>3, <1>4, <1>6 DEF Apart, Midway
<1>11. InOrder(a)'  BY <1>3, <1>4, <1>5, <1>6, <1>7 DEF InOrder
<1> QED  BY <1>1, <1>4, <1>8, <1>9, <1>10, <1>11, RestKept

(* An entry whose page was written is as a start would load it. *)
LEMMA AsLoaded ==
  ASSUME NEW t, NEW e \in Entry, Exists(e), e.file = Active(t), NEW p, p = OnDisk(e)
  PROVE  /\ p # NoPage
         /\ [status |-> p.status, notes |-> p.notes, file |-> Active(t)] = e
<1>1. e \in [status : Status, notes : SUBSET Notes, file : Files]
  BY DEF Entry, Exists, Absent
<1>2. p.status = e.status /\ p.notes = e.notes /\ p # NoPage
  BY DEF OnDisk, NoPage, Exists
<1> QED  BY <1>1, <1>2

LEMMA IndexEntryRests == ASSUME Gate, Rest, NEW a \in Actors, IndexEntry(a) PROVE Rest'
<1>1. PICK t : t = op[a].tenant  OBVIOUS
<1>2. PICK e : e = op[a].e  OBVIOUS
<1>3. /\ ~ At(a, "idle") /\ op[a].step = "index" /\ Done(a)
      /\ UNCHANGED <<disk, system, revision, trusted>>
      /\ entry' = IF entry[t].file = Active(Base) /\ e.file # Active(Base)
                  THEN entry ELSE [entry EXCEPT ![t] = e]
  BY <1>1, <1>2 DEF IndexEntry, At, ghostVars
<1>4. /\ t \in Tenants /\ \A b \in Actors \ {a} : At(b, "idle")
      /\ Kept(t) /\ Apart(t) /\ InOrder(a) /\ e \in Entry
  BY <1>1, <1>2, <1>3, Acting
<1>5. /\ Exists(e) /\ e.file = Active(t) /\ disk[Active(t)] = OnDisk(e)
      /\ entry[t].file # Active(Base)
  BY <1>1, <1>2, <1>3, <1>4 DEF InOrder
<1>6. op'[a].step = "idle" /\ \A b \in Actors \ {a} : op'[b] = op[b]
  BY <1>3, DoneIs DEF Gate
<1>7. entry' = [entry EXCEPT ![t] = e]  BY <1>3, <1>5
<1>8. entry'[t] = e  BY <1>4, <1>7 DEF Gate, StoreTyped
<1>9. InMemory(t)'
  <2>1. LoadEntry(t)' = LoadEntry(t)  BY <1>3 DEF LoadEntry
  <2>2. LoadEntry(t) = e  BY <1>4, <1>5, AsLoaded DEF LoadEntry
  <2> QED  BY <1>8, <2>1, <2>2 DEF InMemory
<1>10. Spares(a, t)  BY <1>3, <1>4, <1>6, <1>7 DEF Spares, Gate, StoreTyped
<1>11. Kept(t)' /\ Apart(t)' /\ InOrder(a)'  BY <1>3, <1>4, <1>6 DEF Kept, Apart, InOrder
<1> QED  BY <1>1, <1>4, <1>9, <1>10, <1>11, RestKept

LEMMA WriteRevisionRests == ASSUME Gate, Rest, NEW a \in Actors, WriteRevision(a) PROVE Rest'
<1>1. PICK t : t = op[a].tenant  OBVIOUS
<1>2. /\ ~ At(a, "idle") /\ ~ Midway(a, t) /\ op[a].step = "write revision"
      /\ Goto(a, "index revision") /\ UNCHANGED <<system, entry, revision, trusted>>
      /\ disk' = [disk EXCEPT ![op[a].e.file] = OnDisk(op[a].e)]
  BY DEF WriteRevision, At, Midway, ghostVars
<1>3. t \in Tenants /\ Apart(t) /\ InOrder(a)  BY <1>1, <1>2, Acting
<1>4. PICK n \in 1 .. MaxRevs : op[a].e.file = <<t, n>>
  BY <1>1, <1>2, <1>3 DEF InOrder, OwnFile
<1>5. \A o \in Tenants \cup {Base} : disk'[Active(o)] = disk[Active(o)]
  <2> SUFFICES ASSUME NEW o \in Tenants \cup {Base} PROVE disk'[Active(o)] = disk[Active(o)]
    OBVIOUS
  <2>1. <<t, n>> # Active(o)  BY BoundsAreNat DEF Active
  <2>2. Active(o) \in Files  BY BoundsAreNat DEF Active, Files
  <2> QED  BY <1>2, <1>4, <2>1, <2>2 DEF Gate, StoreTyped
<1>6. /\ op'[a].step = "index revision" /\ op'[a].tenant = t /\ op'[a].e = op[a].e
      /\ \A b \in Actors \ {a} : op'[b] = op[b]
  BY <1>1, <1>2, GotoIs DEF Gate
<1>7. InOrder(a)'  BY <1>4, <1>6 DEF InOrder, OwnFile
<1>8. Apart(t)'  BY <1>2, <1>3 DEF Apart
<1> QED  BY <1>1, <1>2, <1>5, <1>6, <1>7, <1>8, PageAlone

LEMMA IndexRevisionRests == ASSUME Gate, Rest, NEW a \in Actors, IndexRevision(a) PROVE Rest'
<1>1. PICK t : t = op[a].tenant  OBVIOUS
<1>2. /\ ~ At(a, "idle") /\ ~ Midway(a, t) /\ op[a].step = "index revision" /\ Done(a)
      /\ UNCHANGED <<system, entry, trusted>>
      /\ revision' = [revision EXCEPT ![t] = op[a].e]
      /\ disk' = disk \/ disk' = WithoutFile(revision[t].file)
  BY <1>1 DEF IndexRevision, At, Midway, ghostVars
<1>3. t \in Tenants /\ Apart(t) /\ InOrder(a)  BY <1>1, <1>2, Acting
<1>4. OwnFile(op[a].e.file, t)  BY <1>1, <1>2, <1>3 DEF InOrder
<1>5. \A o \in Tenants \cup {Base} : disk'[Active(o)] = disk[Active(o)]
  <2>1. CASE disk' = disk  BY <2>1
  <2>2. CASE disk' = WithoutFile(revision[t].file)
    <3>1. revision[t].file = NoFile \/ OwnFile(revision[t].file, t)  BY <1>3 DEF Apart, Absent
    <3> QED  BY <1>3, <2>2, <3>1, OwnFileGone
  <2> QED  BY <1>2, <2>1, <2>2
<1>6. op'[a].step = "idle" /\ \A b \in Actors \ {a} : op'[b] = op[b]
  BY <1>2, DoneIs DEF Gate
<1>7. InOrder(a)'  BY <1>6 DEF InOrder
<1>8. Apart(t)'
  <2>1. revision'[t] = op[a].e  BY <1>2, <1>3 DEF Gate, StoreTyped
  <2> QED  BY <1>4, <2>1 DEF Apart, OwnFile
<1> QED  BY <1>1, <1>2, <1>5, <1>6, <1>7, <1>8, PageAlone

LEMMA DropRevisionFileRests ==
  ASSUME Gate, Rest, NEW a \in Actors, DropRevisionFile(a) PROVE Rest'
<1>1. PICK t : t = op[a].tenant  OBVIOUS
<1>2. /\ ~ At(a, "idle") /\ ~ Midway(a, t) /\ op[a].step \in {"delete", "hide"}
      /\ UNCHANGED <<system, entry, revision, trusted>> /\ disk' = WithoutFile(op[a].other)
      /\ \/ Exists(op[a].e) /\ Goto(a, IF At(a, "delete") THEN "remove" ELSE "write archived")
         \/ Done(a)
  BY DEF DropRevisionFile, At, Midway, ghostVars
<1>3. t \in Tenants /\ Apart(t) /\ InOrder(a)  BY <1>1, <1>2, Acting
<1>4. op[a].e = entry[t] /\ (op[a].other = NoFile \/ OwnFile(op[a].other, t))
  BY <1>1, <1>2, <1>3 DEF InOrder
<1>5. \A o \in Tenants \cup {Base} : disk'[Active(o)] = disk[Active(o)]
  BY <1>2, <1>3, <1>4, OwnFileGone
<1>6. Apart(t)'  BY <1>2, <1>3 DEF Apart
<1>7. CASE Exists(op[a].e) /\ Goto(a, IF At(a, "delete") THEN "remove" ELSE "write archived")
  <2>1. /\ op'[a].step \in {"remove", "write archived"} /\ op'[a].tenant = t
        /\ op'[a].e = op[a].e /\ \A b \in Actors \ {a} : op'[b] = op[b]
    BY <1>1, <1>7, GotoIs DEF Gate
  <2>2. InOrder(a)'  BY <1>2, <1>4, <1>7, <2>1 DEF InOrder
  <2> QED  BY <1>1, <1>2, <1>5, <1>6, <2>1, <2>2, PageAlone
<1>8. CASE Done(a)
  <2>1. op'[a].step = "idle" /\ \A b \in Actors \ {a} : op'[b] = op[b]
    BY <1>8, DoneIs DEF Gate
  <2>2. InOrder(a)'  BY <2>1 DEF InOrder
  <2> QED  BY <1>1, <1>2, <1>5, <1>6, <2>1, <2>2, PageAlone
<1> QED  BY <1>2, <1>7, <1>8

LEMMA DiscardRests == ASSUME Gate, Rest, NEW a \in Actors, Discard(a) PROVE Rest'
<1>1. PICK t : t = op[a].tenant  OBVIOUS
<1>2. /\ ~ At(a, "idle") /\ ~ Midway(a, t) /\ op[a].step = "discard" /\ Done(a)
      /\ UNCHANGED <<system, entry, revision, trusted>> /\ disk' = WithoutFile(op[a].other)
  BY DEF Discard, At, Midway, ghostVars
<1>3. t \in Tenants /\ Apart(t) /\ InOrder(a)  BY <1>1, <1>2, Acting
<1>4. op[a].other = NoFile \/ OwnFile(op[a].other, t)  BY <1>1, <1>2, <1>3 DEF InOrder
<1>5. \A o \in Tenants \cup {Base} : disk'[Active(o)] = disk[Active(o)]
  BY <1>2, <1>3, <1>4, OwnFileGone
<1>6. op'[a].step = "idle" /\ \A b \in Actors \ {a} : op'[b] = op[b]
  BY <1>2, DoneIs DEF Gate
<1>7. InOrder(a)'  BY <1>6 DEF InOrder
<1>8. Apart(t)'  BY <1>2, <1>3 DEF Apart
<1> QED  BY <1>1, <1>2, <1>5, <1>6, <1>7, <1>8, PageAlone

(* A step that writes or removes the tenant's page. *)
LEMMA PageWritten ==
  ASSUME Gate, Rest, NEW a \in Actors, ~ At(a, "idle"), NEW t, t = op[a].tenant,
         \A o \in (Tenants \cup {Base}) \ {t} : disk'[Active(o)] = disk[Active(o)],
         UNCHANGED <<system, revision>>,
         \A u \in Tenants \ {t} : entry'[u] = entry[u] /\ trusted'[u] = trusted[u],
         \A b \in Actors \ {a} : op'[b] = op[b],
         Kept(t)', InMemory(t)' \/ Midway(a, t)', InOrder(a)'
  PROVE  Rest'
<1>1. t \in Tenants /\ Apart(t) /\ \A b \in Actors \ {a} : At(b, "idle")  BY Acting
<1>2. Spares(a, t)  BY <1>1, BaseIsNoTenant DEF Spares
<1>3. Apart(t)'  BY <1>1 DEF Apart
<1> QED  BY <1>1, <1>2, <1>3, RestKept

(* The trusted version of a tenant, and its entry, replaced.               *)
LEMMA TrustIs ==
  ASSUME Gate, NEW t \in Tenants, NEW ns, trusted' = [trusted EXCEPT ![t] = ns]
  PROVE  trusted'[t] = ns /\ \A u \in Tenants \ {t} : trusted'[u] = trusted[u]
BY DEF Gate, StoreTyped

LEMMA EntryIs ==
  ASSUME Gate, NEW t \in Tenants, NEW e, entry' = [entry EXCEPT ![t] = e]
  PROVE  entry'[t] = e /\ \A u \in Tenants \ {t} : entry'[u] = entry[u]
BY DEF Gate, StoreTyped

LEMMA RemoveFileRests == ASSUME Gate, Rest, NEW a \in Actors, RemoveFile(a) PROVE Rest'
<1>1. PICK t : t = op[a].tenant  OBVIOUS
<1>2. /\ ~ At(a, "idle") /\ ~ Midway(a, t) /\ op[a].step = "remove" /\ Goto(a, "forget")
      /\ UNCHANGED <<system, entry, revision>> /\ disk' = WithoutFile(op[a].e.file)
      /\ trusted' = [trusted EXCEPT ![t] = {}]
  BY <1>1 DEF RemoveFile, At, Midway
<1>3. t \in Tenants /\ InOrder(a) /\ (Exists(entry[t]) => entry[t].file = Active(t))
  BY <1>1, <1>2, Acting
<1>4. op[a].e.file = Active(t)  BY <1>1, <1>2, <1>3 DEF InOrder
<1>5. Active(t) # NoFile  BY DEF Active, NoFile
<1>6. disk' = [disk EXCEPT ![Active(t)] = NoPage]  BY <1>2, <1>4, <1>5 DEF WithoutFile
<1>7. /\ op'[a].step = "forget" /\ op'[a].tenant = t
      /\ \A b \in Actors \ {a} : op'[b] = op[b]
  BY <1>1, <1>2, GotoIs DEF Gate
<1>8. /\ disk'[Active(t)] = NoPage
      /\ \A o \in (Tenants \cup {Base}) \ {t} : disk'[Active(o)] = disk[Active(o)]
  BY <1>3, <1>6, ActiveChanged
<1>9. trusted'[t] = {} /\ \A u \in Tenants \ {t} : trusted'[u] = trusted[u]
  BY <1>2, <1>3, TrustIs
<1>10. Midway(a, t)' /\ InOrder(a)' /\ Kept(t)'
  BY <1>7, <1>8, <1>9 DEF Midway, InOrder, Kept
<1> QED  BY <1>1, <1>2, <1>7, <1>8, <1>9, <1>10, PageWritten

LEMMA ForgetRests == ASSUME Gate, Rest, NEW a \in Actors, Forget(a) PROVE Rest'
<1>1. PICK t : t = op[a].tenant  OBVIOUS
<1>2. /\ ~ At(a, "idle") /\ op[a].step = "forget" /\ Done(a)
      /\ UNCHANGED <<disk, system, revision, trusted>>
      /\ entry' = [entry EXCEPT ![t] = Absent]
  BY <1>1 DEF Forget, At, ghostVars
<1>3. /\ t \in Tenants /\ \A b \in Actors \ {a} : At(b, "idle")
      /\ Kept(t) /\ Apart(t) /\ InOrder(a)
  BY <1>1, <1>2, Acting
<1>4. op'[a].step = "idle" /\ \A b \in Actors \ {a} : op'[b] = op[b]
  BY <1>2, DoneIs DEF Gate
<1>5. disk[Active(t)] = NoPage  BY <1>1, <1>2, <1>3 DEF InOrder
<1>6. entry'[t] = Absent  BY <1>2, <1>3 DEF Gate, StoreTyped
<1>7. InMemory(t)'  BY <1>2, <1>5, <1>6 DEF InMemory, LoadEntry
<1>8. Spares(a, t)  BY <1>2, <1>3, <1>4 DEF Spares, Gate, StoreTyped
<1>9. Kept(t)' /\ Apart(t)' /\ InOrder(a)'  BY <1>2, <1>3, <1>4 DEF Kept, Apart, InOrder
<1> QED  BY <1>1, <1>3, <1>7, <1>8, <1>9, RestKept

LEMMA WriteArchivedRests == ASSUME Gate, Rest, NEW a \in Actors, WriteArchived(a) PROVE Rest'
<1>1. PICK t : t = op[a].tenant  OBVIOUS
<1>2. PICK old : old = op[a].e  OBVIOUS
<1>3. PICK e : e = [old EXCEPT !.status = "archived"]  OBVIOUS
<1>4. /\ ~ At(a, "idle") /\ ~ Midway(a, t) /\ op[a].step = "write archived"
      /\ UNCHANGED <<system, revision>> /\ disk' = [disk EXCEPT ![e.file] = OnDisk(e)]
      /\ entry' = IF SameEntry(entry[t], e) THEN [entry EXCEPT ![t].status = "archived"]
                                            ELSE entry
      /\ trusted' = [trusted EXCEPT ![t] = {}]
      /\ Begin(a, "index", t, e, op[a].other)
  BY <1>1, <1>2, <1>3 DEF WriteArchived, At, Midway
<1>5. /\ t \in Tenants /\ InOrder(a) /\ entry[t].file # Active(Base)
      /\ Exists(entry[t]) => entry[t].file = Active(t)
  BY <1>1, <1>4, Acting
<1>6. old = entry[t] /\ Exists(entry[t])  BY <1>1, <1>2, <1>4, <1>5 DEF InOrder
<1>7. old \in [status : Status, notes : SUBSET Notes, file : Files]
  BY <1>5, <1>6, GetTyped DEF Entry, Exists, Absent
<1>8. Exists(e) /\ e.file = Active(t)
  <2>1. e.status = "archived" /\ e.file = old.file  BY <1>3, <1>7
  <2> QED  BY <1>5, <1>6, <2>1 DEF Exists
<1>9. /\ op'[a].step = "index" /\ op'[a].tenant = t /\ op'[a].e = e
      /\ \A b \in Actors \ {a} : op'[b] = op[b]
  BY <1>4, BeginIs DEF Gate
<1>10. entry' = entry \/ entry' = [entry EXCEPT ![t] = e]
  <2>1. entry' = entry \/ entry' = [entry EXCEPT ![t] = [entry[t] EXCEPT !.status = "archived"]]
    BY <1>4
  <2> QED  BY <1>3, <1>6, <2>1
<1>11. /\ entry'[t].file # Active(Base)
       /\ \A u \in Tenants \ {t} : entry'[u] = entry[u]
  <2>1. CASE entry' = entry  BY <1>5, <2>1
  <2>2. CASE entry' = [entry EXCEPT ![t] = e]
    <3>1. entry'[t] = e /\ \A u \in Tenants \ {t} : entry'[u] = entry[u]
      BY <1>5, <2>2, EntryIs
    <3> QED  BY <1>5, <1>6, <1>8, <3>1
  <2> QED  BY <1>10, <2>1, <2>2
<1>12. /\ disk'[Active(t)] = OnDisk(e)
       /\ \A o \in (Tenants \cup {Base}) \ {t} : disk'[Active(o)] = disk[Active(o)]
  BY <1>4, <1>5, <1>8, ActiveChanged
<1>13. trusted'[t] = {} /\ \A u \in Tenants \ {t} : trusted'[u] = trusted[u]
  BY <1>4, <1>5, TrustIs
<1>14. Midway(a, t)' /\ InOrder(a)' /\ Kept(t)'
  BY <1>8, <1>9, <1>11, <1>12, <1>13 DEF Midway, InOrder, Kept
<1> QED  BY <1>1, <1>4, <1>9, <1>11, <1>12, <1>13, <1>14, PageWritten

LEMMA SetStatusRests == ASSUME Gate, Rest, NEW a \in Actors, SetStatus(a) PROVE Rest'
<1>1. PICK t : t = op[a].tenant  OBVIOUS
<1>2. PICK e : e = op[a].e  OBVIOUS
<1>3. /\ ~ At(a, "idle") /\ ~ Midway(a, t) /\ op[a].step = "set status" /\ Done(a)
      /\ UNCHANGED <<system, revision>> /\ disk' = [disk EXCEPT ![e.file] = OnDisk(e)]
      /\ entry' = IF SameEntry(entry[t], e) THEN [entry EXCEPT ![t].status = e.status]
                                            ELSE entry
      /\ trusted' = [trusted EXCEPT ![t] = e.notes]
  BY <1>1, <1>2 DEF SetStatus, PointerSet, At, Midway
<1>4. /\ t \in Tenants /\ InOrder(a) /\ e \in Entry
      /\ Exists(entry[t]) => entry[t].file = Active(t)
  BY <1>1, <1>2, <1>3, Acting
<1>5. e = [entry[t] EXCEPT !.status = "verified"] /\ Exists(entry[t])
  BY <1>1, <1>2, <1>3, <1>4 DEF InOrder
<1>6. entry[t] \in [status : Status, notes : SUBSET Notes, file : Files]
  BY <1>4, <1>5, GetTyped DEF Entry, Exists, Absent
<1>7. e.status = "verified" /\ e.notes = entry[t].notes /\ e.file = Active(t)
  BY <1>4, <1>5, <1>6
<1>8. SameEntry(entry[t], e) /\ Exists(e)  BY <1>5, <1>7 DEF SameEntry, Exists
<1>9. entry' = [entry EXCEPT ![t] = e]
  <2>1. entry' = [entry EXCEPT ![t] = [entry[t] EXCEPT !.status = e.status]]  BY <1>3, <1>8
  <2> QED  BY <1>5, <1>7, <2>1
<1>10. op'[a].step = "idle" /\ \A b \in Actors \ {a} : op'[b] = op[b]
  BY <1>3, DoneIs DEF Gate
<1>11. OnDisk(e) = [status |-> "verified", notes |-> e.notes]  BY <1>7 DEF OnDisk
<1>12. /\ disk'[Active(t)] = OnDisk(e)
       /\ \A o \in (Tenants \cup {Base}) \ {t} : disk'[Active(o)] = disk[Active(o)]
  BY <1>3, <1>4, <1>7, ActiveChanged
<1>13. entry'[t] = e /\ \A u \in Tenants \ {t} : entry'[u] = entry[u]
  BY <1>4, <1>9, EntryIs
<1>14. trusted'[t] = e.notes /\ \A u \in Tenants \ {t} : trusted'[u] = trusted[u]
  BY <1>3, <1>4, TrustIs
<1>15. InMemory(t)'
  BY <1>4, <1>7, <1>8, <1>12, <1>13, AsLoaded DEF InMemory, LoadEntry
<1>16. InOrder(a)' /\ Kept(t)'  BY <1>10, <1>11, <1>12, <1>14 DEF InOrder, Kept
<1> QED  BY <1>1, <1>3, <1>10, <1>12, <1>13, <1>14, <1>15, <1>16, PageWritten

LEMMA WriteReplacementRests ==
  ASSUME Gate, Rest, NEW a \in Actors, WriteReplacement(a) PROVE Rest'
<1>1. PICK t : t = op[a].tenant  OBVIOUS
<1>2. PICK e : e = op[a].e  OBVIOUS
<1>3. /\ ~ At(a, "idle") /\ op[a].step = "replace" /\ Goto(a, "drop file")
      /\ UNCHANGED <<system, entry, revision>> /\ disk' = [disk EXCEPT ![e.file] = OnDisk(e)]
      /\ trusted' = [trusted EXCEPT ![t] = e.notes]
  BY <1>1, <1>2 DEF WriteReplacement, At
<1>4. t \in Tenants /\ InOrder(a)  BY <1>1, <1>3, Acting
<1>5. /\ Visible(e) /\ e.file = Active(t)
      /\ op[a].other = NoFile \/ OwnFile(op[a].other, t)
  BY <1>1, <1>2, <1>3, <1>4 DEF InOrder
<1>6. /\ op'[a].step = "drop file" /\ op'[a].tenant = t /\ op'[a].e = e
      /\ op'[a].other = op[a].other /\ \A b \in Actors \ {a} : op'[b] = op[b]
  BY <1>1, <1>2, <1>3, GotoIs DEF Gate
<1>7. OnDisk(e) = [status |-> "verified", notes |-> e.notes]  BY <1>5 DEF OnDisk, Visible
<1>8. /\ disk'[Active(t)] = OnDisk(e)
      /\ \A o \in (Tenants \cup {Base}) \ {t} : disk'[Active(o)] = disk[Active(o)]
  BY <1>3, <1>4, <1>5, ActiveChanged
<1>9. trusted'[t] = e.notes /\ \A u \in Tenants \ {t} : trusted'[u] = trusted[u]
  BY <1>3, <1>4, TrustIs
<1>10. Midway(a, t)' /\ InOrder(a)'  BY <1>5, <1>6, <1>8 DEF Midway, InOrder, OwnFile
<1>11. Kept(t)'  BY <1>7, <1>8, <1>9 DEF Kept
<1> QED  BY <1>1, <1>3, <1>6, <1>8, <1>9, <1>10, <1>11, PageWritten

LEMMA DropApprovedFileRests ==
  ASSUME Gate, Rest, NEW a \in Actors, DropApprovedFile(a) PROVE Rest'
<1>1. PICK t : t = op[a].tenant  OBVIOUS
<1>2. /\ ~ At(a, "idle") /\ op[a].step = "drop file" /\ Goto(a, "swap")
      /\ UNCHANGED <<system, entry, revision, trusted>> /\ disk' = WithoutFile(op[a].other)
  BY DEF DropApprovedFile, At, ghostVars
<1>3. t \in Tenants /\ Kept(t) /\ InOrder(a)  BY <1>1, <1>2, Acting
<1>4. /\ Visible(op[a].e) /\ op[a].e.file = Active(t) /\ disk[Active(t)] = OnDisk(op[a].e)
      /\ op[a].other = NoFile \/ OwnFile(op[a].other, t)
  BY <1>1, <1>2, <1>3 DEF InOrder
<1>5. \A o \in Tenants \cup {Base} : disk'[Active(o)] = disk[Active(o)]
  BY <1>2, <1>3, <1>4, OwnFileGone
<1>6. /\ op'[a].step = "swap" /\ op'[a].tenant = t /\ op'[a].e = op[a].e
      /\ \A b \in Actors \ {a} : op'[b] = op[b]
  BY <1>1, <1>2, GotoIs DEF Gate
<1>7. Midway(a, t)' /\ InOrder(a)' /\ Kept(t)'
  BY <1>2, <1>3, <1>4, <1>5, <1>6 DEF Midway, InOrder, Kept
<1> QED  BY <1>1, <1>2, <1>5, <1>6, <1>7, PageWritten

LEMMA SwapRests == ASSUME Gate, Rest, NEW a \in Actors, Swap(a) PROVE Rest'
<1>1. PICK t : t = op[a].tenant  OBVIOUS
<1>2. PICK e : e = op[a].e  OBVIOUS
<1>3. /\ ~ At(a, "idle") /\ op[a].step = "swap" /\ Done(a)
      /\ UNCHANGED <<disk, system, trusted>>
      /\ revision' = [revision EXCEPT ![t] = Absent] /\ entry' = [entry EXCEPT ![t] = e]
  BY <1>1, <1>2 DEF Swap, At, ghostVars
<1>4. /\ t \in Tenants /\ \A b \in Actors \ {a} : At(b, "idle")
      /\ Kept(t) /\ InOrder(a) /\ e \in Entry
  BY <1>1, <1>2, <1>3, Acting
<1>5. Exists(e) /\ e.file = Active(t) /\ disk[Active(t)] = OnDisk(e)
  BY <1>1, <1>2, <1>3, <1>4 DEF InOrder, Visible, Exists
<1>6. op'[a].step = "idle" /\ \A b \in Actors \ {a} : op'[b] = op[b]
  BY <1>3, DoneIs DEF Gate
<1>7. entry'[t] = e /\ \A u \in Tenants \ {t} : entry'[u] = entry[u]
  BY <1>3, <1>4, EntryIs
<1>8. Spares(a, t)  BY <1>3, <1>6, <1>7 DEF Spares, Gate, StoreTyped
<1>9. Apart(t)'  BY <1>3, <1>4 DEF Apart, Gate, StoreTyped
<1>10. InMemory(t)'  BY <1>3, <1>4, <1>5, <1>7, AsLoaded DEF InMemory, LoadEntry
<1>11. Kept(t)' /\ InOrder(a)'  BY <1>3, <1>4, <1>6 DEF Kept, InOrder
<1> QED  BY <1>1, <1>4, <1>8, <1>9, <1>10, <1>11, RestKept

-----------------------------------------------------------------------------

LEMMA RestartRests == ASSUME Gate, Rest, Restart PROVE Rest'
<1>1. /\ UNCHANGED <<disk, trusted>> /\ system' = LoadEntry(Base)
      /\ entry' = [t \in Tenants |-> LoadEntry(t)]
      /\ revision' = [t \in Tenants |-> LoadRevision(t)]
      /\ op' = [a \in Actors |-> Idle]
  BY DEF Restart, ghostVars
<1>2. \A o : LoadEntry(o)' = LoadEntry(o)  BY <1>1 DEF LoadEntry
<1>3. \A a \in Actors : op'[a].step = "idle"  BY <1>1 DEF Idle
<1>4. Alone' /\ \A a \in Actors : InOrder(a)'  BY <1>3 DEF Alone, At, InOrder
<1>5. ASSUME NEW t \in Tenants PROVE (Kept(t) /\ Apart(t) /\ InMemory(t))'
  <2>1. Kept(t)'  BY <1>1 DEF Rest, Kept
  <2>2. Apart(t)'  BY <1>1, LoadedTyped DEF Gate, Apart, OwnFile
  <2>3. InMemory(t)'  BY <1>1, <1>2 DEF InMemory
  <2> QED  BY <2>1, <2>2, <2>3
<1> QED  BY <1>1, <1>2, <1>4, <1>5 DEF Rest

LEMMA RestUnchanged ==
  ASSUME Rest, UNCHANGED <<disk, system, entry, revision, op, trusted>> PROVE Rest'
<1>1. \A o : LoadEntry(o)' = LoadEntry(o)  BY DEF LoadEntry
<1>2. \A a \in Actors : InOrder(a)'  BY DEF Rest, InOrder
<1>3. Alone'  BY DEF Rest, Alone, At
<1>4. \A t \in Tenants :
        (Kept(t) /\ Apart(t) /\ (InMemory(t) \/ \E a \in Actors : Midway(a, t)))'
  BY <1>1 DEF Rest, Kept, Apart, InMemory, Midway
<1> QED  BY <1>1, <1>2, <1>3, <1>4 DEF Rest

LEMMA StepRests ==
  ASSUME Gate, Rest, NEW a \in Actors, Step(a), ~ (failures' > failures) PROVE Rest'
<1>1. ~ WriteFails(a)
  <2> SUFFICES ASSUME WriteFails(a) PROVE FALSE  OBVIOUS
  <2>1. failures \in Nat  BY BoundsAreNat DEF Gate, StoreTyped
  <2>2. failures' = failures + 1  BY DEF WriteFails
  <2> QED  BY <2>1, <2>2
<1> QED  BY <1>1, ArchiveOldRests, WriteEntryRests, IndexEntryRests, WriteRevisionRests,
            IndexRevisionRests, DropRevisionFileRests, RemoveFileRests, ForgetRests,
            WriteArchivedRests, SetStatusRests, WriteReplacementRests, DropApprovedFileRests,
            SwapRests, DiscardRests DEF Step

LEMMA EveryCallRests ==
  ASSUME Gate, Rest, NEW a \in Actors, NEW t \in Tenants, Call(a, t),
         \A b \in Actors : At(b, "idle") /\ ~ EditsBase(b)'
  PROVE  Rest'
<1>1. CASE HumanDelete(a, t)
  <2>1. UNCHANGED <<disk, system, entry, trusted>>  BY <1>1 DEF HumanDelete, ghostVars
  <2> QED  BY <1>1, <2>1, RemoveRests DEF HumanDelete
<1> QED  BY <1>1, EnsureRests, HumanEditRests, ApproveRests, RejectRests DEF Call

LEMMA RestInit == Init => Rest
<1> SUFFICES ASSUME Init PROVE Rest  OBVIOUS
<1>1. \A o \in Tenants \cup {Base} : Active(o) \in Files  BY BoundsAreNat DEF Active, Files
<1>2. \A t \in Tenants : disk[Active(t)] = NoPage
  <2>1. \A t \in Tenants : Active(t) # Active(Base)  BY BaseIsNoTenant DEF Active
  <2> QED  BY <1>1, <2>1 DEF Init
<1>3. system = LoadEntry(Base)
  <2>1. CASE BaseNotes = {}  BY <1>1, <2>1 DEF Init, LoadEntry
  <2>2. CASE BaseNotes # {}
    <3>1. disk[Active(Base)] = [status |-> "verified", notes |-> BaseNotes]
      BY <1>1, <2>2 DEF Init
    <3>2. disk[Active(Base)] # NoPage  BY <3>1 DEF NoPage
    <3> QED  BY <2>2, <3>1, <3>2 DEF Init, LoadEntry
  <2> QED  BY <2>1, <2>2
<1>4. \A t \in Tenants : Kept(t) /\ Apart(t) /\ InMemory(t)
  BY <1>2 DEF Init, Kept, Apart, InMemory, LoadEntry
<1>5. \A a \in Actors : op[a].step = "idle"  BY DEF Init, Idle
<1>6. Alone /\ \A a \in Actors : InOrder(a)  BY <1>5 DEF Alone, At, InOrder
<1> QED  BY <1>3, <1>4, <1>6 DEF Rest

LEMMA SafeHolds == Spec => []SafeInv
<1>1. Init => SafeInv  BY GateInit, RestInit DEF SafeInv
<1>2. SafeInv /\ WikiInv' /\ [Next]_vars => SafeInv'
  <2> SUFFICES ASSUME SafeInv, [Next]_vars, ~ disturbed' PROVE Rest'  BY DEF SafeInv
  <2>1. Gate  BY DEF SafeInv, WikiInv
  <2>2. CASE UNCHANGED vars
    BY <2>2, RestUnchanged DEF SafeInv, vars, storeVars, ghostVars
  <2>3. CASE Next
    <3>0. \/ disturbed' = TRUE \/ UNCHANGED disturbed
          \/ disturbed' = (disturbed \/ failures' > failures)
          \/ disturbed' = (disturbed \/ \E a \in Actors : ~ At(a, "idle") \/ EditsBase(a)')
      BY <2>3 DEF Next
    <3>1. ~ disturbed /\ Rest
      <4>1. disturbed \in BOOLEAN  BY DEF SafeInv, WikiInv
      <4> QED  BY <3>0, <4>1 DEF SafeInv
    <3>2. ASSUME NEW a \in Actors, NEW t \in Tenants, Call(a, t),
                 \A b \in Actors : At(b, "idle") /\ ~ EditsBase(b)'
          PROVE  Rest'
      BY <2>1, <3>1, <3>2, EveryCallRests
    <3>3. ASSUME NEW a \in Actors, Step(a), ~ (failures' > failures) PROVE Rest'
      BY <2>1, <3>1, <3>3, StepRests
    <3>4. CASE Restart  BY <2>1, <3>1, <3>4, RestartRests
    <3>5. CASE Tick
      BY <3>1, <3>5, RestUnchanged DEF Tick, storeVars, ghostVars
    <3> QED  BY <2>3, <3>2, <3>3, <3>4, <3>5 DEF Next
  <2> QED  BY <2>2, <2>3
<1> QED  BY <1>1, <1>2, GateHolds, PTL DEF Spec

(* While nothing disturbs the store, what a human wrote or approved last   *)
(* is verified on disk, for every start to come (retriever.go:411).        *)
THEOREM ApprovedKnowledgeSurvives == Spec => []KnowledgeSurvives
<1>1. SafeInv => KnowledgeSurvives  BY DEF SafeInv, Rest, Kept, KnowledgeSurvives
<1> QED  BY <1>1, SafeHolds, PTL

(* While nothing disturbs the store, memory at rest is what a start loads. *)
THEOREM RestartChangesNothing == Spec => []RestartIsNeutral
<1>1. SafeInv => RestartIsNeutral
  <2> SUFFICES ASSUME SafeInv, ~ disturbed, \A a \in Actors : At(a, "idle"),
                      NEW t \in Tenants
               PROVE  system = LoadEntry(Base) /\ entry[t] = LoadEntry(t)
    BY DEF RestartIsNeutral, SafeInv, Rest
  <2>1. Gate /\ Rest  BY DEF SafeInv, WikiInv
  <2>2. InMemory(t)  BY <2>1, AtRest DEF At, Midway
  <2> QED  BY <2>1, <2>2 DEF Rest, InMemory
<1> QED  BY <1>1, SafeHolds, PTL

=============================================================================
