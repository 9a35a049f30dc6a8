------------------------------ MODULE RunManager ------------------------------
(***************************************************************************)
(* The registry of executing Runs and the fan-out of their events          *)
(* (internal/channel/http/runs.go).  One mutex protects the four maps of   *)
(* the struct, so every critical section is one action; what the code does *)
(* outside the mutex -- offering an event to each subscriber's channel,    *)
(* the deferred steps of the Run's goroutine -- is an action per step.     *)
(*                                                                         *)
(* An event's payload is abstracted to the Run that emitted it and its     *)
(* ordinal n in that Run.  Runs and channels are one-time tokens: each     *)
(* call of Start or Subscribe consumes one.                                *)
(***************************************************************************)
EXTENDS Naturals, Sequences, FiniteSets, Selection, TenantIds

CONSTANTS
    Keys,       \* domain.RunKey: the (tenant, session) pairs
    TenantOf,   \* Keys -> Tenants
    Users,      \* the users a Run may act for
    Runs,       \* one token per call of Start that succeeds
    Chans,      \* one token per call of Subscribe
    EventCap,   \* eventBufferCap: events kept per session (500 in the code)
    ChanCap,    \* capacity of a subscriber's channel (64 in the code)
    MaxEmits,   \* bound of the model: events the body of one Run emits
    NoRun,      \* no entry in rm.runs
    NoKey       \* a token not used yet

ASSUME TenantOfType == TenantOf \in [Keys -> Tenants]
ASSUME CapsArePositive == EventCap \in Nat \ {0} /\ ChanCap \in Nat \ {0}
ASSUME MaxEmitsType == MaxEmits \in Nat
ASSUME NoRunIsNoRun == NoRun \notin Runs
ASSUME NoKeyIsNoKey == NoKey \notin Keys

VARIABLES
    active,     \* rm.runs: the Run registered for a key
    buffer,     \* rm.buffer: the latest events of a key, oldest first
    lastSeq,    \* rm.lastSeq: the sequence number of the newest event
    subs,       \* rm.subs: the channels an event of a key is offered to
    chan,       \* the contents of each subscriber's channel
    chanKey,    \* the key a channel was subscribed to
    pc,         \* where the goroutine of a Run is
    runKey,     \* the key captured by the goroutine
    actor,      \* Run.ActorUserID
    cancelled,  \* the Run's context is cancelled
    event,      \* the event the Run emitted last
    todo        \* the channels of emit's snapshot it was not offered to yet

regVars  == <<active, buffer, lastSeq, subs>>
chanVars == <<chan, chanKey>>
runVars  == <<pc, runKey, actor, cancelled, event, todo>>
vars     == <<regVars, chanVars, runVars>>

-----------------------------------------------------------------------------

Event == [seq : Nat, run : Runs, n : Nat]

(* "body": fn is executing; "panicked": it panicked and the deferred       *)
(* recover runs; "returned": the deferred delete(rm.runs, key) is next;    *)
(* "unregistered": the deferred close(run.done) is next; "over": closed.   *)
PC == {"unborn", "body", "panicked", "returned", "unregistered", "over"}

(* The goroutine still owns the entry of its key in rm.runs. *)
Registered(r) == pc[r] \in {"body", "panicked", "returned"}

(* <-run.done does not block; that of no Run, a nil channel, always does. *)
DoneClosed(r) == r \in Runs /\ pc[r] = "over"

(* Runs whose body saw an event offered everywhere and may go on. *)
Sent(r) == todo[r] = {}

(* Mutant: trim the new events instead of the old ones. *)
TrimNewest(buf) == IF Len(buf) > EventCap THEN SubSeq(buf, 1, EventCap) ELSE buf

Trim(buf) == IF Len(buf) > EventCap
             THEN SubSeq(buf, Len(buf) - EventCap + 1, Len(buf))
             ELSE buf

(* Mutant: the cursor's own event is replayed again. *)
EventsFrom(k, since) ==
    Picked(buffer[k], {i \in 1 .. Len(buffer[k]) : buffer[k][i].seq >= since})

(* The replay of Subscribe and the tail of ReplayAfter. *)
EventsAfter(k, since) ==
    Picked(buffer[k], {i \in 1 .. Len(buffer[k]) : buffer[k][i].seq > since})

Init ==
    /\ active    = [k \in Keys |-> NoRun]
    /\ buffer    = [k \in Keys |-> << >>]
    /\ lastSeq   = [k \in Keys |-> 0]
    /\ subs      = [k \in Keys |-> {}]
    /\ chan      = [c \in Chans |-> << >>]
    /\ chanKey   = [c \in Chans |-> NoKey]
    /\ pc        = [r \in Runs |-> "unborn"]
    /\ runKey    = [r \in Runs |-> NoKey]
    /\ actor     \in [Runs -> Users]
    /\ cancelled = [r \in Runs |-> FALSE]
    /\ event     = [r \in Runs |-> [seq |-> 0, run |-> r, n |-> 0]]
    /\ todo      = [r \in Runs |-> {}]

-----------------------------------------------------------------------------
(* The goroutine of a Run. *)

(* Mutant: a busy key is not refused. *)
StartUnchecked(r, k) ==
    /\ pc[r] = "unborn"
    /\ active' = [active EXCEPT ![k] = r]
    /\ pc'     = [pc EXCEPT ![r] = "body"]
    /\ runKey' = [runKey EXCEPT ![r] = k]
    /\ UNCHANGED <<buffer, lastSeq, subs, chanVars, actor, cancelled, event, todo>>

(* Start: a second Run of a busy key is refused (ErrRunBusy, no change).   *)
(* The actor of a token is fixed in Init: the caller passes sc.UserID.     *)
Start(r, k) ==
    /\ pc[r] = "unborn"
    /\ active[k] = NoRun
    /\ active' = [active EXCEPT ![k] = r]
    /\ pc'     = [pc EXCEPT ![r] = "body"]
    /\ runKey' = [runKey EXCEPT ![r] = k]
    /\ UNCHANGED <<buffer, lastSeq, subs, chanVars, actor, cancelled, event, todo>>

(* Mutant: the snapshot takes every key's subscribers. *)
PublishToAll(r) ==
    LET k  == runKey[r]
        be == [seq |-> lastSeq[k] + 1, run |-> r, n |-> event[r].n + 1]
    IN  /\ Sent(r)
        /\ lastSeq' = [lastSeq EXCEPT ![k] = @ + 1]
        /\ buffer'  = [buffer EXCEPT ![k] = Trim(Append(@, be))]
        /\ event'   = [event EXCEPT ![r] = be]
        /\ todo'    = [todo EXCEPT ![r] = UNION {subs[q] : q \in Keys}]
        /\ UNCHANGED <<active, subs, chanVars, runKey, actor, cancelled>>

(* The critical section of emit: number the event, keep it, snapshot the   *)
(* subscribers.                                                            *)
Publish(r) ==
    LET k  == runKey[r]
        be == [seq |-> lastSeq[k] + 1, run |-> r, n |-> event[r].n + 1]
    IN  /\ Sent(r)
        /\ lastSeq' = [lastSeq EXCEPT ![k] = @ + 1]
        /\ buffer'  = [buffer EXCEPT ![k] = Trim(Append(@, be))]
        /\ event'   = [event EXCEPT ![r] = be]
        /\ todo'    = [todo EXCEPT ![r] = subs[k]]
        /\ UNCHANGED <<active, subs, chanVars, runKey, actor, cancelled>>

Emit(r) ==
    /\ pc[r] = "body"
    /\ event[r].n < MaxEmits
    /\ Publish(r)
    /\ UNCHANGED pc

(* Mutant: the send waits for room in the channel. *)
OfferBlocking(r, c) ==
    /\ c \in todo[r] /\ Len(chan[c]) < ChanCap
    /\ todo' = [todo EXCEPT ![r] = @ \ {c}]
    /\ chan' = [chan EXCEPT ![c] = Append(@, event[r])]
    /\ UNCHANGED <<regVars, chanKey, pc, runKey, actor, cancelled, event>>

(* The non-blocking send outside the mutex: a full channel loses the event. *)
Offer(r, c) ==
    /\ c \in todo[r]
    /\ todo' = [todo EXCEPT ![r] = @ \ {c}]
    /\ chan' = IF Len(chan[c]) < ChanCap
               THEN [chan EXCEPT ![c] = Append(@, event[r])]
               ELSE chan
    /\ UNCHANGED <<regVars, chanKey, pc, runKey, actor, cancelled, event>>

Return(r) ==
    /\ pc[r] = "body" /\ Sent(r)
    /\ pc' = [pc EXCEPT ![r] = "returned"]
    /\ UNCHANGED <<regVars, chanVars, runKey, actor, cancelled, event, todo>>

Panic(r) ==
    /\ pc[r] = "body" /\ Sent(r)
    /\ pc' = [pc EXCEPT ![r] = "panicked"]
    /\ UNCHANGED <<regVars, chanVars, runKey, actor, cancelled, event, todo>>

(* The deferred recover emits an error event in place of the panic. *)
Recover(r) ==
    /\ pc[r] = "panicked"
    /\ Publish(r)
    /\ pc' = [pc EXCEPT ![r] = "returned"]

(* delete(rm.runs, key): by key, whichever Run is registered there. *)
Unregister(r) ==
    /\ pc[r] = "returned" /\ Sent(r)
    /\ active' = [active EXCEPT ![runKey[r]] = NoRun]
    /\ pc' = [pc EXCEPT ![r] = "unregistered"]
    /\ UNCHANGED <<buffer, lastSeq, subs, chanVars, runKey, actor, cancelled, event, todo>>

CloseDone(r) ==
    /\ pc[r] = "unregistered"
    /\ pc' = [pc EXCEPT ![r] = "over"]
    /\ UNCHANGED <<regVars, chanVars, runKey, actor, cancelled, event, todo>>

-----------------------------------------------------------------------------
(* Subscribers. *)

(* The caller also receives EventsAfter(k, since) and the done channel of  *)
(* active[k], read in this same critical section.                          *)
Subscribe(c, k) ==
    /\ chanKey[c] = NoKey
    /\ chanKey' = [chanKey EXCEPT ![c] = k]
    /\ subs'    = [subs EXCEPT ![k] = @ \cup {c}]
    /\ UNCHANGED <<active, buffer, lastSeq, chan, runVars>>

Receive(c) ==
    /\ chan[c] # << >>
    /\ chan' = [chan EXCEPT ![c] = Tail(@)]
    /\ UNCHANGED <<regVars, chanKey, runVars>>

Unsubscribe(c) ==
    /\ chanKey[c] # NoKey
    /\ subs' = [subs EXCEPT ![chanKey[c]] = @ \ {c}]
    /\ UNCHANGED <<active, buffer, lastSeq, chanVars, runVars>>

-----------------------------------------------------------------------------
(* Cancellation and clean-up, called by the handlers of other components.  *)

(* The registered Runs of some keys: what the loops over rm.runs visit. *)
RunsOn(ks) == {r \in Runs : \E k \in ks : active[k] = r}

CancelRuns(hit) ==
    /\ cancelled' = [r \in Runs |-> cancelled[r] \/ r \in hit]
    /\ UNCHANGED <<pc, runKey, actor, event, todo>>

Cancel(k) ==
    /\ active[k] # NoRun
    /\ CancelRuns({active[k]})
    /\ UNCHANGED <<regVars, chanVars>>

CancelTenantUser(t, u) ==
    /\ CancelRuns({r \in RunsOn({k \in Keys : TenantOf[k] = t}) : actor[r] = u})
    /\ UNCHANGED <<regVars, chanVars>>

CancelUser(u) ==
    /\ CancelRuns({r \in RunsOn(Keys) : actor[r] = u})
    /\ UNCHANGED <<regVars, chanVars>>

(* Mutant: the subscriber set survives the counter's restart. *)
ForgetButSubs(gone) ==
    /\ buffer'  = [k \in Keys |-> IF k \in gone THEN << >> ELSE buffer[k]]
    /\ lastSeq' = [k \in Keys |-> IF k \in gone THEN 0 ELSE lastSeq[k]]
    /\ UNCHANGED subs

(* Delete the buffer, the counter and the subscriber set of some keys; a   *)
(* Run executing there is not told.                                        *)
Forget(gone) ==
    /\ buffer'  = [k \in Keys |-> IF k \in gone THEN << >> ELSE buffer[k]]
    /\ lastSeq' = [k \in Keys |-> IF k \in gone THEN 0 ELSE lastSeq[k]]
    /\ subs'    = [k \in Keys |-> IF k \in gone THEN {} ELSE subs[k]]

DropSession(k) ==
    /\ Forget({k})
    /\ UNCHANGED <<active, chanVars, runVars>>

(* Only the keys that have a buffer are visited by the second loop. *)
DropTenant(t) ==
    /\ CancelRuns(RunsOn({k \in Keys : TenantOf[k] = t}))
    /\ Forget({k \in Keys : TenantOf[k] = t /\ buffer[k] # << >>})
    /\ UNCHANGED <<active, chanVars>>

-----------------------------------------------------------------------------

RunStep(r) ==
    \/ Emit(r) \/ Return(r) \/ Panic(r) \/ Recover(r)
    \/ Unregister(r) \/ CloseDone(r)
    \/ \E c \in Chans : Offer(r, c)

Next ==
    \/ \E r \in Runs : RunStep(r)
    \/ \E r \in Runs, k \in Keys : Start(r, k)
    \/ \E c \in Chans, k \in Keys : Subscribe(c, k)
    \/ \E c \in Chans : Receive(c) \/ Unsubscribe(c)
    \/ \E k \in Keys : Cancel(k) \/ DropSession(k)
    \/ \E t \in Tenants : DropTenant(t)
    \/ \E t \in Tenants, u \in Users : CancelTenantUser(t, u)
    \/ \E u \in Users : CancelUser(u)

Spec == Init /\ [][Next]_vars

-----------------------------------------------------------------------------
(* Properties. *)

TypeOK ==
    /\ active    \in [Keys -> Runs \cup {NoRun}]
    /\ buffer    \in [Keys -> Seq(Event)]
    /\ lastSeq   \in [Keys -> Nat]
    /\ subs      \in [Keys -> SUBSET Chans]
    /\ chan      \in [Chans -> Seq(Event)]
    /\ chanKey   \in [Chans -> Keys \cup {NoKey}]
    /\ pc        \in [Runs -> PC]
    /\ runKey    \in [Runs -> Keys \cup {NoKey}]
    /\ actor     \in [Runs -> Users]
    /\ cancelled \in [Runs -> BOOLEAN]
    /\ event     \in [Runs -> Event]
    /\ todo      \in [Runs -> SUBSET Chans]

(* At most one Run executes per session, and rm.runs names it: the entry   *)
(* exists from Start until the goroutine's own delete, although that       *)
(* delete is by key and not by Run.  ErrRunBusy, Running, Cancel and the   *)
(* 409 of truncate and delete all rest on this.                            *)
RegistryNamesTheWriter ==
    \A k \in Keys, r \in Runs :
        active[k] = r <=> (Registered(r) /\ runKey[r] = k)

(* The buffer of a session is the contiguous run of the latest sequence    *)
(* numbers, ending at lastSeq, of at most eventBufferCap events: trimming, *)
(* DropSession during a Run and DropTenant leave no gap a cursor-based     *)
(* replay would skip over.                                                 *)
BufferIsLatest ==
    \A k \in Keys :
        /\ Len(buffer[k]) <= EventCap
        /\ lastSeq[k] > 0 => buffer[k] # << >>
        /\ \A i \in 1 .. Len(buffer[k]) :
               buffer[k][i].seq + Len(buffer[k]) = lastSeq[k] + i

(* A subscriber's channel never carries a sequence number twice or out of  *)
(* order, although the send happens outside the mutex, the counter of a    *)
(* session restarts at every DropSession, and several Runs feed one        *)
(* channel in turn.  handleSessionStream's `be.Seq > lastSeq` relies on it.*)
ChannelAscends ==
    \A c \in Chans :
        /\ Len(chan[c]) <= ChanCap
        /\ \A i, j \in 1 .. Len(chan[c]) : i < j => chan[c][i].seq < chan[c][j].seq

(* Events never cross sessions, hence never tenants: what a session keeps  *)
(* and what its subscribers are sent was emitted by Runs of that session,  *)
(* although one registry and one token space serve all of them.            *)
SessionsStayApart ==
    /\ \A k \in Keys : \A i \in 1 .. Len(buffer[k]) : runKey[buffer[k][i].run] = k
    /\ \A c \in Chans : \A i \in 1 .. Len(chan[c]) : runKey[chan[c][i].run] = chanKey[c]

(* A panic, a client that stops reading or a DropSession never leaves a    *)
(* session busy: every Run that starts closes its done channel after its   *)
(* registration is gone.                                                   *)
RunsEnd ==
    \A r \in Runs :
        pc[r] = "body" ~> (DoneClosed(r) /\ \A k \in Keys : active[k] # r)

=============================================================================
