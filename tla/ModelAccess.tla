----------------------------- MODULE ModelAccess -----------------------------
(***************************************************************************)
(* Access to the language models (model/manager.go, model/registry.go,     *)
(* llm/client.go) while an administrator changes the configuration         *)
(* (handleConfigPut in channel/http/config.go, Store in config/config.go). *)
(*                                                                         *)
(* A call takes the route once and looks each model up when its turn       *)
(* comes; every look-up, and every step of a change, is one locked access  *)
(* of the registry.  A change is written to the file first and then made   *)
(* in the registry, which is emptied and filled again model by model.      *)
(***************************************************************************)
EXTENDS Naturals, Sequences, FiniteSets, SequencesExt

CONSTANTS
    Models,
    Streams,        \* callers of ChatStream
    Chats,          \* callers of Chat
    Puts,           \* requests that change the configuration
    Starts,         \* the models of the files the process may start with
    Lists, Routes,  \* the models and the routes an administrator asks for
    MaxRetries,     \* retries per model (10 at most, checked by the handler)
    MaxCommands     \* bound of the model: changes, cancellations and the like

ASSUME ModelsFinite  == IsFiniteSet(Models)
ASSUME AccessNumbers == {MaxRetries, MaxCommands} \subseteq Nat
ASSUME CallersApart  == Streams \cap Chats = {}

VARIABLES
    stored,     \* the configuration file: its models and its route
    registered, \* Registry.models
    router,     \* Manager.router, as the sequence of models it stands for
    shelved,    \* models of the file that were switched off when the process
                \* started, and that no change has registered since
    put,        \* where a change is, and what it has read
    call,       \* the calls and what they have done
    commands,   \* given so far
    \* For the properties only:
    unkeyed,    \* models without a key because nobody gave them one
    overlapped  \* two changes were under way at once

configVars == <<stored, registered, router, shelved, unkeyed>>
accessVars == <<configVars, put, call, commands, overlapped>>

-----------------------------------------------------------------------------

Callers == Streams \cup Chats

(* A model that is switched off or has no key cannot be called.            *)
Unlisted  == [listed |-> FALSE, enabled |-> FALSE, key |-> FALSE]
Model     == {Unlisted} \cup [listed : {TRUE}, enabled : BOOLEAN, key : BOOLEAN]
Config    == [Models -> Model]
Has(c)    == {m \in Models : c[m].listed}
Usable(c) == {m \in Models : c[m].enabled /\ c[m].key}

(* What is asked for a model: with its key or without (or with the mask    *)
(* that is shown in its place), at the endpoint it has or moved to another.*)
Wanted == [listed : BOOLEAN, enabled : BOOLEAN, key : BOOLEAN, moved : BOOLEAN]

(* uniqueModels of the default, the task's route and the fallback chain. *)
Route == {r \in SeqOf(Models, Cardinality(Models)) : IsInjective(r)}

ASSUME ChangesType ==
    Starts \subseteq Config /\ Lists \subseteq [Models -> Wanted] /\ Routes \subseteq Route

(* A change may leave out the models or the route. *)
NoList  == [m \in Models |-> Unlisted]
NoRoute == <<>>
Change  == [models : Lists, replaces : {TRUE}, route : Routes, reroutes : {TRUE}]
    \cup [models : Lists, replaces : {TRUE}, route : {NoRoute}, reroutes : {FALSE}]
    \cup [models : {NoList}, replaces : {FALSE}, route : Routes, reroutes : {TRUE}]

Rest == [step |-> "idle", models |-> NoList, replaces |-> FALSE,
         route |-> NoRoute, reroutes |-> FALSE, bare |-> {}, left |-> {}]

Quiet == [step |-> "idle", route |-> NoRoute, attempt |-> 0, heard |-> 0, emitted |-> FALSE,
          cancelled |-> FALSE, tried |-> {}, disturbed |-> FALSE]

InitialRoute == SetToSeq(Models)

(* registerModels passes over the models that are switched off. *)
Known(models) == [m \in Models |-> IF models[m].enabled THEN models[m] ELSE Unlisted]

AccessInit ==
    /\ stored     \in [models : Starts, route : {InitialRoute}]
    /\ registered = Known(stored.models)
    /\ router     = InitialRoute
    /\ shelved    = {m \in Models : ~stored.models[m].enabled}
    /\ unkeyed    = {m \in Models : ~stored.models[m].key}
    /\ put        = [p \in Puts |-> Rest] /\ commands = 0
    /\ call       = [c \in Callers |-> Quiet]
    /\ overlapped = FALSE

Command == commands < MaxCommands /\ commands' = commands + 1

Changing == \E p \in Puts : put[p].step # "idle"

-----------------------------------------------------------------------------
(* handleConfigPut. *)

With(q, key) == IF q.listed THEN [listed |-> TRUE, enabled |-> q.enabled, key |-> key]
                ELSE Unlisted

(* Mutant: the key is looked for in the reply to the console, which masks  *)
(* it.                                                                     *)
MergedMasked(models) == [m \in Models |-> With(models[m], models[m].key)]

(* The console never shows a key: a model that comes without one keeps the *)
(* one it has in the registry, if it is there, and at the same endpoint.   *)
Merged(models) ==
    [m \in Models |-> With(models[m],
        models[m].key \/ (registered[m].listed /\ registered[m].key /\ ~models[m].moved))]

(* What a request leaves without a key: a model that is moved, or that the *)
(* registry does not have.                                                 *)
Bare(models) ==
    {m \in Models : /\ models[m].listed /\ ~models[m].key
                    /\ models[m].moved \/ ~registered[m].listed}

(* A route is checked when one is given, against the models that will be   *)
(* stored; models alone may leave the stored route without its models.     *)
Valid(ch, models) == ch.reroutes => Range(ch.route) \subseteq Has(models)

BeginPut(p, ch) ==
    LET models == IF ch.replaces THEN Merged(ch.models) ELSE stored.models IN
    /\ put[p].step = "idle" /\ Command
    /\ Valid(ch, models)
    /\ put'  = [put EXCEPT ![p] = [step |-> "valid", models |-> models, replaces |-> ch.replaces,
                                   route |-> ch.route, reroutes |-> ch.reroutes,
                                   bare |-> IF ch.replaces THEN Bare(ch.models) ELSE {},
                                   left |-> {}]]
    /\ overlapped' = (overlapped \/ Changing)
    /\ UNCHANGED <<configVars, call>>

(* A call is disturbed by a change that is made while it goes on. *)
Disturb == call' = [c \in Callers |-> [call[c] EXCEPT !.disturbed = @ \/ call[c].step # "idle"]]

(* Store.Update: what was read before is written over what is stored now.  *)
Persist(p) ==
    LET r == put[p] IN
    /\ r.step = "valid"
    /\ stored' = [models |-> IF r.replaces THEN r.models ELSE stored.models,
                  route  |-> IF r.reroutes THEN r.route ELSE stored.route]
    /\ shelved' = IF r.replaces THEN {} ELSE shelved
    /\ unkeyed' = IF r.replaces THEN r.bare \cup {m \in unkeyed : ~r.models[m].key} ELSE unkeyed
    /\ put' = [put EXCEPT ![p].step = IF r.replaces THEN "reset" ELSE "route",
                          ![p].left = Has(registered)]
    /\ UNCHANGED <<registered, router, commands, call, overlapped>>

PersistFails(p) ==
    /\ put[p].step = "valid"
    /\ put' = [put EXCEPT ![p] = Rest]
    /\ UNCHANGED <<configVars, commands, call, overlapped>>

(* resetRegistry and Register, one lock each. *)
Reset(p) ==
    \E m \in put[p].left :
        /\ put[p].step = "reset"
        /\ registered' = [registered EXCEPT ![m] = Unlisted]
        /\ put' = [put EXCEPT ![p].left = @ \ {m}]
        /\ Disturb /\ UNCHANGED <<stored, router, shelved, unkeyed, commands, overlapped>>

Refill(p) ==
    /\ put[p].step = "reset" /\ put[p].left = {}
    /\ put' = [put EXCEPT ![p].step = "register", ![p].left = Has(put[p].models)]
    /\ UNCHANGED <<configVars, commands, call, overlapped>>

Register(p) ==
    \E m \in put[p].left :
        /\ put[p].step = "register"
        /\ registered' = [registered EXCEPT ![m] = put[p].models[m]]
        /\ put' = [put EXCEPT ![p].left = @ \ {m}]
        /\ Disturb /\ UNCHANGED <<stored, router, shelved, unkeyed, commands, overlapped>>

(* SetRouter ends the change. *)
SetRouter(p) ==
    /\ \/ put[p].step = "route"
       \/ put[p].step = "register" /\ put[p].left = {}
    /\ router' = IF put[p].reroutes THEN put[p].route ELSE router
    /\ put' = [put EXCEPT ![p] = Rest]
    /\ Disturb /\ UNCHANGED <<stored, registered, shelved, unkeyed, commands, overlapped>>

PutStep(p) == Persist(p) \/ PersistFails(p) \/ Reset(p) \/ Refill(p) \/ Register(p) \/ SetRouter(p)

-----------------------------------------------------------------------------
(* Manager.Chat and Manager.ChatStream, for the caller c. *)

(* routerSnapshot. *)
Started(c, disturbed) ==
    [call EXCEPT ![c] = [Quiet EXCEPT !.step = "choose", !.route = router, !.disturbed = disturbed]]

Others == UNCHANGED <<configVars, put, commands, overlapped>>

(* registry.Get; the client refuses a model without a key at once.         *)
(* Without a model left the call has failed.                               *)
Choose(c) ==
    LET r == call[c] IN
    /\ r.step = "choose"
    /\ call' = [call EXCEPT ![c] =
         IF r.route = <<>> THEN [r EXCEPT !.step = "failed"]
         ELSE IF Head(r.route) \in Usable(registered)
         THEN [r EXCEPT !.step = "ask", !.attempt = 0, !.emitted = FALSE,
                        !.tried = @ \cup {Head(r.route)}]
         ELSE [r EXCEPT !.route = Tail(@)]]
    /\ Others

(* The first words of an attempt reach the reader. *)
Emit(c) ==
    /\ c \in Streams /\ call[c].step = "ask" /\ ~call[c].emitted
    /\ call' = [call EXCEPT ![c].emitted = TRUE, ![c].heard = @ + 1]
    /\ Others

Answer(c) ==
    /\ call[c].step = "ask"
    /\ call' = [call EXCEPT ![c].step = "ok"]
    /\ Others

(* Mutant: a refused request is not tried with the next model. *)
NextModelNone(c) == [call EXCEPT ![c].step = "failed"]

NextModel(c) == [call EXCEPT ![c].step = "choose", ![c].route = Tail(@)]

(* Mutant: what was heard before an error is not kept in mind. *)
MustStopNever(c) == FALSE

(* A stream that was heard cannot be taken back. *)
MustStop(c) == call[c].emitted

(* Only a network error, 429 and 5xx are worth another attempt. *)
AttemptFails(c, retryable) ==
    /\ call[c].step = "ask"
    /\ call' = IF MustStop(c) THEN [call EXCEPT ![c].step = "failed"]
               ELSE IF retryable /\ call[c].attempt < MaxRetries
               THEN [call EXCEPT ![c].step = "backoff", ![c].attempt = @ + 1]
               ELSE NextModel(c)
    /\ Others

Again(c) ==
    /\ call[c].step = "backoff"
    /\ call' = [call EXCEPT ![c].step = "ask", ![c].emitted = FALSE]
    /\ Others

(* A cancelled wait ends a stream, but only the model's turn of a Chat. *)
StopWaiting(c) ==
    /\ call[c].step = "backoff" /\ call[c].cancelled
    /\ call' = IF c \in Streams THEN [call EXCEPT ![c].step = "failed"] ELSE NextModel(c)
    /\ Others

Cancel(c) ==
    /\ call[c].step \in {"choose", "ask", "backoff"} /\ ~call[c].cancelled
    /\ Command
    /\ call' = [call EXCEPT ![c].cancelled = TRUE]
    /\ UNCHANGED <<configVars, put, overlapped>>

CallStep(c) ==
    \/ Choose(c) \/ Emit(c) \/ Answer(c)
    \/ \E b \in BOOLEAN : AttemptFails(c, b)
    \/ Again(c) \/ StopWaiting(c)

-----------------------------------------------------------------------------

(* The registry is what the file says, but for the models left out at the  *)
(* start; a model of the file has its key, or nobody gave it one.          *)
Serves   == \A m \in Models : registered[m] = IF m \in shelved THEN Unlisted ELSE stored.models[m]
KeysKept == \A m \in Has(stored.models) : stored.models[m].key \/ m \in unkeyed

(* When no change is under way, and as long as changes did not overlap     *)
(* (handleConfigPut has no lock of its own), registry and router are what  *)
(* the file says, and a model is without a key only if a change moved it   *)
(* to another endpoint without giving one, which is meant (the comment in  *)
(* handleConfigPut), or listed it without one while the registry did not   *)
(* have it, as it does not have those switched off when the process        *)
(* started.                                                                *)
ConfigurationHolds ==
    ~overlapped /\ ~Changing => router = stored.route /\ Serves /\ KeysKept

(* What a reader hears of one ChatStream comes from one request: after the *)
(* first word neither a retry nor another model follows (manager.go).      *)
OneVoice == \A c \in Callers : call[c].heard <= 1

(* A call that failed has tried every model of its route that was there,   *)
(* unless it was cancelled, was heard, or the registry was changed under   *)
(* it (Chat and ChatStream in manager.go).                                 *)
FallsBackToAll ==
    \A c \in Callers :
        LET r == call[c] IN
        r.step = "failed" /\ ~r.cancelled /\ r.heard = 0 /\ ~r.disturbed
            => Range(router) \cap Usable(registered) \subseteq r.tried

=============================================================================
