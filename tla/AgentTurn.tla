------------------------------ MODULE AgentTurn ------------------------------
(***************************************************************************)
(* One turn of the autonomous agent (internal/agent): the loop that calls  *)
(* the model, executes the tools it asks for within budgets, gates the     *)
(* analysis it submits, and recovers from or gives up on repetition; then  *)
(* the checkpoint, the events and the messages of the turn.                *)
(*                                                                         *)
(* The model may answer anything at any time: text, nothing, or a batch of *)
(* tool calls, tools it was not offered included.  A batch is known by its *)
(* length when it is validated and by each call when it is executed.  The  *)
(* tools are: "locate" (memory_search, _recall, _list), "get" (memory_get  *)
(* of a product), "get many", "submit" (analysis_submit of products), "bad  *)
(* submit" (one the gate's other rules reject), "note" (missing_answer),   *)
(* "ask" (ask_user) and "other" (every tool that is neither gated nor      *)
(* budgeted, writes included).                                             *)
(***************************************************************************)
EXTENDS Naturals, FiniteSets

CONSTANTS
    Products, Queries, OtherArgs, \* what the tools' arguments range over
    Base,           \* the products of the base, those not visible included
    Alike,          \* the pairs of products whose names readProduct confuses
    MaxIter,        \* DefaultMaxIterations (15)
    MaxPerRound,    \* maxToolCallsPerRound (8)
    MaxPerTurn,     \* maxToolCallsPerTurn (24)
    MaxLocators,    \* maxLocatorCalls (3)
    MaxDetails,     \* maxDetailReadCalls (5)
    Repeats,        \* loopRepeatThreshold (3)
    None

ASSUME BaseType == Base \subseteq Products
ASSUME AlikeType == Alike \subseteq Products \X Products /\ \A p \in Products : <<p, p>> \in Alike
ASSUME LimitsAreNat ==
    /\ MaxIter \in Nat /\ MaxPerRound \in Nat /\ MaxPerTurn \in Nat
    /\ MaxLocators \in Nat /\ MaxDetails \in Nat /\ Repeats \in Nat

VARIABLES
    pc,         \* where the turn is
    iter,       \* iterations of the loop begun before this one
    force,      \* forceFinal: "", "analysis" or "recovery"
    retried,    \* emptyResponseRetried
    left,       \* calls of the batch not executed yet
    total,      \* totalToolCalls
    locators, details,  \* locatorCalls, detailReadCalls
    counts,     \* callCounts, by call
    submits,    \* analysisSubmits
    cache,      \* readCache: the calls whose result is reused
    read,       \* turnState.readProducts
    analysis,   \* turnState.analysis: an analysis and what it recommends
    noted,      \* turnState.answered is not empty
    pending,    \* turnState.pendingQuestion is set
    cancelled,  \* the turn's context is cancelled or timed out
    chained,    \* the checkpoint in the session's short-term memory
    checkpoint, \* the checkpoint in the history
    outcome,    \* the turn's last event: done or error
    \* For the properties only:
    opened,     \* the products whose page a tool returned
    unseen,     \* those a tool answered have no page, or none to be shown
    ran         \* tools executed

loopVars   == <<iter, force, retried>>
budgetVars == <<left, total, locators, details, counts, submits>>
stateVars  == <<read, analysis, noted, pending>>
endVars    == <<chained, checkpoint, outcome>>
vars == <<pc, loopVars, budgetVars, cache, stateVars, cancelled, endVars, opened, unseen, ran>>

-----------------------------------------------------------------------------

Calls == ({"locate"} \X Queries) \cup ({"get"} \X Products) \cup ({"other"} \X OtherArgs)
         \cup ({"get many", "submit"} \X SUBSET Products)
         \cup {<<"bad submit", "">>, <<"note", "">>, <<"ask", "">>}

Analyses   == [products : SUBSET Products]
Checkpoint == [analysis : Analyses \cup {None}, noted : BOOLEAN]

ASSUME NoneIsNothing == None \notin Analyses /\ None \notin Checkpoint

PC == {"head", "model", "calls", "answered", "chained", "saved", "done", "error", "over", "crashed"}

Init ==
    /\ pc = "head" /\ iter = 0 /\ force = "" /\ retried = FALSE
    /\ left = 0 /\ total = 0 /\ locators = 0 /\ details = 0 /\ submits = 0
    /\ counts = [c \in Calls |-> 0]
    /\ cache = {} /\ read = {} /\ analysis = None /\ noted = FALSE /\ pending = FALSE
    /\ cancelled = FALSE
    /\ chained = None /\ checkpoint = None /\ outcome = "working"
    /\ opened = {} /\ unseen = {} /\ ran = 0

Failed ==
    /\ pc' = "error"
    /\ UNCHANGED <<loopVars, budgetVars, cache, stateVars, cancelled, endVars, opened, unseen, ran>>

-----------------------------------------------------------------------------
(* The loop around the model. *)

AskModel ==
    /\ pc = "head" /\ ~ cancelled
    /\ iter < MaxIter \/ force # ""
    /\ pc' = "model"
    /\ UNCHANGED <<loopVars, budgetVars, cache, stateVars, cancelled, endVars, opened, unseen, ran>>

(* The loop's condition, then its check of the context. *)
LoopGivesUp ==
    /\ pc = "head"
    /\ cancelled \/ (iter >= MaxIter /\ force = "")
    /\ Failed

ModelFails == pc = "model" /\ Failed

(* Mutant: an empty answer is retried for ever. *)
EmptyForever ==
    /\ pc = "model"
    /\ pc' = "head"
    /\ UNCHANGED <<loopVars, budgetVars, cache, stateVars, cancelled, endVars, opened, unseen, ran>>

AnswerEmpty ==
    /\ pc = "model"
    /\ IF retried THEN Failed
       ELSE /\ retried' = TRUE
            /\ iter' = iter + 1
            /\ pc' = "head"
            /\ UNCHANGED <<force, budgetVars, cache, stateVars, cancelled, endVars, opened, unseen, ran>>

AnswerText ==
    /\ pc = "model"
    /\ pc' = "answered"
    /\ UNCHANGED <<loopVars, budgetVars, cache, stateVars, cancelled, endVars, opened, unseen, ran>>

(* Mutant: the calls of a model that was asked for text are executed. *)
AnswerBatchAnyway(n) ==
    /\ pc = "model"
    /\ IF n > MaxPerRound \/ total + n > MaxPerTurn THEN Failed
       ELSE /\ total' = total + n
            /\ left' = n
            /\ pc' = "calls"
            /\ UNCHANGED <<loopVars, locators, details, counts, submits, cache, stateVars,
                           cancelled, endVars, opened, unseen, ran>>

(* Mutant: the batch is not counted. *)
AnswerBatchUncounted(n) ==
    /\ pc = "model"
    /\ IF force # "" \/ n > MaxPerRound \/ total + n > MaxPerTurn THEN Failed
       ELSE /\ left' = n
            /\ pc' = "calls"
            /\ UNCHANGED <<loopVars, total, locators, details, counts, submits, cache, stateVars,
                           cancelled, endVars, opened, unseen, ran>>

(* A batch of n calls.  None are executed after the analysis or the        *)
(* recovery prompt; validateToolBatch rejects a batch as a whole (one with *)
(* a malformed or duplicate id is as good as one too long).                *)
AnswerBatch(n) ==
    /\ pc = "model"
    /\ IF force # "" \/ n > MaxPerRound \/ total + n > MaxPerTurn THEN Failed
       ELSE /\ total' = total + n
            /\ left' = n
            /\ pc' = "calls"
            /\ UNCHANGED <<loopVars, locators, details, counts, submits, cache, stateVars,
                           cancelled, endVars, opened, unseen, ran>>

-----------------------------------------------------------------------------
(* One call of the batch. *)

Calling == pc = "calls" /\ left > 0 /\ ~ pending /\ ~ cancelled

CallsCancelled ==
    /\ pc = "calls" /\ left > 0 /\ ~ pending /\ cancelled
    /\ Failed

Counted(c) ==
    /\ left' = left - 1
    /\ counts' = [counts EXCEPT ![c] = @ + 1]
    /\ UNCHANGED <<pc, loopVars, total, cancelled, endVars>>

Execute == ran' = ran + 1

(* A cacheable call: blocked, reused, or executed with result ok or not. *)
Blocked(c, spent, max) ==
    /\ spent >= max
    /\ UNCHANGED <<cache, read, opened, unseen, ran>>

Reused(c) ==
    /\ c \in cache
    /\ UNCHANGED <<cache, read, opened, unseen, ran>>

Locate(q) ==
    LET c == <<"locate", q>>
    IN  /\ Calling
        /\ Counted(c)
        /\ \/ Blocked(c, locators, MaxLocators) /\ UNCHANGED locators
           \/ /\ locators < MaxLocators
              /\ locators' = locators + 1
              /\ \/ Reused(c)
                 \/ /\ c \notin cache /\ Execute
                    /\ cache' \in {cache, cache \cup {c}}
                    /\ UNCHANGED <<read, opened, unseen>>
        /\ UNCHANGED <<details, submits, analysis, noted, pending>>

(* Mutant: a product counts as read although its lookup failed. *)
FetchUnchecked(c, asked, got, none) ==
    /\ c \notin cache /\ Execute
    /\ read' = read \cup asked
    /\ opened' = opened \cup got
    /\ unseen' = unseen \cup none
    /\ cache' \in {cache, cache \cup {c}}

(* Of the products asked for, got are shown; none have no page, or one the *)
(* agent may not see, which is an answer without an error and so counts as *)
(* read; the others fail (arguments that do not parse).  memory_get's      *)
(* result is cached unless it says "error"; memory_get_many's is a list,   *)
(* cached whatever its items say, unless the call as a whole fails.        *)
Fetch(c, asked, got, none) ==
    /\ c \notin cache /\ Execute
    /\ read' = read \cup got \cup none
    /\ opened' = opened \cup got
    /\ unseen' = unseen \cup none
    /\ \/ cache' = cache /\ got = {} /\ (c[1] = "get" \/ none = {})
       \/ cache' = cache \cup {c} /\ (c[1] = "get" => got # {})

Read(c, asked) ==
    /\ Calling
    /\ Counted(c)
    /\ \/ Blocked(c, details, MaxDetails) /\ UNCHANGED details
       \/ /\ details < MaxDetails
          /\ details' = details + 1
          /\ \/ Reused(c)
             \/ \E got \in SUBSET (asked \cap Base) : \E none \in SUBSET (asked \ got) :
                    Fetch(c, asked, got, none)
    /\ UNCHANGED <<locators, submits, analysis, noted, pending>>

(* validateSubmission: every product is in the base, visible or not, and   *)
(* was read in this turn, by name.                                         *)
ReadProduct(p) == \E q \in read : <<q, p>> \in Alike
Passes(ps)     == ps \subseteq Base /\ \A p \in ps : ReadProduct(p)

(* Mutant: a later submission replaces the accepted one. *)
SubmitAgain(ps) ==
    /\ Calling
    /\ Counted(<<"submit", ps>>) /\ Execute
    /\ submits' = submits + 1
    /\ analysis' = IF Passes(ps) THEN [products |-> ps] ELSE analysis
    /\ UNCHANGED <<locators, details, cache, read, noted, pending, opened, unseen>>

Submit(ps) ==
    /\ Calling
    /\ Counted(<<"submit", ps>>) /\ Execute
    /\ submits' = submits + 1
    /\ analysis' = IF analysis = None /\ Passes(ps) THEN [products |-> ps] ELSE analysis
    /\ UNCHANGED <<locators, details, cache, read, noted, pending, opened, unseen>>

SubmitBad ==
    /\ Calling
    /\ Counted(<<"bad submit", "">>) /\ Execute
    /\ submits' = submits + 1
    /\ UNCHANGED <<locators, details, cache, stateVars, opened, unseen>>

NoteAnswer ==
    /\ Calling
    /\ Counted(<<"note", "">>) /\ Execute
    /\ noted' \in {noted, TRUE}         \* malformed, or recorded
    /\ UNCHANGED <<locators, details, submits, cache, read, analysis, pending, opened, unseen>>

AskUser ==
    /\ Calling
    /\ Counted(<<"ask", "">>) /\ Execute
    /\ pending' \in BOOLEAN             \* malformed, or asked
    /\ UNCHANGED <<locators, details, submits, cache, read, analysis, noted, opened, unseen>>

CallOther(o) ==
    /\ Calling
    /\ Counted(<<"other", o>>) /\ Execute
    /\ UNCHANGED <<locators, details, submits, cache, stateVars, opened, unseen>>

-----------------------------------------------------------------------------
(* After the batch. *)

BatchOver == pc = "calls" /\ (left = 0 \/ pending)

(* detectLoop *)
Stuck == (\E c \in Calls : counts[c] >= Repeats) \/ (submits >= Repeats /\ analysis = None)

(* The question ends the turn. *)
EndWithQuestion ==
    /\ BatchOver /\ pending
    /\ pc' = "answered"
    /\ UNCHANGED <<loopVars, budgetVars, cache, stateVars, cancelled, endVars, opened, unseen, ran>>

(* The accepted analysis is frozen: the next round has no tools. *)
Freeze ==
    /\ BatchOver /\ ~ pending /\ analysis # None
    /\ force' = "analysis"
    /\ iter' = iter + 1
    /\ pc' = "head"
    /\ UNCHANGED <<retried, budgetVars, cache, stateVars, cancelled, endVars, opened, unseen, ran>>

(* Repetition: one more round, without tools. *)
Recover ==
    /\ BatchOver /\ ~ pending /\ analysis = None /\ Stuck
    /\ force' = "recovery"
    /\ counts' = [c \in Calls |-> 0]
    /\ submits' = 0
    /\ iter' = iter + 1
    /\ pc' = "head"
    /\ UNCHANGED <<retried, left, total, locators, details, cache, stateVars, cancelled, endVars, opened, unseen, ran>>

NextRound ==
    /\ BatchOver /\ ~ pending /\ analysis = None /\ ~ Stuck
    /\ iter' = iter + 1
    /\ pc' = "head"
    /\ UNCHANGED <<force, retried, budgetVars, cache, stateVars, cancelled, endVars, opened, unseen, ran>>

-----------------------------------------------------------------------------
(* The end of Message and of executeTurn. *)

Ends(from, to) ==
    /\ pc = from /\ pc' = to
    /\ UNCHANGED <<loopVars, budgetVars, cache, stateVars, cancelled, opened, unseen, ran>>

(* The session's chain gets the checkpoint, then the history. *)
Chain ==
    /\ Ends("answered", "chained")
    /\ chained' = [analysis |-> analysis, noted |-> noted]
    /\ UNCHANGED <<checkpoint, outcome>>

(* saveCP's error is dropped: the turn goes on without a checkpoint. *)
Save ==
    /\ Ends("chained", "saved")
    /\ checkpoint' \in {checkpoint, chained}
    /\ UNCHANGED <<chained, outcome>>

EmitDone ==
    /\ Ends("saved", "done")
    /\ outcome' = "done"
    /\ UNCHANGED <<chained, checkpoint>>

EmitError ==
    /\ Ends("error", "over")
    /\ outcome' = "failed"
    /\ UNCHANGED <<chained, checkpoint>>

(* The messages and the trace, with the answer or with what was streamed.  *)
WriteHistory == Ends("done", "over") /\ UNCHANGED endVars

(* The user stops the Run, or its five minutes are over. *)
CancelTurn ==
    /\ pc \notin {"over", "crashed"} /\ ~ cancelled
    /\ cancelled' = TRUE
    /\ UNCHANGED <<pc, loopVars, budgetVars, cache, stateVars, endVars, opened, unseen, ran>>

Crash ==
    /\ pc \notin {"over", "crashed"}
    /\ pc' = "crashed"
    /\ chained' = None
    /\ outcome' = "lost"
    /\ UNCHANGED <<loopVars, budgetVars, cache, stateVars, cancelled, checkpoint, opened, unseen, ran>>

-----------------------------------------------------------------------------

Call ==
    \/ \E q \in Queries : Locate(q)
    \/ \E p \in Products : Read(<<"get", p>>, {p})
    \/ \E ps \in SUBSET Products \ {{}} : Read(<<"get many", ps>>, ps)
    \/ \E ps \in SUBSET Products : Submit(ps)
    \/ SubmitBad \/ NoteAnswer \/ AskUser
    \/ \E o \in OtherArgs : CallOther(o)

TurnStep ==
    \/ AskModel \/ LoopGivesUp
    \/ ModelFails \/ AnswerEmpty \/ AnswerText
    \/ \E n \in 1 .. MaxPerRound + 1 : AnswerBatch(n)
    \/ CallsCancelled \/ Call
    \/ EndWithQuestion \/ Freeze \/ Recover \/ NextRound
    \/ Chain \/ Save \/ EmitDone \/ EmitError \/ WriteHistory

Next == TurnStep \/ CancelTurn \/ Crash

Spec == Init /\ [][Next]_vars

(* A model or tool call returns: each has a timeout. *)
FairSpec == Spec /\ WF_vars(TurnStep)

-----------------------------------------------------------------------------
(* Properties. *)

TypeOK ==
    /\ pc \in PC /\ force \in {"", "analysis", "recovery"} /\ retried \in BOOLEAN
    /\ iter \in Nat /\ left \in Nat /\ total \in Nat /\ ran \in Nat
    /\ locators \in Nat /\ details \in Nat /\ submits \in Nat
    /\ counts \in [Calls -> Nat] /\ cache \subseteq Calls
    /\ read \subseteq Products /\ opened \subseteq Products /\ unseen \subseteq Products
    /\ analysis \in Analyses \cup {None}
    /\ noted \in BOOLEAN /\ pending \in BOOLEAN /\ cancelled \in BOOLEAN
    /\ chained \in Checkpoint \cup {None} /\ checkpoint \in Checkpoint \cup {None}
    /\ outcome \in {"working", "done", "failed", "lost"}

(* The evidence gate (agent/submit.go), as far as it goes: each product    *)
(* recommended is in the base and it, or one of much the same name, was    *)
(* shown to the model in this turn or looked up and found to have no page  *)
(* to show.  A lookup that was blocked or that failed, alone or in a       *)
(* batch, fresh or out of the cache, is never evidence.                    *)
EvidenceBacked ==
    analysis # None =>
        \A p \in analysis.products : p \in Base /\ \E q \in opened \cup unseen : <<q, p>> \in Alike

(* The deterministic budgets hold whatever the model asks for: no more     *)
(* tools are executed than counted, and the model is asked at most MaxIter *)
(* times, once more for the final answer and once after an empty one.      *)
WithinBudget ==
    /\ ran + left <= total /\ total <= MaxPerTurn
    /\ locators <= MaxLocators /\ details <= MaxDetails
    /\ iter < MaxIter + 2

(* No tool is executed once the turn is committed to text: after a round   *)
(* with an accepted analysis, after the recovery prompt, after a question, *)
(* after the turn's end.                                                   *)
NoToolOnceCommitted ==
    [][ran' # ran => force = "" /\ ~ pending /\ ~ cancelled /\ outcome = "working"]_vars

(* The turn keeps its contract: see TurnContract. *)
Contract == INSTANCE TurnContract WITH remembered <- chained
KeepsContract == Contract!Spec

(* Every turn ends, whatever the model answers. *)
TurnEnds == <>(pc \in {"over", "crashed"})

=============================================================================
