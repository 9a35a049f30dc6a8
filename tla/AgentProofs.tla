----------------------------- MODULE AgentProofs -----------------------------
(***************************************************************************)
(* Proofs about the agent's turn (AgentTurn), and about the model calls it *)
(* makes while the background worker makes others and an administrator     *)
(* changes the configuration (TitleTasks and ModelAccess, which that       *)
(* extends).                                                               *)
(*                                                                         *)
(* Of a turn: what it guarantees for every number of products, tools and   *)
(* iterations, and every budget.  Of the calls: what a reader hears of     *)
(* one, which models a failed one has tried, what is left when the changes *)
(* are over, and that titles only go forward, for any models, routes,      *)
(* lists, retries and tasks.                                               *)
(***************************************************************************)
EXTENDS AgentTurn, TitleTasks, FiniteSetTheorems, TLAPS

-----------------------------------------------------------------------------
(* AgentTurn: the turn. *)

(* The loop's own bound: an iteration without forceFinal is within the     *)
(* limit; forceFinal and the retried empty answer allow one more each.     *)
Counting ==
    /\ pc = "calls" => force = ""
    /\ force = "" => iter <= MaxIter
    /\ pc \in {"model", "calls"} /\ force = "" => iter < MaxIter
    /\ iter <= MaxIter + 1
    /\ retried = FALSE => iter <= MaxIter

(* Every product that counts as read was shown, or found to have no page. *)
Evidence == read \subseteq opened \cup unseen /\ EvidenceBacked

(* Where the turn is in its end, and what it has left by then. *)
Ending ==
    /\ pc \in {"head", "model", "calls", "answered", "error"} =>
           outcome = "working" /\ chained = None /\ checkpoint = None
    /\ pc = "chained" => outcome = "working" /\ chained # None /\ checkpoint = None
    /\ pc = "saved" => outcome = "working" /\ chained # None
    /\ pc \in {"done", "over"} => outcome \in {"done", "failed"}

-----------------------------------------------------------------------------
(* The conjunction of the steps a call of a tool shares. *)

LEMMA CountedType ==
    ASSUME TypeOK, Calling, NEW c \in Calls, Counted(c)
    PROVE  /\ left' \in Nat /\ left' = left - 1 /\ counts' \in [Calls -> Nat]
           /\ UNCHANGED <<pc, iter, force, retried, total, cancelled, chained, checkpoint, outcome>>
<1>1. left' = left - 1 /\ left \in Nat /\ left > 0  BY DEF TypeOK, Calling, Counted
<1>2. counts \in [Calls -> Nat] /\ counts' = [counts EXCEPT ![c] = @ + 1]
  BY DEF TypeOK, Counted
<1>3. counts' \in [Calls -> Nat]  BY <1>2
<1>4. UNCHANGED <<pc, iter, force, retried, total, cancelled, chained, checkpoint, outcome>>
  BY DEF Counted, loopVars, endVars
<1> QED  BY <1>1, <1>3, <1>4

(* The calls are calls. *)
LEMMA CallsAreCalls ==
    /\ \A q \in Queries : <<"locate", q>> \in Calls
    /\ \A p \in Products : <<"get", p>> \in Calls
    /\ \A ps \in SUBSET Products : <<"get many", ps>> \in Calls /\ <<"submit", ps>> \in Calls
    /\ <<"bad submit", "">> \in Calls /\ <<"note", "">> \in Calls /\ <<"ask", "">> \in Calls
    /\ \A o \in OtherArgs : <<"other", o>> \in Calls
  BY DEF Calls

(* What one call of a tool may change: the lemma every invariant below     *)
(* uses for the eight kinds of call.                                       *)
CallEffect ==
    /\ pc = "calls" /\ left > 0 /\ ~ pending /\ ~ cancelled
    /\ left' = left - 1 /\ counts' \in [Calls -> Nat]
    /\ UNCHANGED <<pc, iter, force, retried, total, cancelled, chained, checkpoint, outcome>>
    /\ ran' \in {ran, ran + 1}
    /\ locators' \in {locators, locators + 1} /\ locators' <= MaxLocators
    /\ details' \in {details, details + 1} /\ details' <= MaxDetails
    /\ submits' \in {submits, submits + 1}
    /\ cache' \subseteq Calls
    /\ \E got, none \in SUBSET Products :
          read' = read \cup got \cup none /\ opened' = opened \cup got /\ unseen' = unseen \cup none
    /\ \/ analysis' = analysis
       \/ /\ analysis = None
          /\ \E ps \in SUBSET Products :
                /\ analysis' = [products |-> ps]
                /\ \A p \in ps : p \in Base /\ \E q \in read : <<q, p>> \in Alike
    /\ noted' \in {noted, TRUE} /\ pending' \in BOOLEAN
    /\ analysis' = analysis \/ noted' = noted

Budgets == locators <= MaxLocators /\ details <= MaxDetails

LEMMA CallHasEffect ==
    ASSUME TypeOK, Budgets, Call
    PROVE  CallEffect
<1> USE DEF TypeOK, Budgets
<1>0. MaxLocators \in Nat /\ MaxDetails \in Nat  BY LimitsAreNat
<1>nothing. /\ read \cup {} \cup {} = read /\ opened \cup {} = opened /\ unseen \cup {} = unseen
            /\ {} \in SUBSET Products
  OBVIOUS
<1>1. ASSUME NEW q \in Queries, Locate(q)
      PROVE  CallEffect
  <2>1. <<"locate", q>> \in Calls  BY CallsAreCalls
  <2>2. Calling /\ Counted(<<"locate", q>>)  BY <1>1 DEF Locate
  <2>3. /\ left' = left - 1 /\ counts' \in [Calls -> Nat]
        /\ UNCHANGED <<pc, iter, force, retried, total, cancelled, chained, checkpoint, outcome>>
    BY <2>1, <2>2, CountedType
  <2>4. UNCHANGED <<details, submits, analysis, noted, pending, read, opened, unseen>>
    BY <1>1 DEF Locate, Blocked, Reused
  <2>5. ran' \in {ran, ran + 1} /\ cache' \subseteq Calls
    BY <1>1, <2>1 DEF Locate, Blocked, Reused, Execute
  <2>6. locators' \in {locators, locators + 1} /\ locators' <= MaxLocators
    <3>1. \/ locators' = locators
          \/ locators < MaxLocators /\ locators' = locators + 1
      BY <1>1 DEF Locate
    <3>2. locators \in Nat /\ locators <= MaxLocators  OBVIOUS
    <3> HIDE DEF TypeOK, Budgets
    <3> QED  BY <3>1, <3>2, <1>0
  <2> QED  BY <2>2, <2>3, <2>4, <2>5, <2>6, <1>nothing DEF CallEffect, Calling
<1>2. ASSUME NEW c \in Calls, NEW asked \in SUBSET Products, Read(c, asked)
      PROVE  CallEffect
  <2>1. Calling /\ Counted(c)  BY <1>2 DEF Read
  <2>2. /\ left' = left - 1 /\ counts' \in [Calls -> Nat]
        /\ UNCHANGED <<pc, iter, force, retried, total, cancelled, chained, checkpoint, outcome>>
    BY <2>1, CountedType
  <2>3. UNCHANGED <<locators, submits, analysis, noted, pending>>
    BY <1>2 DEF Read
  <2>4. ran' \in {ran, ran + 1} /\ cache' \subseteq Calls
    BY <1>2 DEF Read, Blocked, Reused, Fetch, Execute
  <2>5. \E got, none \in SUBSET Products :
          read' = read \cup got \cup none /\ opened' = opened \cup got /\ unseen' = unseen \cup none
    <3>1. CASE UNCHANGED <<read, opened, unseen>>  BY <3>1, <1>nothing
    <3>2. ASSUME NEW got \in SUBSET (asked \cap Base), NEW none \in SUBSET (asked \ got),
                 Fetch(c, asked, got, none)
          PROVE  \E g, n \in SUBSET Products :
                    read' = read \cup g \cup n /\ opened' = opened \cup g /\ unseen' = unseen \cup n
      <4>1. got \in SUBSET Products /\ none \in SUBSET Products  OBVIOUS
      <4> QED  BY <3>2, <4>1 DEF Fetch
    <3> QED  BY <1>2, <3>1, <3>2 DEF Read, Blocked, Reused
  <2>6. details' \in {details, details + 1} /\ details' <= MaxDetails
    <3>1. \/ details' = details
          \/ details < MaxDetails /\ details' = details + 1
      BY <1>2 DEF Read
    <3>2. details \in Nat /\ details <= MaxDetails  OBVIOUS
    <3> HIDE DEF TypeOK, Budgets
    <3> QED  BY <3>1, <3>2, <1>0
  <2> QED  BY <2>1, <2>2, <2>3, <2>4, <2>5, <2>6 DEF CallEffect, Calling
<1>3. ASSUME NEW ps \in SUBSET Products, Submit(ps)
      PROVE  CallEffect
  <2>1. <<"submit", ps>> \in Calls  BY CallsAreCalls
  <2>2. Calling /\ Counted(<<"submit", ps>>)  BY <1>3 DEF Submit
  <2>3. /\ left' = left - 1 /\ counts' \in [Calls -> Nat]
        /\ UNCHANGED <<pc, iter, force, retried, total, cancelled, chained, checkpoint, outcome>>
    BY <2>1, <2>2, CountedType
  <2>4. UNCHANGED <<locators, details, cache, read, noted, pending, opened, unseen>>
        /\ submits' = submits + 1 /\ ran' = ran + 1
    BY <1>3 DEF Submit, Execute
  <2>5. \/ analysis' = analysis
        \/ /\ analysis = None /\ analysis' = [products |-> ps]
           /\ \A p \in ps : p \in Base /\ \E q \in read : <<q, p>> \in Alike
    BY <1>3 DEF Submit, Passes, ReadProduct
  <2> QED  BY <2>2, <2>3, <2>4, <2>5, <1>nothing DEF CallEffect, Calling
<1>4. ASSUME NEW c \in Calls, Calling, Counted(c), Execute,
             UNCHANGED <<locators, details, cache, read, analysis, opened, unseen>>,
             submits' \in {submits, submits + 1}, noted' \in {noted, TRUE}, pending' \in BOOLEAN
      PROVE  CallEffect
  <2>1. /\ left' = left - 1 /\ counts' \in [Calls -> Nat]
        /\ UNCHANGED <<pc, iter, force, retried, total, cancelled, chained, checkpoint, outcome>>
    BY <1>4, CountedType
  <2> QED  BY <1>4, <2>1, <1>nothing DEF CallEffect, Calling, Execute
<1>5. CASE SubmitBad
  BY <1>5, <1>4, CallsAreCalls DEF SubmitBad, stateVars
<1>6. CASE NoteAnswer
  BY <1>6, <1>4, CallsAreCalls DEF NoteAnswer
<1>7. CASE AskUser
  BY <1>7, <1>4, CallsAreCalls DEF AskUser
<1>8. ASSUME NEW o \in OtherArgs, CallOther(o)
      PROVE  CallEffect
  BY <1>8, <1>4, CallsAreCalls DEF CallOther, stateVars
<1>9. ASSUME NEW p \in Products, Read(<<"get", p>>, {p})
      PROVE  CallEffect
  <2>1. <<"get", p>> \in Calls /\ {p} \in SUBSET Products  BY CallsAreCalls
  <2> QED  BY <1>9, <1>2, <2>1
<1>10. ASSUME NEW ps \in SUBSET Products \ {{}}, Read(<<"get many", ps>>, ps)
       PROVE  CallEffect
  BY <1>10, <1>2, CallsAreCalls
<1> QED  BY <1>1, <1>3, <1>5, <1>6, <1>7, <1>8, <1>9, <1>10 DEF Call

-----------------------------------------------------------------------------
(* The parts of the inductive invariant: every step keeps each of them.    *)

Spending == Budgets /\ ran + left <= total /\ total <= MaxPerTurn

LEMMA Numbers ==
    ASSUME TypeOK
    PROVE  /\ iter \in Nat /\ left \in Nat /\ total \in Nat /\ ran \in Nat
           /\ locators \in Nat /\ details \in Nat /\ submits \in Nat
           /\ retried \in BOOLEAN
  BY DEF TypeOK

LEMMA TypeKept ==
    ASSUME TypeOK, Budgets, [Next]_vars
    PROVE  TypeOK'
<1>1. CASE Call
  <2>1. CallEffect  BY <1>1, CallHasEffect
  <2>2. analysis' \in Analyses \cup {None}
    <3>1. CASE analysis' = analysis  BY <3>1 DEF TypeOK
    <3>2. CASE \E ps \in SUBSET Products : analysis' = [products |-> ps]
      BY <3>2 DEF Analyses
    <3> QED  BY <2>1, <3>1, <3>2 DEF CallEffect
  <2>3. ran' \in Nat /\ locators' \in Nat /\ details' \in Nat /\ submits' \in Nat
    BY <2>1, Numbers DEF CallEffect
  <2>4. left' \in Nat
    <3>1. left \in Nat /\ left > 0 /\ left' = left - 1  BY <2>1, Numbers DEF CallEffect
    <3> QED  BY <3>1
  <2>5. read' \subseteq Products /\ opened' \subseteq Products /\ unseen' \subseteq Products
    BY <2>1 DEF CallEffect, TypeOK
  <2>6. UNCHANGED <<pc, iter, force, retried, total, cancelled, chained, checkpoint, outcome>>
        /\ counts' \in [Calls -> Nat] /\ cache' \subseteq Calls
        /\ noted' \in {noted, TRUE} /\ pending' \in BOOLEAN
    BY <2>1 DEF CallEffect
  <2> QED  BY <2>2, <2>3, <2>4, <2>5, <2>6 DEF TypeOK
<1>2. CASE Failed
  BY <1>2 DEF Failed, TypeOK, PC, loopVars, budgetVars, stateVars, endVars
<1>3. CASE AskModel \/ AnswerText \/ EndWithQuestion
  <2>1. pc' \in PC /\ UNCHANGED <<loopVars, budgetVars, cache, stateVars, cancelled, endVars, opened, unseen, ran>>
    BY <1>3 DEF AskModel, AnswerText, EndWithQuestion, PC
  <2> QED  BY <2>1 DEF TypeOK, loopVars, budgetVars, stateVars, endVars
<1>4. CASE AnswerEmpty
  <2>1. CASE ~ Failed
    <3>1. iter' \in Nat /\ pc' \in PC /\ retried' = TRUE
          /\ UNCHANGED <<force, budgetVars, cache, stateVars, cancelled, endVars, opened, unseen, ran>>
      BY <1>4, <2>1, Numbers DEF AnswerEmpty, PC
    <3> QED  BY <3>1 DEF TypeOK, budgetVars, stateVars, endVars
  <2> QED  BY <1>2, <2>1
<1>5. ASSUME NEW n \in 1 .. MaxPerRound + 1, AnswerBatch(n)
      PROVE  TypeOK'
  <2>1. CASE ~ Failed
    <3>1. total' = total + n /\ left' = n /\ pc' = "calls"
          /\ UNCHANGED <<loopVars, locators, details, counts, submits, cache, stateVars,
                         cancelled, endVars, opened, unseen, ran>>
      BY <1>5, <2>1 DEF AnswerBatch
    <3>2. n \in Nat  BY <1>5, LimitsAreNat
    <3>3. total \in Nat  BY Numbers
    <3>4. total' \in Nat /\ left' \in Nat  BY <3>1, <3>2, <3>3
    <3> QED  BY <3>1, <3>4 DEF TypeOK, PC, loopVars, stateVars, endVars
  <2> QED  BY <1>2, <2>1
<1>6. CASE Freeze \/ NextRound
  <2>1. iter' \in Nat /\ pc' \in PC /\ force' \in {force, "analysis"}
        /\ UNCHANGED <<retried, budgetVars, cache, stateVars, cancelled, endVars, opened, unseen, ran>>
    BY <1>6, Numbers DEF Freeze, NextRound, PC
  <2> QED  BY <2>1 DEF TypeOK, budgetVars, stateVars, endVars
<1>7. CASE Recover
  <2>1. counts' \in [Calls -> Nat] /\ submits' \in Nat  BY <1>7 DEF Recover
  <2>2. iter' \in Nat /\ pc' \in PC /\ force' = "recovery"
        /\ UNCHANGED <<retried, left, total, locators, details, cache, stateVars, cancelled, endVars, opened, unseen, ran>>
    BY <1>7, Numbers DEF Recover, PC
  <2> QED  BY <2>1, <2>2 DEF TypeOK, stateVars, endVars
<1>8. CASE Chain
  <2>1. chained' \in Checkpoint  BY <1>8 DEF Chain, Checkpoint, TypeOK
  <2> QED  BY <1>8, <2>1 DEF Chain, Ends, TypeOK, PC, loopVars, budgetVars, stateVars
<1>9. CASE Save \/ EmitDone \/ EmitError \/ WriteHistory
  BY <1>9 DEF Save, EmitDone, EmitError, WriteHistory, Ends, TypeOK, PC,
              loopVars, budgetVars, stateVars, endVars
<1>10. CASE CancelTurn \/ Crash
  BY <1>10 DEF CancelTurn, Crash, TypeOK, PC, loopVars, budgetVars, stateVars, endVars
<1>11. CASE UNCHANGED vars
  BY <1>11 DEF vars, TypeOK, loopVars, budgetVars, stateVars, endVars
<1> QED  BY <1>1, <1>2, <1>3, <1>4, <1>5, <1>6, <1>7, <1>8, <1>9, <1>10, <1>11
         DEF Next, TurnStep, LoopGivesUp, ModelFails, CallsCancelled

LEMMA SpendingKept ==
    ASSUME TypeOK, Spending, [Next]_vars
    PROVE  Spending'
<1>1. CASE Call
  <2>1. CallEffect  BY <1>1, CallHasEffect DEF Spending
  <2>2. Budgets'  BY <2>1 DEF CallEffect, Budgets
  <2>3. left' = left - 1 /\ total' = total /\ ran' \in {ran, ran + 1}  BY <2>1 DEF CallEffect
  <2>4. ran \in Nat /\ left \in Nat /\ total \in Nat /\ MaxPerTurn \in Nat
    BY Numbers, LimitsAreNat
  <2>5. ran + left <= total /\ total <= MaxPerTurn  BY DEF Spending
  <2>6. ran' + left' <= total' /\ total' <= MaxPerTurn
    <3>1. CASE ran' = ran  BY <2>3, <2>4, <2>5, <3>1
    <3>2. CASE ran' = ran + 1  BY <2>3, <2>4, <2>5, <3>2
    <3> QED  BY <2>3, <3>1, <3>2
  <2> QED  BY <2>2, <2>6 DEF Spending
<1>2. ASSUME NEW n \in 1 .. MaxPerRound + 1, AnswerBatch(n)
      PROVE  Spending'
  <2>1. CASE Failed
    BY <2>1 DEF Failed, budgetVars, Spending, Budgets
  <2>2. CASE ~ Failed
    <3>1. /\ ~ (total + n > MaxPerTurn) /\ total' = total + n /\ left' = n
          /\ UNCHANGED <<ran, locators, details>>
      BY <1>2, <2>2 DEF AnswerBatch
    <3>2. ran \in Nat /\ left \in Nat /\ total \in Nat /\ n \in Nat /\ MaxPerTurn \in Nat
      BY <1>2, Numbers, LimitsAreNat
    <3>3. ran + left <= total  BY DEF Spending
    <3>4. ran' + left' <= total' /\ total' <= MaxPerTurn
      <4>1. ran <= total  BY <3>2, <3>3
      <4> QED  BY <3>1, <3>2, <4>1
    <3> QED  BY <3>1, <3>4 DEF Spending, Budgets
  <2> QED  BY <2>1, <2>2
<1>3. CASE UNCHANGED <<ran, left, total, locators, details>>
  BY <1>3 DEF Spending, Budgets
<1>4. CASE \/ AskModel \/ LoopGivesUp \/ ModelFails \/ AnswerEmpty \/ AnswerText \/ CallsCancelled
           \/ EndWithQuestion \/ Freeze \/ NextRound \/ Recover
  BY <1>3, <1>4 DEF AskModel, LoopGivesUp, ModelFails, AnswerEmpty, AnswerText, CallsCancelled, Failed,
                    EndWithQuestion, Freeze, NextRound, Recover, budgetVars
<1>5. CASE Chain \/ Save \/ EmitDone \/ EmitError \/ WriteHistory \/ CancelTurn \/ Crash \/ UNCHANGED vars
  BY <1>3, <1>5 DEF Chain, Save, EmitDone, EmitError, WriteHistory, Ends, CancelTurn, Crash, vars, budgetVars
<1> QED  BY <1>1, <1>2, <1>4, <1>5 DEF Next, TurnStep

LEMMA CountingKept ==
    ASSUME TypeOK, Budgets, Counting, [Next]_vars
    PROVE  Counting'
<1>0. MaxIter \in Nat /\ iter \in Nat /\ retried \in BOOLEAN  BY LimitsAreNat, Numbers
<1>1. CASE UNCHANGED <<iter, force, retried>> /\ pc' # "model" /\ (pc' = "calls" => pc = "calls")
  BY <1>1 DEF Counting
<1>2. CASE Call
  <2>1. CallEffect  BY <1>2, CallHasEffect
  <2> QED  BY <1>1, <2>1 DEF CallEffect
<1>3. CASE AskModel
  BY <1>0, <1>3 DEF Counting, AskModel, loopVars
<1>4. CASE Failed
  BY <1>1, <1>4 DEF Failed, loopVars
<1>5. CASE AnswerEmpty
  <2>1. CASE ~ retried
    <3>1. /\ iter' = iter + 1 /\ retried' = TRUE /\ force' = force
          /\ pc = "model" /\ pc' = "head"
      BY <1>4, <1>5, <2>1 DEF AnswerEmpty
    <3>2. iter <= MaxIter  BY <1>0, <2>1 DEF Counting
    <3>3. force = "" => iter < MaxIter  BY <3>1 DEF Counting
    <3>4. iter' <= MaxIter + 1  BY <1>0, <3>1, <3>2
    <3>5. CASE force = ""
      <4>0. iter < MaxIter /\ iter' = iter + 1  BY <3>1, <3>3, <3>5
      <4>1. iter' <= MaxIter  BY <1>0, <4>0
      <4> QED  BY <3>1, <3>4, <4>1 DEF Counting
    <3>6. CASE force # ""  BY <3>1, <3>4, <3>6 DEF Counting
    <3> QED  BY <3>5, <3>6
  <2> QED  BY <1>4, <1>5, <2>1 DEF AnswerEmpty
<1>6. ASSUME NEW n \in 1 .. MaxPerRound + 1, AnswerBatch(n)
      PROVE  Counting'
  <2>1. CASE force = "" /\ pc = "model" /\ pc' = "calls" /\ UNCHANGED <<iter, force, retried>>
    BY <2>1 DEF Counting
  <2> QED  BY <1>4, <1>6, <2>1 DEF AnswerBatch, loopVars
<1>7. CASE Freeze \/ NextRound \/ Recover
  <2>1. pc = "calls" /\ pc' = "head" /\ iter' = iter + 1 /\ retried' = retried
    BY <1>7 DEF Freeze, NextRound, Recover, BatchOver
  <2>2. iter < MaxIter  BY <2>1 DEF Counting
  <2>3. iter' <= MaxIter /\ iter' <= MaxIter + 1  BY <1>0, <2>1, <2>2
  <2> QED  BY <2>1, <2>3 DEF Counting
<1>8. CASE AnswerText \/ EndWithQuestion \/ Chain \/ Save \/ EmitDone \/ EmitError \/ WriteHistory \/ Crash
  <2>1. UNCHANGED <<iter, force, retried>> /\ pc' \notin {"model", "calls"}
    BY <1>8 DEF AnswerText, EndWithQuestion, Chain, Save, EmitDone, EmitError, WriteHistory, Crash,
                Ends, loopVars
  <2> QED  BY <1>1, <2>1
<1>9. CASE CancelTurn \/ UNCHANGED vars
  BY <1>9 DEF CancelTurn, vars, loopVars, Counting
<1> QED  BY <1>2, <1>3, <1>4, <1>5, <1>6, <1>7, <1>8, <1>9
         DEF Next, TurnStep, LoopGivesUp, ModelFails, CallsCancelled

LEMMA EvidenceKept ==
    ASSUME TypeOK, Budgets, Evidence, [Next]_vars
    PROVE  Evidence'
<1>1. CASE Call
  <2>1. CallEffect  BY <1>1, CallHasEffect
  <2>2. /\ read' \subseteq opened' \cup unseen'
        /\ opened \cup unseen \subseteq opened' \cup unseen'
    BY <2>1 DEF CallEffect, Evidence
  <2>3. EvidenceBacked'
    <3>1. CASE analysis' = analysis
      BY <2>2, <3>1 DEF Evidence, EvidenceBacked
    <3>2. ASSUME NEW ps \in SUBSET Products, analysis' = [products |-> ps],
                 \A p \in ps : p \in Base /\ \E q \in read : <<q, p>> \in Alike
          PROVE  EvidenceBacked'
      <4>1. read \subseteq opened' \cup unseen'  BY <2>2 DEF Evidence
      <4>2. analysis'.products = ps  BY <3>2
      <4> QED  BY <3>2, <4>1, <4>2 DEF EvidenceBacked
    <3> QED  BY <2>1, <3>1, <3>2 DEF CallEffect
  <2> QED  BY <2>2, <2>3 DEF Evidence
<1>2. CASE UNCHANGED <<read, opened, unseen, analysis>>
  BY <1>2 DEF Evidence, EvidenceBacked
<1>3. CASE \/ AskModel \/ LoopGivesUp \/ ModelFails \/ AnswerEmpty \/ AnswerText \/ CallsCancelled
           \/ EndWithQuestion \/ Freeze \/ NextRound \/ Recover
           \/ \E n \in 1 .. MaxPerRound + 1 : AnswerBatch(n)
  <2>1. UNCHANGED <<stateVars, opened, unseen>>
    BY <1>3 DEF AskModel, LoopGivesUp, ModelFails, AnswerEmpty, AnswerText, CallsCancelled, Failed,
                EndWithQuestion, Freeze, NextRound, Recover, AnswerBatch
  <2> QED  BY <1>2, <2>1 DEF stateVars
<1>4. CASE Chain \/ Save \/ EmitDone \/ EmitError \/ WriteHistory \/ CancelTurn \/ Crash \/ UNCHANGED vars
  BY <1>2, <1>4 DEF Chain, Save, EmitDone, EmitError, WriteHistory, Ends, CancelTurn, Crash, vars, stateVars
<1> QED  BY <1>1, <1>3, <1>4 DEF Next, TurnStep

LEMMA EndingKept ==
    ASSUME TypeOK, Budgets, Ending, [Next]_vars
    PROVE  Ending'
<1>1. CASE Call
  <2>1. pc = "calls" /\ UNCHANGED <<pc, chained, checkpoint, outcome>>
    BY <1>1, CallHasEffect DEF CallEffect
  <2> QED  BY <2>1 DEF Ending
<1>2. CASE \/ AskModel \/ LoopGivesUp \/ ModelFails \/ AnswerEmpty \/ AnswerText \/ CallsCancelled
           \/ EndWithQuestion \/ Freeze \/ NextRound \/ Recover
           \/ \E n \in 1 .. MaxPerRound + 1 : AnswerBatch(n)
  <2>1. pc \in {"head", "model", "calls"} /\ pc' \in {"head", "model", "calls", "answered", "error"}
        /\ UNCHANGED endVars
    BY <1>2 DEF AskModel, LoopGivesUp, ModelFails, AnswerEmpty, AnswerText, CallsCancelled, Failed,
                EndWithQuestion, Freeze, NextRound, Recover, AnswerBatch, BatchOver
  <2> QED  BY <2>1 DEF Ending, endVars
<1>3. CASE Chain
  <2>1. pc = "answered" /\ pc' = "chained" /\ UNCHANGED <<checkpoint, outcome>>
        /\ chained' = [analysis |-> analysis, noted |-> noted]
    BY <1>3 DEF Chain, Ends
  <2>2. chained' \in Checkpoint  BY <2>1 DEF Checkpoint, TypeOK
  <2>3. chained' # None  BY <2>2, NoneIsNothing
  <2> QED  BY <2>1, <2>3 DEF Ending
<1>4. CASE Save
  BY <1>4 DEF Save, Ends, Ending
<1>5. CASE EmitDone \/ EmitError \/ WriteHistory
  BY <1>5 DEF EmitDone, EmitError, WriteHistory, Ends, Ending, endVars
<1>6. CASE Crash
  BY <1>6 DEF Crash, Ending
<1>7. CASE CancelTurn \/ UNCHANGED vars
  BY <1>7 DEF CancelTurn, vars, Ending, endVars, stateVars
<1> QED  BY <1>1, <1>2, <1>3, <1>4, <1>5, <1>6, <1>7 DEF Next, TurnStep

-----------------------------------------------------------------------------
(* The inductive invariant. *)
IInv == TypeOK /\ Spending /\ Counting /\ Evidence /\ Ending

THEOREM Invariant == Spec => []IInv
<1>1. Init => IInv
  <2> SUFFICES ASSUME Init PROVE IInv  OBVIOUS
  <2>1. TypeOK  BY DEF Init, TypeOK, PC
  <2>2. /\ ran = 0 /\ left = 0 /\ total = 0 /\ locators = 0 /\ details = 0 /\ iter = 0
        /\ force = "" /\ pc = "head"
    BY DEF Init
  <2>3. MaxPerTurn \in Nat /\ MaxLocators \in Nat /\ MaxDetails \in Nat /\ MaxIter \in Nat
    BY LimitsAreNat
  <2>4. Spending
    <3>1. ran + left = 0 + 0  BY <2>2
    <3>2. 0 + 0 <= 0 /\ 0 <= MaxPerTurn /\ 0 <= MaxLocators /\ 0 <= MaxDetails  BY <2>3
    <3> QED  BY <2>2, <3>1, <3>2 DEF Spending, Budgets
  <2>5. Counting
    <3>1. 0 <= MaxIter /\ 0 <= MaxIter + 1  BY <2>3
    <3> QED  BY <2>2, <3>1 DEF Counting
  <2>6. Evidence /\ Ending  BY DEF Init, Evidence, EvidenceBacked, Ending
  <2> QED  BY <2>1, <2>4, <2>5, <2>6 DEF IInv
<1>2. IInv /\ [Next]_vars => IInv'
  <2> SUFFICES ASSUME IInv, [Next]_vars PROVE IInv'  OBVIOUS
  <2>1. TypeOK /\ Spending /\ Budgets /\ Counting /\ Evidence /\ Ending  BY DEF IInv, Spending
  <2>2. TypeOK' /\ Spending' /\ Counting' /\ Evidence' /\ Ending'
    BY <2>1, TypeKept, SpendingKept, CountingKept, EvidenceKept, EndingKept
  <2> QED  BY <2>2 DEF IInv
<1> QED  BY <1>1, <1>2, PTL DEF Spec

-----------------------------------------------------------------------------
(* The theorems. *)

(* Every variable of a turn keeps its type. *)
THEOREM TypeCorrect == Spec => []TypeOK
<1>1. IInv => TypeOK  BY DEF IInv
<1> QED  BY <1>1, Invariant, PTL

(* The evidence gate of agent/submit.go, as far as it goes: each product   *)
(* an accepted analysis recommends is in the base and was shown in the     *)
(* turn, or looked up and found to have no page to show, it or one of much *)
(* the same name; no failed or blocked lookup counts, whatever was cached. *)
THEOREM RecommendationsHaveEvidence == Spec => []EvidenceBacked
<1>1. IInv => EvidenceBacked  BY DEF IInv, Evidence
<1> QED  BY <1>1, Invariant, PTL

(* The budgets of Message's loop: however the model behaves, the tools it  *)
(* has executed and the rounds it was given stay within the limits.        *)
THEOREM BudgetsHold == Spec => []WithinBudget
<1>1. IInv => WithinBudget
  <2> SUFFICES ASSUME IInv PROVE WithinBudget  OBVIOUS
  <2>1. iter \in Nat /\ MaxIter \in Nat  BY Numbers, LimitsAreNat DEF IInv
  <2>2. iter <= MaxIter + 1  BY DEF IInv, Counting
  <2>3. iter < MaxIter + 2  BY <2>1, <2>2
  <2> QED  BY <2>3 DEF IInv, Spending, Budgets, WithinBudget
<1> QED  BY <1>1, Invariant, PTL

(* A turn that froze its analysis, was told to recover, asked the user,    *)
(* was cancelled or is over executes no further tool.                      *)
THEOREM CommittedTurnsRunNoTool == Spec => NoToolOnceCommitted
<1> DEFINE Step == ran' # ran => force = "" /\ ~ pending /\ ~ cancelled /\ outcome = "working"
<1>1. ASSUME IInv, [Next]_vars PROVE Step
  <2>1. CASE Call
    <3>1. CallEffect  BY <1>1, <2>1, CallHasEffect DEF IInv, Spending
    <3> QED  BY <1>1, <3>1 DEF CallEffect, IInv, Counting, Ending
  <2>2. CASE ~ Call
    BY <1>1, <2>2 DEF Next, TurnStep, AskModel, LoopGivesUp, ModelFails, AnswerEmpty, AnswerText, AnswerBatch,
        CallsCancelled, Failed, EndWithQuestion, Freeze, NextRound, Recover, Chain, Save, EmitDone, EmitError,
        WriteHistory, Ends, CancelTurn, Crash, vars
  <2> QED  BY <2>1, <2>2
<1>2. IInv /\ [Next]_vars => [Step]_vars  BY <1>1
<1> QED  BY <1>2, Invariant, PTL DEF Spec, NoToolOnceCommitted

(* A turn implements its contract (TurnContract): one analysis at most;    *)
(* when it ends well, exactly what was accepted and noted is remembered    *)
(* and the stored checkpoint is that or, if the write failed, none; when   *)
(* it fails, neither is there.                                             *)
THEOREM KeepsItsContract == Spec => KeepsContract
<1>1. Init => Contract!Init
  BY DEF Init, Contract!Init
<1>2. ASSUME IInv, [Next]_vars
      PROVE  [Contract!Next]_(Contract!vars)
  <2> USE <1>2
  <2>0. TypeOK /\ Budgets /\ Ending  BY DEF IInv, Spending
  <2>1. CASE UNCHANGED <<outcome, analysis, noted, chained, checkpoint>>
    BY <2>1 DEF Contract!vars
  <2>2. CASE Call
    <3>1. CallEffect  BY <2>0, <2>2, CallHasEffect
    <3>2. outcome = "working" /\ chained = None /\ UNCHANGED <<outcome, chained, checkpoint>>
      BY <2>0, <3>1 DEF CallEffect, Ending
    <3>3. CASE analysis' # analysis
      <4>1. analysis = None /\ analysis' \in Analyses /\ noted' = noted
        BY <3>1, <3>3 DEF CallEffect, Analyses
      <4> QED  BY <3>2, <4>1 DEF Contract!Next, Contract!Accept
    <3>4. CASE analysis' = analysis /\ noted' = TRUE
      BY <3>2, <3>4 DEF Contract!Next, Contract!Note
    <3>5. CASE analysis' = analysis /\ noted' = noted
      BY <2>1, <3>2, <3>5
    <3> QED  BY <3>1, <3>3, <3>4, <3>5 DEF CallEffect
  <2>3. CASE \/ AskModel \/ LoopGivesUp \/ ModelFails \/ AnswerEmpty \/ AnswerText \/ CallsCancelled
             \/ EndWithQuestion \/ Freeze \/ NextRound \/ Recover
             \/ \E n \in 1 .. MaxPerRound + 1 : AnswerBatch(n)
    <3>1. UNCHANGED <<stateVars, endVars>>
      BY <2>3 DEF AskModel, LoopGivesUp, ModelFails, AnswerEmpty, AnswerText, CallsCancelled, Failed,
                  EndWithQuestion, Freeze, NextRound, Recover, AnswerBatch
    <3> QED  BY <2>1, <3>1 DEF stateVars, endVars
  <2>4. CASE WriteHistory \/ CancelTurn \/ UNCHANGED vars
    BY <2>1, <2>4 DEF WriteHistory, Ends, CancelTurn, vars, stateVars, endVars
  <2>5. CASE Chain
    BY <2>0, <2>5 DEF Chain, Ends, Ending, stateVars, Contract!Next, Contract!Remember
  <2>6. CASE Save
    <3>1. CASE checkpoint' = checkpoint
      BY <2>1, <2>6, <3>1 DEF Save, Ends, stateVars
    <3>2. CASE checkpoint' = chained
      BY <2>0, <2>6, <3>2 DEF Save, Ends, Ending, stateVars, Contract!Next, Contract!Save
    <3> QED  BY <2>6, <3>1, <3>2 DEF Save
  <2>7. CASE EmitDone
    BY <2>0, <2>7 DEF EmitDone, Ends, Ending, stateVars, Contract!Next, Contract!Finish
  <2>8. CASE EmitError
    BY <2>0, <2>8 DEF EmitError, Ends, Ending, stateVars, Contract!Next, Contract!Fail
  <2>9. CASE Crash
    BY <2>9 DEF Crash, stateVars, Contract!Next, Contract!Crash
  <2> QED  BY <2>2, <2>3, <2>4, <2>5, <2>6, <2>7, <2>8, <2>9 DEF Next, TurnStep
<1> QED  BY <1>1, <1>2, Invariant, PTL DEF Spec, KeepsContract, Contract!Spec

-----------------------------------------------------------------------------
(* TitleTasks and ModelAccess: the calls, the configuration, the titles. *)

PutSteps == {"idle", "valid", "reset", "register", "route"}
PutType  == [step : PutSteps, models : Config, replaces : BOOLEAN,
             route : Seq(Models), reroutes : BOOLEAN, bare : SUBSET Models, left : SUBSET Models]

CallSteps == {"idle", "choose", "ask", "backoff", "ok", "failed"}
CallType  == [step : CallSteps, route : Seq(Models), attempt : Nat, heard : Nat,
              emitted : BOOLEAN, cancelled : BOOLEAN, tried : SUBSET Models,
              disturbed : BOOLEAN]

ConfigTyped == /\ stored \in [models : Config, route : Seq(Models)]
               /\ registered \in Config /\ router \in Seq(Models)
               /\ shelved \subseteq Models /\ unkeyed \subseteq Models
               /\ overlapped \in BOOLEAN
PutsTyped   == put \in [Puts -> PutType]
CallsTyped  == call \in [Callers -> CallType]

(* Nothing was heard of a call before its request emitted. *)
Voice(r) ==
    /\ r.heard <= 1
    /\ r.step \in {"idle", "choose", "backoff"} => r.heard = 0
    /\ r.step = "ask" => (r.emitted <=> r.heard = 1)

(* What a call has not tried yet is still on its way, in the order of the  *)
(* route; the model it waits for counts as tried.                          *)
OnRoute == Range(router) \cap Usable(registered)

Tries(r) ==
    /\ r.step = "choose" => OnRoute \subseteq r.tried \cup Range(r.route)
    /\ r.step \in {"ask", "backoff"} => OnRoute \subseteq r.tried \cup Range(Tail(r.route))
    /\ r.step = "failed" /\ ~r.cancelled /\ r.heard = 0 => OnRoute \subseteq r.tried

CallInv ==
    \A c \in Callers : /\ Voice(call[c])
                       /\ call[c].step \in {"ask", "backoff"} => call[c].route # <<>>
                       /\ call[c].disturbed \/ Tries(call[c])

(* How far a change has come. *)
Underway(r) ==
    /\ r.step = "valid" => Serves /\ router = stored.route
    /\ r.step = "valid" /\ r.replaces =>
          \A m \in Has(r.models) : r.models[m].key \/ m \in r.bare \cup unkeyed
    /\ r.step # "valid" => stored.route = IF r.reroutes THEN r.route ELSE router
    /\ r.step \in {"reset", "register"} => stored.models = r.models /\ shelved = {}
    /\ r.step = "reset" => r.left = Has(registered)
    /\ r.step = "register" =>
          \A m \in Models : registered[m] = IF m \in r.left THEN Unlisted ELSE r.models[m]
    /\ r.step = "route" => Serves

ConfigInv ==
    ~overlapped =>
        /\ KeysKept
        /\ ~Changing => Serves /\ router = stored.route
        /\ \A p \in Puts : put[p].step # "idle" =>
              /\ Underway(put[p])
              /\ \A o \in Puts \ {p} : put[o].step = "idle"

AccessInv == ConfigTyped /\ PutsTyped /\ CallsTyped /\ CallInv /\ ConfigInv

-----------------------------------------------------------------------------

TaskType == [kind : TaskKind, turn : Nat,
             status : {"waiting", "queued", "running", "done", "failed"}]

TasksTyped ==
    /\ turns \in 0..MaxTurns /\ run \in {"idle", "turn", "schedule", "submit"}
    /\ title \in 0..UserTitle /\ pinned \in BOOLEAN
    /\ tasks \in Seq(TaskType)
    /\ queue \in Seq(Nat) /\ \A k \in DOMAIN queue : queue[k] \in DOMAIN tasks
    /\ worker \in {0} \cup DOMAIN tasks

MakesTitle(i) == tasks[i].kind = "title"
Waits(i)      == MakesTitle(i) /\ tasks[i].status = "waiting"

(* The titles still to come are those of later and later turns; the one    *)
(* that waits for the queue is the last turn's, whose Run waits with it.   *)
TitleInv ==
    /\ IF pinned THEN title = UserTitle ELSE title <= turns
    /\ \A i \in DOMAIN tasks : MakesTitle(i) => tasks[i].turn <= turns
    /\ \A i \in DOMAIN tasks : Waits(i) =>
          /\ run = "submit" /\ tasks[i].turn = turns
          /\ \A j \in DOMAIN tasks : Waits(j) => j = i
    /\ \A k \in DOMAIN queue : MakesTitle(queue[k]) =>
          /\ pinned \/ title <= tasks[queue[k]].turn
          /\ \A j \in 1..k : MakesTitle(queue[j]) => tasks[queue[j]].turn <= tasks[queue[k]].turn
          /\ worker # 0 /\ MakesTitle(worker) => tasks[worker].turn <= tasks[queue[k]].turn
    /\ worker # 0 /\ MakesTitle(worker) => pinned \/ title <= tasks[worker].turn


-----------------------------------------------------------------------------
(* A call's step changes one call, and leaves the configuration alone. *)
GoodCall(r) == /\ r \in CallType
               /\ Voice(r)
               /\ r.step \in {"ask", "backoff"} => r.route # <<>>
               /\ r.disturbed \/ Tries(r)

LEMMA RouteShrinks ==
  ASSUME NEW s \in Seq(Models), s # <<>>
  PROVE  /\ Tail(s) \in Seq(Models)
         /\ Head(s) \in Models
         /\ Range(s) = {Head(s)} \cup Range(Tail(s))
<1>1. /\ Len(s) \in Nat \ {0} /\ Tail(s) \in Seq(Models) /\ Head(s) = s[1] /\ Head(s) \in Models
      /\ DOMAIN s = 1..Len(s) /\ DOMAIN Tail(s) = 1..(Len(s) - 1)
      /\ \A i \in 1..(Len(s) - 1) : Tail(s)[i] = s[i + 1]
  OBVIOUS
<1>2. ASSUME NEW m \in Range(s) PROVE m \in {Head(s)} \cup Range(Tail(s))
  <2>1. PICK i \in 1..Len(s) : m = s[i]  BY <1>1, <1>2 DEF Range
  <2>2. CASE i = 1  BY <1>1, <2>1, <2>2
  <2>3. CASE i # 1
    <3>1. i - 1 \in 1..(Len(s) - 1) /\ Tail(s)[i - 1] = m  BY <1>1, <2>1, <2>3
    <3> QED  BY <1>1, <3>1 DEF Range
  <2> QED  BY <2>2, <2>3
<1>3. ASSUME NEW m \in {Head(s)} \cup Range(Tail(s)) PROVE m \in Range(s)
  <2>1. CASE m = Head(s)  BY <1>1, <2>1 DEF Range
  <2>2. CASE m \in Range(Tail(s))
    <3>1. PICK i \in 1..(Len(s) - 1) : m = s[i + 1]  BY <1>1, <2>2 DEF Range
    <3> QED  BY <1>1, <3>1 DEF Range
  <2> QED  BY <1>3, <2>1, <2>2
<1> QED  BY <1>1, <1>2, <1>3

LEMMA OneCall ==
  ASSUME AccessInv, NEW c \in Callers, NEW r, GoodCall(r),
         call' = [call EXCEPT ![c] = r], UNCHANGED configVars
  PROVE  CallsTyped' /\ CallInv'
<1>1. registered' = registered /\ router' = router  BY DEF configVars
<1>2. OnRoute' = OnRoute  BY <1>1 DEF OnRoute, Usable
<1>3. CallsTyped'  BY DEF AccessInv, CallsTyped, GoodCall
<1>4. \A i \in Callers : call'[i] = IF i = c THEN r ELSE call[i]
  BY DEF AccessInv, CallsTyped
<1>5. CallInv'
  <2> SUFFICES ASSUME NEW i \in Callers
               PROVE  /\ Voice(call'[i])
                      /\ call'[i].step \in {"ask", "backoff"} => call'[i].route # <<>>
                      /\ call'[i].disturbed \/ Tries(call[i])'
    BY DEF CallInv, Voice
  <2>1. CASE i = c  BY <1>2, <1>4, <2>1 DEF GoodCall, Tries
  <2>2. CASE i # c  BY <1>2, <1>4, <2>2 DEF AccessInv, CallInv, Tries
  <2> QED  BY <2>1, <2>2
<1> QED  BY <1>3, <1>5

LEMMA ChooseGood ==
  ASSUME AccessInv, NEW c \in Callers, Choose(c)
  PROVE  CallsTyped' /\ CallInv'
<1> DEFINE r == call[c]
           s == IF r.route = <<>> THEN [r EXCEPT !.step = "failed"]
                ELSE IF Head(r.route) \in Usable(registered)
                THEN [r EXCEPT !.step = "ask", !.attempt = 0, !.emitted = FALSE,
                               !.tried = @ \cup {Head(r.route)}]
                ELSE [r EXCEPT !.route = Tail(@)]
<1>1. r.step = "choose" /\ call' = [call EXCEPT ![c] = s] /\ UNCHANGED configVars
  BY DEF Choose, Others
<1>2. r \in CallType /\ Voice(r) /\ (r.disturbed \/ Tries(r))
  BY DEF AccessInv, CallsTyped, CallInv
<1>3. GoodCall(s)
  <2> HIDE DEF r
  <2>1. CASE r.route = <<>>
    <3>1. s = [r EXCEPT !.step = "failed"]  BY <2>1
    <3>2. Range(r.route) = {}  BY <2>1 DEF Range
    <3> QED  BY <1>1, <1>2, <2>1, <3>1, <3>2 DEF GoodCall, Voice, Tries, CallType, CallSteps
  <2>2. CASE r.route # <<>> /\ Head(r.route) \in Usable(registered)
    <3>1. s = [r EXCEPT !.step = "ask", !.attempt = 0, !.emitted = FALSE,
                        !.tried = @ \cup {Head(r.route)}]
      BY <2>2
    <3>2. Head(r.route) \in Models /\ Range(r.route) = {Head(r.route)} \cup Range(Tail(r.route))
      BY <1>2, <2>2, RouteShrinks DEF CallType
    <3> HIDE DEF s
    <3>3. /\ s \in CallType /\ s.step = "ask" /\ s.route = r.route /\ s.heard = r.heard
          /\ s.emitted = FALSE /\ s.disturbed = r.disturbed
          /\ s.tried = r.tried \cup {Head(r.route)}
      BY <1>2, <3>1, <3>2 DEF CallType, CallSteps
    <3> QED  BY <1>1, <1>2, <2>2, <3>2, <3>3 DEF GoodCall, Voice, Tries
  <2>3. CASE r.route # <<>> /\ Head(r.route) \notin Usable(registered)
    <3>1. s = [r EXCEPT !.route = Tail(@)]  BY <2>3
    <3>2. Head(r.route) \notin OnRoute  BY <2>3 DEF OnRoute
    <3> QED
      BY <1>1, <1>2, <2>3, <3>1, <3>2, RouteShrinks DEF GoodCall, Voice, Tries, CallType, CallSteps
  <2> QED  BY <2>1, <2>2, <2>3
<1> HIDE DEF r, s
<1> QED  BY <1>1, <1>3, OneCall


(* The next model of the route, when nothing was heard of this one. *)
LEMMA NextGood ==
  ASSUME NEW r, GoodCall(r), r.step \in {"ask", "backoff"}, r.heard = 0
  PROVE  GoodCall([r EXCEPT !.step = "choose", !.route = Tail(@)])
<1> DEFINE s == [r EXCEPT !.step = "choose", !.route = Tail(@)]
<1>1. r \in CallType /\ r.route \in Seq(Models) /\ r.route # <<>>
  BY DEF GoodCall, CallType
<1>2. Tail(r.route) \in Seq(Models)  BY <1>1, RouteShrinks
<1>3. /\ s \in CallType /\ s.step = "choose" /\ s.route = Tail(r.route) /\ s.heard = r.heard
      /\ s.tried = r.tried /\ s.disturbed = r.disturbed
  BY <1>1, <1>2 DEF CallType, CallSteps
<1> HIDE DEF s
<1>4. GoodCall(s)  BY <1>1, <1>3 DEF GoodCall, Voice, Tries
<1> QED  BY <1>4 DEF s

LEMMA AttemptGood ==
  ASSUME AccessInv, NEW c \in Callers, NEW b \in BOOLEAN, AttemptFails(c, b)
  PROVE  CallsTyped' /\ CallInv'
<1> DEFINE r == call[c]
           failed  == [r EXCEPT !.step = "failed"]
           more    == r.attempt + 1
           backoff == [r EXCEPT !.step = "backoff", !.attempt = more]
           next    == [r EXCEPT !.step = "choose", !.route = Tail(@)]
<1>1. /\ r.step = "ask" /\ UNCHANGED configVars
      /\ \/ r.emitted /\ call' = [call EXCEPT ![c] = failed]
         \/ ~r.emitted /\ call' = [call EXCEPT ![c] = backoff]
         \/ ~r.emitted /\ call' = [call EXCEPT ![c] = next]
  BY DEF AttemptFails, Others, MustStop, NextModel
<1>2. r \in CallType /\ Voice(r) /\ (r.disturbed \/ Tries(r)) /\ r.route # <<>>
  BY <1>1 DEF AccessInv, CallsTyped, CallInv
<1> HIDE DEF r
<1>3. r.emitted => GoodCall(failed)
  BY <1>1, <1>2 DEF GoodCall, Voice, Tries, CallType, CallSteps
<1>4. ~r.emitted => GoodCall(backoff)
  <2>0. more \in Nat  BY <1>2 DEF CallType
  <2> HIDE DEF more
  <2>1. /\ backoff \in CallType /\ backoff.step = "backoff" /\ backoff.route = r.route
        /\ backoff.heard = r.heard /\ backoff.tried = r.tried /\ backoff.disturbed = r.disturbed
    BY <1>2, <2>0 DEF CallType, CallSteps
  <2> HIDE DEF backoff
  <2> QED  BY <1>1, <1>2, <2>1 DEF GoodCall, Voice, Tries, CallType
<1>5. ~r.emitted => GoodCall(next)
  <2> SUFFICES ASSUME ~r.emitted PROVE GoodCall(next)  OBVIOUS
  <2>1. GoodCall([r EXCEPT !.step = "choose", !.route = Tail(@)])
    <3>1. r.heard = 0 /\ GoodCall(r)  BY <1>1, <1>2 DEF GoodCall, Voice, CallType
    <3> QED  BY <1>1, <3>1, NextGood
  <2> QED  BY <2>1
<1> HIDE DEF failed, backoff, next
<1> QED  BY <1>1, <1>3, <1>4, <1>5, OneCall

LEMMA CallGood ==
  ASSUME AccessInv, NEW c \in Callers, Cancel(c) \/ CallStep(c)
  PROVE  CallsTyped' /\ CallInv'
<1> DEFINE r == call[c]
<1>1. r \in CallType /\ GoodCall(r)
  BY DEF AccessInv, CallsTyped, CallInv, GoodCall
<1>2. ASSUME Emit(c) PROVE CallsTyped' /\ CallInv'
  <2> DEFINE n == r.heard + 1
             s == [r EXCEPT !.emitted = TRUE, !.heard = n]
  <2>1. r.step = "ask" /\ ~r.emitted /\ call' = [call EXCEPT ![c] = s] /\ UNCHANGED configVars
    BY <1>2 DEF Emit, Others
  <2>2. GoodCall(s)
    <3> HIDE DEF r
    <3>0. n \in Nat  BY <1>1 DEF CallType
    <3> HIDE DEF n
    <3>1. /\ s \in CallType /\ s.step = r.step /\ s.route = r.route /\ s.heard = n
          /\ s.emitted = TRUE /\ s.tried = r.tried /\ s.disturbed = r.disturbed
      BY <1>1, <3>0 DEF CallType
    <3> HIDE DEF s
    <3> QED  BY <1>1, <2>1, <3>1 DEF n, GoodCall, Voice, Tries, CallType
  <2> HIDE DEF r, s
  <2> QED  BY <2>1, <2>2, OneCall
<1>3. ASSUME Answer(c) PROVE CallsTyped' /\ CallInv'
  <2> DEFINE s == [r EXCEPT !.step = "ok"]
  <2>1. r.step = "ask" /\ call' = [call EXCEPT ![c] = s] /\ UNCHANGED configVars
    BY <1>3 DEF Answer, Others
  <2>2. GoodCall(s)
    <3> HIDE DEF r
    <3> QED  BY <1>1, <2>1 DEF GoodCall, Voice, Tries, CallType, CallSteps
  <2> HIDE DEF r, s
  <2> QED  BY <2>1, <2>2, OneCall
<1>4. ASSUME Again(c) PROVE CallsTyped' /\ CallInv'
  <2> DEFINE s == [r EXCEPT !.step = "ask", !.emitted = FALSE]
  <2>1. r.step = "backoff" /\ call' = [call EXCEPT ![c] = s] /\ UNCHANGED configVars
    BY <1>4 DEF Again, Others
  <2>2. GoodCall(s)
    <3> HIDE DEF r
    <3>1. /\ s \in CallType /\ s.step = "ask" /\ s.route = r.route /\ s.heard = r.heard
          /\ s.emitted = FALSE /\ s.tried = r.tried /\ s.disturbed = r.disturbed
      BY <1>1 DEF CallType, CallSteps
    <3> HIDE DEF s
    <3> QED  BY <1>1, <2>1, <3>1 DEF GoodCall, Voice, Tries, CallType
  <2> HIDE DEF r, s
  <2> QED  BY <2>1, <2>2, OneCall
<1>5. ASSUME StopWaiting(c) PROVE CallsTyped' /\ CallInv'
  <2> DEFINE failed == [r EXCEPT !.step = "failed"]
             next   == [r EXCEPT !.step = "choose", !.route = Tail(@)]
  <2>1. /\ r.step = "backoff" /\ r.cancelled /\ UNCHANGED configVars
        /\ call' = [call EXCEPT ![c] = failed] \/ call' = [call EXCEPT ![c] = next]
    BY <1>5 DEF StopWaiting, Others, NextModel
  <2>2. GoodCall(failed)
    <3> HIDE DEF r
    <3> QED  BY <1>1, <2>1 DEF GoodCall, Voice, Tries, CallType, CallSteps
  <2>3. GoodCall(next)
    <3>1. r.heard = 0  BY <1>1, <2>1 DEF GoodCall, Voice
    <3> HIDE DEF r
    <3> QED  BY <1>1, <2>1, <3>1, NextGood
  <2> HIDE DEF r, failed, next
  <2> QED  BY <2>1, <2>2, <2>3, OneCall
<1>6. ASSUME Cancel(c) PROVE CallsTyped' /\ CallInv'
  <2> DEFINE s == [r EXCEPT !.cancelled = TRUE]
  <2>1. call' = [call EXCEPT ![c] = s] /\ UNCHANGED configVars
    BY <1>6 DEF Cancel
  <2>2. GoodCall(s)
    <3> HIDE DEF r
    <3> QED  BY <1>1, <2>1 DEF GoodCall, Voice, Tries, CallType, CallSteps
  <2> HIDE DEF r, s
  <2> QED  BY <2>1, <2>2, OneCall
<1> QED  BY <1>2, <1>3, <1>4, <1>5, <1>6, ChooseGood, AttemptGood DEF CallStep

LEMMA StartGood ==
  ASSUME AccessInv, NEW c \in Callers, UNCHANGED configVars,
         call' = Started(c, Changing) \/ call' = [call EXCEPT ![c] = Quiet]
  PROVE  CallsTyped' /\ CallInv'
<1> DEFINE s == [Quiet EXCEPT !.step = "choose", !.route = router, !.disturbed = Changing]
<1>1. Quiet \in CallType /\ GoodCall(Quiet)
  <2>1. Quiet \in CallType  BY DEF Quiet, CallType, CallSteps, NoRoute
  <2> QED  BY <2>1 DEF Quiet, GoodCall, Voice, Tries
<1>2. GoodCall(s)
  <2>1. router \in Seq(Models) /\ Changing \in BOOLEAN  BY DEF AccessInv, ConfigTyped, Changing
  <2>2. /\ s \in CallType /\ s.step = "choose" /\ s.route = router /\ s.heard = 0
        /\ s.tried = {} /\ s.disturbed = Changing
    <3> HIDE DEF Changing
    <3> QED  BY <1>1, <2>1 DEF CallType, CallSteps, Quiet
  <2>3. OnRoute \subseteq Range(router)  BY DEF OnRoute
  <2> HIDE DEF s
  <2> QED  BY <2>1, <2>2, <2>3 DEF GoodCall, Voice, Tries
<1>3. call' = [call EXCEPT ![c] = s] \/ call' = [call EXCEPT ![c] = Quiet]
  BY DEF Started
<1> HIDE DEF s
<1> QED  BY <1>1, <1>2, <1>3, OneCall


-----------------------------------------------------------------------------
(* A change's step. *)

LEMMA CallsDisturbed ==
  ASSUME AccessInv, Disturb
  PROVE  CallsTyped' /\ CallInv'
<1>1. ASSUME NEW c \in Callers
      PROVE  /\ call'[c] \in CallType /\ call'[c].step = call[c].step
             /\ call'[c].route = call[c].route /\ call'[c].heard = call[c].heard
             /\ call'[c].emitted = call[c].emitted
             /\ call'[c].disturbed = (call[c].disturbed \/ call[c].step # "idle")
  <2> DEFINE r == call[c]
             b == r.disturbed \/ r.step # "idle"
  <2>1. call'[c] = [r EXCEPT !.disturbed = b]  BY DEF Disturb
  <2>2. r \in CallType /\ b \in BOOLEAN  BY DEF AccessInv, CallsTyped
  <2> HIDE DEF r, b
  <2>3. /\ call'[c] \in CallType /\ call'[c].step = r.step
        /\ call'[c].route = r.route /\ call'[c].heard = r.heard
        /\ call'[c].emitted = r.emitted /\ call'[c].disturbed = b
    BY <2>1, <2>2 DEF CallType
  <2> QED  BY <2>3 DEF r, b
<1>2. CallsTyped'  BY <1>1 DEF CallsTyped, Disturb
<1>3. CallInv'  BY <1>1 DEF AccessInv, CallInv, Voice, Tries
<1> QED  BY <1>2, <1>3

LEMMA CallsSame ==
  ASSUME AccessInv, UNCHANGED <<call, registered, router>>
  PROVE  CallsTyped' /\ CallInv'
BY DEF AccessInv, CallsTyped, CallInv, Voice, Tries, OnRoute, Usable

LEMMA OnePut ==
  ASSUME PutsTyped, NEW p \in Puts, NEW r \in PutType, put' = [put EXCEPT ![p] = r]
  PROVE  PutsTyped' /\ put'[p] = r /\ \A o \in Puts \ {p} : put'[o] = put[o]
BY DEF PutsTyped

(* With one change under way the others have nothing to say. *)
LEMMA ConfigKept ==
  ASSUME NEW p \in Puts,
         \A o \in Puts : put'[o].step # "idle" => o = p,
         KeysKept', put'[p].step # "idle" => Underway(put[p])',
         Changing' \/ (Serves' /\ router' = stored'.route)
  PROVE  ConfigInv'
<1>1. ASSUME NEW o \in Puts, put'[o].step # "idle"
      PROVE  Underway(put[o])' /\ \A i \in Puts \ {o} : put'[i].step = "idle"
  BY <1>1
<1> QED  BY <1>1 DEF ConfigInv

LEMMA RouteTyped == Route \subseteq Seq(Models)
<1> SUFFICES ASSUME NEW s \in Route PROVE s \in Seq(Models)  OBVIOUS
<1>1. Cardinality(Models) \in Nat  BY ModelsFinite, FS_CardinalityType
<1>2. PICK n \in 0..Cardinality(Models) : s \in [1..n -> Models]  BY DEF Route, SeqOf
<1>3. n \in Nat  BY <1>1, <1>2
<1> QED  BY <1>2, <1>3

LEMMA ModelFacts ==
  /\ Unlisted \in Model /\ ~Unlisted.listed
  /\ \A x \in Model : /\ x.listed \in BOOLEAN /\ x.enabled \in BOOLEAN /\ x.key \in BOOLEAN
                      /\ ~x.listed => x = Unlisted
<1>1. Unlisted \in Model  BY DEF Model
<1>2. /\ ~Unlisted.listed
      /\ Unlisted.listed \in BOOLEAN /\ Unlisted.enabled \in BOOLEAN /\ Unlisted.key \in BOOLEAN
  BY DEF Unlisted
<1>3. ASSUME NEW x \in [listed : {TRUE}, enabled : BOOLEAN, key : BOOLEAN]
      PROVE  /\ x.listed \in BOOLEAN /\ x.enabled \in BOOLEAN /\ x.key \in BOOLEAN
             /\ x.listed
  OBVIOUS
<1> QED  BY <1>1, <1>2, <1>3 DEF Model

LEMMA NoListTyped == NoList \in Config
BY ModelFacts DEF NoList, Config

LEMMA ChangeTyped ==
  ASSUME NEW ch \in Change
  PROVE  /\ ch.replaces => ch.models \in [Models -> Wanted]
         /\ ch.route \in Seq(Models) /\ ch.replaces \in BOOLEAN /\ ch.reroutes \in BOOLEAN
<1>1. Lists \subseteq [Models -> Wanted] /\ Routes \subseteq Seq(Models)
  BY ChangesType, RouteTyped
<1>2. NoRoute \in Seq(Models)  BY DEF NoRoute
<1> HIDE DEF NoList, NoRoute
<1>3. \/ ch \in [models : Lists, replaces : {TRUE}, route : Routes, reroutes : {TRUE}]
      \/ ch \in [models : Lists, replaces : {TRUE}, route : {NoRoute}, reroutes : {FALSE}]
      \/ ch \in [models : {NoList}, replaces : {FALSE}, route : Routes, reroutes : {TRUE}]
  BY DEF Change
<1>4. ch.route \in Seq(Models)  BY <1>1, <1>2, <1>3
<1>5. ch.replaces \in BOOLEAN /\ ch.reroutes \in BOOLEAN  BY <1>3
<1>6. ASSUME ch.replaces PROVE ch.models \in Lists  BY <1>3, <1>6
<1> QED  BY <1>1, <1>4, <1>5, <1>6

(* What a request makes of the models: each key is given, or that of the   *)
(* registry, or accounted for in Bare.                                     *)
LEMMA MergedFacts ==
  ASSUME registered \in Config, NEW models \in [Models -> Wanted]
  PROVE  /\ Merged(models) \in Config
         /\ \A m \in Has(Merged(models)) :
               \/ Merged(models)[m].key \/ m \in Bare(models)
               \/ registered[m].listed /\ ~registered[m].key
<1>1. ASSUME NEW m \in Models
      PROVE  /\ Merged(models)[m] \in Model
             /\ Merged(models)[m].listed =>
                   \/ Merged(models)[m].key \/ m \in Bare(models)
                   \/ registered[m].listed /\ ~registered[m].key
  <2> DEFINE q   == models[m]
             key == q.key \/ (registered[m].listed /\ registered[m].key /\ ~q.moved)
  <2>1. Merged(models)[m] = With(q, key)  BY DEF Merged
  <2>2. /\ q.listed \in BOOLEAN /\ q.enabled \in BOOLEAN
        /\ q.key \in BOOLEAN /\ q.moved \in BOOLEAN /\ key \in BOOLEAN
    BY DEF Wanted
  <2>3. registered[m] \in Model  BY DEF Config
  <2>4. CASE ~q.listed
    <3>1. Merged(models)[m] = Unlisted  BY <2>1, <2>4 DEF With
    <3> QED  BY <3>1, ModelFacts
  <2>5. CASE q.listed
    <3> DEFINE x == [listed |-> TRUE, enabled |-> q.enabled, key |-> key]
    <3>1. Merged(models)[m] = x  BY <2>1, <2>5 DEF With
    <3>2. x \in Model /\ x.key = key  BY <2>2 DEF Model
    <3>3. ~key => m \in Bare(models) \/ (registered[m].listed /\ ~registered[m].key)
      BY <2>5 DEF Bare
    <3> HIDE DEF x
    <3> QED  BY <3>1, <3>2, <3>3
  <2> QED  BY <2>2, <2>4, <2>5
<1>2. Merged(models) \in Config  BY <1>1 DEF Merged, Config
<1> QED  BY <1>1, <1>2 DEF Has

(* A change that comes alone finds every key where it looks for it. *)
LEMMA BeginPutGood ==
  ASSUME AccessInv, NEW p \in Puts, NEW ch \in Change, BeginPut(p, ch)
  PROVE  AccessInv'
<1> DEFINE models == IF ch.replaces THEN Merged(ch.models) ELSE stored.models
           bare == IF ch.replaces THEN Bare(ch.models) ELSE {}
           r == [step |-> "valid", models |-> models, replaces |-> ch.replaces,
                 route |-> ch.route, reroutes |-> ch.reroutes, bare |-> bare, left |-> {}]
<1>1. /\ put[p].step = "idle" /\ put' = [put EXCEPT ![p] = r]
      /\ overlapped' = (overlapped \/ Changing)
      /\ UNCHANGED <<stored, registered, router, shelved, unkeyed, call>>
  BY DEF BeginPut, configVars
<1>2. /\ ConfigTyped /\ PutsTyped /\ ConfigInv
      /\ stored.models \in Config /\ stored.route \in Seq(Models) /\ registered \in Config
  BY DEF AccessInv, ConfigTyped
<1>3. ASSUME ch.replaces
      PROVE  /\ Merged(ch.models) \in Config
             /\ \A m \in Has(Merged(ch.models)) :
                   \/ Merged(ch.models)[m].key \/ m \in Bare(ch.models)
                   \/ registered[m].listed /\ ~registered[m].key
  BY <1>2, <1>3, ChangeTyped, MergedFacts
<1>4. models \in Config /\ bare \subseteq Models  BY <1>2, <1>3 DEF Bare
<1>5. ASSUME ~overlapped, ~Changing, ch.replaces
      PROVE  \A m \in Has(models) : models[m].key \/ m \in bare \cup unkeyed
  <2>1. Serves /\ KeysKept  BY <1>2, <1>5 DEF ConfigInv
  <2>2. ASSUME NEW m \in Models, registered[m].listed, ~registered[m].key PROVE m \in unkeyed
    <3>1. registered[m] = stored.models[m]  BY <2>1, <2>2, ModelFacts DEF Serves
    <3> QED  BY <2>1, <2>2, <3>1 DEF KeysKept, Has
  <2>3. \A m \in Has(models) : m \in Models  BY DEF Has
  <2> QED  BY <1>3, <1>5, <2>2, <2>3
<1> HIDE DEF models, bare
<1>6. /\ r \in PutType /\ r.step = "valid" /\ r.models = models /\ r.replaces = ch.replaces
      /\ r.bare = bare
  BY <1>4, ChangeTyped DEF PutType, PutSteps
<1> HIDE DEF r
<1>7. PutsTyped' /\ put'[p] = r /\ \A o \in Puts \ {p} : put'[o] = put[o]
  BY <1>1, <1>2, <1>6, OnePut
<1>8. ConfigTyped'  BY <1>1, <1>2 DEF ConfigTyped, Changing
<1>9. ConfigInv'
  <2> SUFFICES ASSUME ~overlapped, ~Changing PROVE ConfigInv'  BY <1>1 DEF ConfigInv
  <2>1. /\ Serves /\ router = stored.route /\ KeysKept
        /\ \A o \in Puts : put[o].step = "idle"
    BY <1>2 DEF ConfigInv, Changing
  <2>2. Changing'  BY <1>6, <1>7 DEF Changing
  <2>3. \A o \in Puts : put'[o].step # "idle" => o = p  BY <1>7, <2>1
  <2>4. Serves' /\ KeysKept'  BY <1>1, <2>1 DEF Serves, KeysKept, Has
  <2>5. Underway(put[p])'  BY <1>1, <1>5, <1>6, <1>7, <2>1, <2>4 DEF Underway, Has
  <2> QED  BY <2>2, <2>3, <2>4, <2>5, ConfigKept
<1> QED  BY <1>1, <1>7, <1>8, <1>9, CallsSame DEF AccessInv


(* The change p is the only one, unless changes overlapped. *)
LEMMA Alone ==
  ASSUME AccessInv, NEW p \in Puts, put[p].step # "idle", ~overlapped
  PROVE  /\ Underway(put[p])
         /\ \A o \in Puts \ {p} : put[o].step = "idle"
         /\ KeysKept
BY DEF AccessInv, ConfigInv

LEMMA RestTyped == Rest \in PutType /\ Rest.step = "idle"
<1>1. NoList \in Config /\ NoRoute \in Seq(Models)  BY NoListTyped DEF NoRoute
<1> HIDE DEF NoList, NoRoute
<1> QED  BY <1>1 DEF Rest, PutType, PutSteps

LEMMA PersistGood ==
  ASSUME AccessInv, NEW p \in Puts, Persist(p)
  PROVE  AccessInv'
<1> DEFINE r == put[p]
           s == [r EXCEPT !.step = IF r.replaces THEN "reset" ELSE "route",
                          !.left = Has(registered)]
<1>1. /\ r.step = "valid" /\ put' = [put EXCEPT ![p] = s]
      /\ stored' = [models |-> IF r.replaces THEN r.models ELSE stored.models,
                    route  |-> IF r.reroutes THEN r.route ELSE stored.route]
      /\ shelved' = IF r.replaces THEN {} ELSE shelved
      /\ unkeyed' = IF r.replaces THEN r.bare \cup {m \in unkeyed : ~r.models[m].key} ELSE unkeyed
      /\ UNCHANGED <<registered, router, call, overlapped>>
  BY DEF Persist
<1>2. /\ ConfigTyped /\ PutsTyped /\ r \in PutType
      /\ stored.models \in Config /\ stored.route \in Seq(Models) /\ registered \in Config
  BY DEF AccessInv, ConfigTyped, PutsTyped
<1>3. ~overlapped => Underway(r) /\ (\A o \in Puts \ {p} : put[o].step = "idle")
                     /\ KeysKept
  BY <1>1, Alone
<1>4. /\ s \in PutType /\ s.step = IF r.replaces THEN "reset" ELSE "route"
      /\ s.left = Has(registered) /\ s.models = r.models /\ s.route = r.route
      /\ s.replaces = r.replaces /\ s.reroutes = r.reroutes
  <2> DEFINE to == IF r.replaces THEN "reset" ELSE "route"
             todo == Has(registered)
  <2>1. to \in PutSteps /\ todo \in SUBSET Models  BY DEF PutSteps, Has
  <2>2. s = [r EXCEPT !.step = to, !.left = todo]  OBVIOUS
  <2> HIDE DEF to, todo, s, r
  <2>3. /\ s \in PutType /\ s.step = to /\ s.left = todo /\ s.models = r.models
        /\ s.route = r.route /\ s.replaces = r.replaces /\ s.reroutes = r.reroutes
    BY <1>2, <2>1, <2>2 DEF PutType
  <2> QED  BY <2>3 DEF to, todo
<1> HIDE DEF s
<1>5. PutsTyped' /\ put'[p] = s /\ \A o \in Puts \ {p} : put'[o] = put[o]
  BY <1>1, <1>2, <1>4, OnePut
<1>6. /\ stored' \in [models : Config, route : Seq(Models)]
      /\ stored'.models = IF r.replaces THEN r.models ELSE stored.models
      /\ stored'.route = IF r.reroutes THEN r.route ELSE stored.route
  <2>1. r.models \in Config /\ r.route \in Seq(Models)  BY <1>2 DEF PutType
  <2> HIDE DEF r
  <2> QED  BY <1>1, <1>2, <2>1
<1>7. ConfigTyped'
  <2>1. r.bare \subseteq Models  BY <1>2 DEF PutType
  <2>2. shelved' \subseteq Models /\ unkeyed' \subseteq Models  BY <1>1, <1>2, <2>1 DEF ConfigTyped
  <2> QED  BY <1>1, <1>2, <1>6, <2>2 DEF ConfigTyped
<1>8. ConfigInv'
  <2> SUFFICES ASSUME ~overlapped PROVE ConfigInv'  BY <1>1 DEF ConfigInv
  <2>1. s.step # "idle" /\ s.step # "valid" /\ s.step # "register"  BY <1>4
  <2>2. Changing'  BY <1>5, <2>1 DEF Changing
  <2>3. \A o \in Puts : put'[o].step # "idle" => o = p  BY <1>3, <1>5
  <2>4. /\ r.replaces => \A m \in Has(r.models) : r.models[m].key \/ m \in r.bare \cup unkeyed
        /\ Serves /\ router = stored.route
    BY <1>1, <1>3 DEF Underway
  <2> HIDE DEF r
  <2>5. KeysKept'
    <3>1. CASE r.replaces
      <4>1. /\ stored'.models = r.models
            /\ unkeyed' = r.bare \cup {m \in unkeyed : ~r.models[m].key}
        BY <1>1, <1>6, <3>1
      <4> QED  BY <2>4, <3>1, <4>1 DEF KeysKept, Has
    <3>2. CASE ~r.replaces
      <4>1. stored'.models = stored.models /\ unkeyed' = unkeyed  BY <1>1, <1>6, <3>2
      <4> QED  BY <1>3, <4>1 DEF KeysKept, Has
    <3> QED  BY <3>1, <3>2
  <2>6. Underway(put[p])'
    <3>1. CASE r.replaces
      <4>1. stored'.models = r.models /\ shelved' = {}  BY <1>1, <1>6, <3>1
      <4> QED  BY <1>1, <1>4, <1>5, <1>6, <2>4, <3>1, <4>1 DEF Underway, Has
    <3>2. CASE ~r.replaces
      <4>1. stored'.models = stored.models /\ shelved' = shelved  BY <1>1, <1>6, <3>2
      <4>2. Serves'  BY <1>1, <2>4, <4>1 DEF Serves
      <4> QED  BY <1>1, <1>4, <1>5, <1>6, <2>4, <3>2, <4>1, <4>2 DEF Underway
    <3> QED  BY <3>1, <3>2
  <2> QED  BY <2>2, <2>3, <2>5, <2>6, ConfigKept
<1> QED  BY <1>1, <1>5, <1>7, <1>8, CallsSame DEF AccessInv

LEMMA PersistFailsGood ==
  ASSUME AccessInv, NEW p \in Puts, PersistFails(p)
  PROVE  AccessInv'
<1>1. put[p].step = "valid" /\ put' = [put EXCEPT ![p] = Rest]
      /\ UNCHANGED <<stored, registered, router, shelved, unkeyed, call, overlapped>>
  BY DEF PersistFails, configVars
<1>2. PutsTyped' /\ put'[p] = Rest /\ \A o \in Puts \ {p} : put'[o] = put[o]
  BY <1>1, RestTyped, OnePut DEF AccessInv
<1>3. ConfigTyped'  BY <1>1 DEF AccessInv, ConfigTyped
<1>4. ConfigInv'
  <2> SUFFICES ASSUME ~overlapped PROVE ConfigInv'  BY <1>1 DEF ConfigInv
  <2>1. Serves /\ router = stored.route /\ KeysKept  BY <1>1, Alone DEF Underway
  <2>2. Serves' /\ KeysKept'  BY <1>1, <2>1 DEF Serves, KeysKept, Has
  <2>3. \A o \in Puts : put'[o].step = "idle"  BY <1>1, <1>2, Alone, RestTyped
  <2> QED  BY <1>1, <2>1, <2>2, <2>3 DEF ConfigInv
<1> QED  BY <1>1, <1>2, <1>3, <1>4, CallsSame DEF AccessInv

(* A step that only crosses one model off changes the registry there. *)
LEMMA CrossOff ==
  ASSUME PutsTyped, NEW p \in Puts, NEW m \in put[p].left,
         put' = [put EXCEPT ![p].left = @ \ {m}]
  PROVE  /\ PutsTyped' /\ m \in Models
         /\ put'[p].step = put[p].step /\ put'[p].models = put[p].models
         /\ put'[p].route = put[p].route /\ put'[p].replaces = put[p].replaces
         /\ put'[p].reroutes = put[p].reroutes /\ put'[p].left = put[p].left \ {m}
         /\ \A o \in Puts \ {p} : put'[o] = put[o]
<1> DEFINE r == put[p]
           todo == r.left \ {m}
           s == [r EXCEPT !.left = todo]
<1>1. put' = [put EXCEPT ![p] = s]  OBVIOUS
<1>2. r \in PutType /\ todo \in SUBSET Models /\ m \in Models
  BY DEF PutsTyped, PutType
<1> HIDE DEF r, todo
<1>3. /\ s \in PutType /\ s.step = r.step /\ s.left = todo /\ s.models = r.models
      /\ s.route = r.route /\ s.replaces = r.replaces /\ s.reroutes = r.reroutes
  BY <1>2 DEF PutType
<1> HIDE DEF s
<1>4. PutsTyped' /\ put'[p] = s /\ \A o \in Puts \ {p} : put'[o] = put[o]
  BY <1>1, <1>3, OnePut
<1> QED  BY <1>2, <1>3, <1>4 DEF r, todo

LEMMA ResetGood ==
  ASSUME AccessInv, NEW p \in Puts, Reset(p) \/ Register(p)
  PROVE  AccessInv'
<1> DEFINE r == put[p]
<1>1. PICK m \in r.left :
         /\ \/ r.step = "reset" /\ registered' = [registered EXCEPT ![m] = Unlisted]
            \/ r.step = "register" /\ registered' = [registered EXCEPT ![m] = r.models[m]]
         /\ put' = [put EXCEPT ![p].left = @ \ {m}]
         /\ Disturb /\ UNCHANGED <<stored, router, shelved, unkeyed, overlapped>>
  BY Zenon DEF Reset, Register
<1>2. ConfigTyped /\ PutsTyped /\ registered \in [Models -> Model] /\ r.models \in [Models -> Model]
  BY DEF AccessInv, ConfigTyped, PutsTyped, PutType, Config
<1>3. /\ PutsTyped' /\ m \in Models
      /\ put'[p].step = r.step /\ put'[p].models = r.models
      /\ put'[p].route = r.route /\ put'[p].replaces = r.replaces
      /\ put'[p].reroutes = r.reroutes /\ put'[p].left = r.left \ {m}
      /\ \A o \in Puts \ {p} : put'[o] = put[o]
  <2> HIDE DEF r
  <2>1. put' = [put EXCEPT ![p].left = @ \ {m}] /\ m \in put[p].left
    BY <1>1 DEF r
  <2> QED  BY <1>2, <2>1, CrossOff DEF r
<1> HIDE DEF r
<1>4. /\ registered' \in [Models -> Model]
      /\ registered'[m] = IF r.step = "reset" THEN Unlisted ELSE r.models[m]
      /\ \A i \in Models \ {m} : registered'[i] = registered[i]
  BY <1>1, <1>2, <1>3, ModelFacts
<1>5. ConfigTyped'  BY <1>1, <1>2, <1>4 DEF ConfigTyped, Config
<1>6. ConfigInv'
  <2> SUFFICES ASSUME ~overlapped PROVE ConfigInv'  BY <1>1 DEF ConfigInv
  <2>1. /\ Underway(r) /\ r.step # "idle" /\ (\A o \in Puts \ {p} : put[o].step = "idle")
        /\ KeysKept
    BY <1>1, Alone DEF r
  <2>2. Changing'  BY <1>3, <2>1 DEF Changing
  <2>3. \A o \in Puts : put'[o].step # "idle" => o = p  BY <1>3, <2>1
  <2>4. r.step = "reset" => Has(registered)' = put'[p].left
    BY <1>3, <1>4, <2>1, ModelFacts DEF Underway, Has
  <2>5. r.step = "register" =>
           \A i \in Models : registered'[i] = IF i \in put'[p].left THEN Unlisted ELSE r.models[i]
    BY <1>1, <1>3, <1>4, <2>1 DEF Underway
  <2>6. Underway(put[p])'
    BY <1>1, <1>3, <2>1, <2>4, <2>5 DEF Underway
  <2>7. KeysKept'  BY <1>1, <2>1 DEF KeysKept, Has
  <2> QED  BY <1>1, <2>2, <2>3, <2>6, <2>7, ConfigKept
<1> QED  BY <1>1, <1>3, <1>5, <1>6, CallsDisturbed DEF AccessInv

LEMMA RefillGood ==
  ASSUME AccessInv, NEW p \in Puts, Refill(p)
  PROVE  AccessInv'
<1> DEFINE r == put[p]
           todo == Has(r.models)
           s == [r EXCEPT !.step = "register", !.left = todo]
<1>1. /\ r.step = "reset" /\ r.left = {} /\ put' = [put EXCEPT ![p] = s]
      /\ UNCHANGED <<stored, registered, router, shelved, unkeyed, call, overlapped>>
  BY DEF Refill, configVars
<1>2. r \in PutType /\ todo \in SUBSET Models /\ PutsTyped /\ ConfigTyped
      /\ registered \in [Models -> Model]
  BY DEF AccessInv, PutsTyped, Has, ConfigTyped, Config
<1> HIDE DEF r, todo
<1>3. /\ s \in PutType /\ s.step = "register" /\ s.left = todo /\ s.models = r.models
      /\ s.route = r.route /\ s.replaces = r.replaces /\ s.reroutes = r.reroutes
  BY <1>2 DEF PutType, PutSteps
<1> HIDE DEF s
<1>4. PutsTyped' /\ put'[p] = s /\ \A o \in Puts \ {p} : put'[o] = put[o]
  BY <1>1, <1>2, <1>3, OnePut
<1>5. ConfigTyped'  BY <1>1, <1>2 DEF ConfigTyped
<1>6. ConfigInv'
  <2> SUFFICES ASSUME ~overlapped PROVE ConfigInv'  BY <1>1 DEF ConfigInv
  <2>1. /\ Underway(r) /\ (\A o \in Puts \ {p} : put[o].step = "idle")
        /\ KeysKept
    BY <1>1, Alone DEF r
  <2>2. Changing'  BY <1>3, <1>4 DEF Changing
  <2>3. \A o \in Puts : put'[o].step # "idle" => o = p  BY <1>4, <2>1
  <2>4. \A i \in Models : registered[i] = Unlisted /\ (i \notin todo => r.models[i] = Unlisted)
    <3>1. \A i \in Models : registered[i] \in Model /\ r.models[i] \in Model
      BY <1>2 DEF PutType, Config
    <3> QED  BY <1>1, <2>1, <3>1, ModelFacts DEF Underway, Has, todo
  <2>5. Underway(put[p])'  BY <1>1, <1>3, <1>4, <2>1, <2>4 DEF Underway
  <2>6. KeysKept'  BY <1>1, <2>1 DEF KeysKept, Has
  <2> QED  BY <2>2, <2>3, <2>5, <2>6, ConfigKept
<1> QED  BY <1>1, <1>4, <1>5, <1>6, CallsSame DEF AccessInv

LEMMA SetRouterGood ==
  ASSUME AccessInv, NEW p \in Puts, SetRouter(p)
  PROVE  AccessInv'
<1> DEFINE r == put[p]
<1>1. /\ r.step = "route" \/ (r.step = "register" /\ r.left = {})
      /\ router' = IF r.reroutes THEN r.route ELSE router
      /\ put' = [put EXCEPT ![p] = Rest]
      /\ Disturb /\ UNCHANGED <<stored, registered, shelved, unkeyed, overlapped>>
  BY DEF SetRouter
<1>2. /\ PutsTyped /\ ConfigTyped /\ r.route \in Seq(Models)
      /\ registered \in [Models -> Model] /\ stored.models \in [Models -> Model]
  BY DEF AccessInv, ConfigTyped, PutsTyped, PutType, Config
<1>3. PutsTyped' /\ put'[p] = Rest /\ \A o \in Puts \ {p} : put'[o] = put[o]
  BY <1>1, <1>2, RestTyped, OnePut
<1>4. ConfigTyped'  BY <1>1, <1>2 DEF ConfigTyped
<1>5. ConfigInv'
  <2> SUFFICES ASSUME ~overlapped PROVE ConfigInv'  BY <1>1 DEF ConfigInv
  <2>1. /\ Underway(r) /\ (\A o \in Puts \ {p} : put[o].step = "idle")
        /\ KeysKept
    BY <1>1, Alone
  <2> HIDE DEF r
  <2>2. \A o \in Puts : put'[o].step = "idle"  BY <1>3, <2>1, RestTyped
  <2>3. router' = stored.route  BY <1>1, <2>1 DEF Underway
  <2>4. Serves
    <3>1. CASE r.step = "route"  BY <2>1, <3>1 DEF Underway
    <3>2. CASE r.step = "register" /\ r.left = {}  BY <2>1, <3>2 DEF Underway, Serves
    <3> QED  BY <1>1, <3>1, <3>2
  <2>5. Serves' /\ KeysKept'  BY <1>1, <2>1, <2>4 DEF Serves, KeysKept, Has
  <2> QED  BY <1>1, <2>2, <2>3, <2>5 DEF ConfigInv
<1> QED  BY <1>1, <1>3, <1>4, <1>5, CallsDisturbed DEF AccessInv


-----------------------------------------------------------------------------
(* The access to the models as the Runs and tasks use it. *)

LEMMA AccessInitInv == AccessInit => AccessInv
<1> SUFFICES ASSUME AccessInit PROVE AccessInv  OBVIOUS
<1>1. SetToSeq(Models) \in Seq(Models)
  <2>1. Cardinality(Models) \in Nat /\ ExistsBijection(1..Cardinality(Models), Models)
    BY ModelsFinite, FS_CardinalityType
  <2>2. \E f \in [1..Cardinality(Models) -> Models] : IsInjective(f)
    BY <2>1 DEF ExistsBijection, Bijection, Injection
  <2>3. SetToSeq(Models) \in [1..Cardinality(Models) -> Models]  BY <2>2 DEF SetToSeq
  <2> QED  BY <2>1, <2>3
<1>2. PICK models \in Starts : stored = [models |-> models, route |-> InitialRoute]
  BY DEF AccessInit
<1>3. InitialRoute \in Seq(Models)  BY <1>1 DEF InitialRoute
<1> HIDE DEF InitialRoute
<1>4. /\ stored.models = models /\ stored.route = InitialRoute
      /\ stored \in [models : Config, route : Seq(Models)] /\ models \in Config
      /\ registered = Known(models) /\ router = InitialRoute /\ overlapped = FALSE
      /\ shelved = {m \in Models : ~models[m].enabled} /\ unkeyed = {m \in Models : ~models[m].key}
      /\ put = [p \in Puts |-> Rest] /\ call = [c \in Callers |-> Quiet]
  BY <1>2, <1>3, ChangesType DEF AccessInit
<1>a. Known(models) \in Config
  BY <1>4, ModelFacts DEF Known, Config
<1>b. Serves /\ KeysKept
  BY <1>4 DEF Serves, KeysKept, Known, Has
<1>5. ConfigTyped  BY <1>3, <1>4, <1>a DEF ConfigTyped
<1>6. PutsTyped /\ \A p \in Puts : put[p].step = "idle"
  <2> HIDE DEF Rest
  <2> QED  BY <1>4, RestTyped DEF PutsTyped
<1>7. ConfigInv  BY <1>4, <1>6, <1>b DEF ConfigInv
<1>8. Quiet \in CallType /\ Quiet.step = "idle" /\ Quiet.heard = 0
  BY DEF Quiet, CallType, CallSteps, NoRoute
<1>9. CallsTyped /\ CallInv
  <2> HIDE DEF Quiet
  <2> QED  BY <1>4, <1>8 DEF CallsTyped, CallInv, Voice, Tries
<1> QED  BY <1>5, <1>6, <1>7, <1>9 DEF AccessInv

LEMMA ConfigSame ==
  ASSUME AccessInv, UNCHANGED <<configVars, put, overlapped>>
  PROVE  ConfigTyped' /\ PutsTyped' /\ ConfigInv'
<1>1. UNCHANGED <<stored, registered, router, shelved, unkeyed, put, overlapped>>
  BY DEF configVars
<1>2. ConfigTyped' /\ PutsTyped'  BY <1>1 DEF AccessInv, ConfigTyped, PutsTyped
<1>3. ConfigInv'
  BY <1>1 DEF AccessInv, ConfigInv, Changing, Underway, Has, Serves, KeysKept
<1> QED  BY <1>2, <1>3

LEMMA AccessStep ==
  ASSUME AccessInv, [TaskNext]_allVars
  PROVE  AccessInv'
<1>a. Turn \in Callers /\ Worker \in Callers  BY CallersNamed DEF Callers
<1>1. ASSUME UNCHANGED <<configVars, put, call, overlapped>> PROVE AccessInv'
  BY <1>1, ConfigSame, CallsSame DEF AccessInv, configVars
<1>2. ASSUME NEW c \in Callers, Others,
             call' = Started(c, Changing) \/ call' = [call EXCEPT ![c] = Quiet]
      PROVE  AccessInv'
  BY <1>2, ConfigSame, StartGood DEF AccessInv, Others
<1>3. ASSUME NEW c \in Callers, Cancel(c) \/ CallStep(c) PROVE AccessInv'
  <2>1. UNCHANGED <<configVars, put, overlapped>>
    BY <1>3 DEF Cancel, CallStep, Choose, Emit, Answer, AttemptFails, Again, StopWaiting, Others
  <2> QED  BY <1>3, <2>1, ConfigSame, CallGood DEF AccessInv
<1>4. ASSUME NEW p \in Puts, PutStep(p) PROVE AccessInv'
  BY <1>4, PersistGood, PersistFailsGood, ResetGood, RefillGood, SetRouterGood DEF PutStep
<1>5. ASSUME NEW p \in Puts, NEW ch \in Change, BeginPut(p, ch) PROVE AccessInv'
  BY <1>5, BeginPutGood
<1>6. CASE StartTurn  BY <1>2, <1>6, <1>a DEF StartTurn
<1>7. CASE RunStep
  BY <1>1, <1>2, <1>7, <1>a DEF RunStep, TurnOver, Schedule, accessVars
<1>8. CASE Rename \/ SubmitOther
  BY <1>1, <1>8 DEF Rename, SubmitOther
<1>9. ASSUME NEW i \in DOMAIN tasks, Enqueue(i) PROVE AccessInv'
  BY <1>1, <1>9 DEF Enqueue, accessVars
<1>10. CASE WorkerStep
  <2>1. CASE TakeTask  BY <1>1, <1>2, <1>a, <2>1 DEF TakeTask, Others
  <2>2. CASE Complete  BY <1>2, <1>a, <2>2 DEF Complete, EndTask
  <2>3. CASE Fail  BY <1>2, <1>a, <2>3 DEF Fail, EndTask
  <2> QED  BY <1>10, <2>1, <2>2, <2>3 DEF WorkerStep
<1>11. CASE UNCHANGED allVars  BY <1>1, <1>11 DEF allVars, accessVars
<1> QED
  BY <1>3, <1>4, <1>5, <1>6, <1>7, <1>8, <1>9, <1>10, <1>11 DEF TaskNext

LEMMA AccessInvariant == TaskSpec => []AccessInv
<1>1. TaskInit => AccessInv  BY AccessInitInv DEF TaskInit
<1>2. AccessInv /\ [TaskNext]_allVars => AccessInv'  BY AccessStep
<1> QED  BY <1>1, <1>2, PTL DEF TaskSpec

(* The configuration, the changes and the calls keep their types. *)
THEOREM AccessTypesCorrect == TaskSpec => [](ConfigTyped /\ PutsTyped /\ CallsTyped)
<1>1. AccessInv => ConfigTyped /\ PutsTyped /\ CallsTyped  BY DEF AccessInv
<1> QED  BY <1>1, AccessInvariant, PTL

(* What is heard of a call comes from one request, whatever is retried. *)
THEOREM OneVoiceIsHeard == TaskSpec => []OneVoice
<1>1. AccessInv => OneVoice  BY DEF AccessInv, CallInv, Voice, OneVoice
<1> QED  BY <1>1, AccessInvariant, PTL

(* A call fails only when no model of its route is left to try. *)
THEOREM CallsFallBack == TaskSpec => []FallsBackToAll
<1>1. AccessInv => FallsBackToAll
  BY DEF AccessInv, CallInv, Tries, OnRoute, FallsBackToAll
<1> QED  BY <1>1, AccessInvariant, PTL

(* Between the changes, and as long as no two overlapped, the registry and *)
(* the router are the file's, but for the models that were off at the      *)
(* start, and no key is lost but by moving a model without one, or by      *)
(* listing one without a key that the registry did not have                *)
(* (handleConfigPut).                                                      *)
THEOREM ConfigurationIsKept == TaskSpec => []ConfigurationHolds
<1>1. AccessInv => ConfigurationHolds  BY DEF AccessInv, ConfigInv, ConfigurationHolds
<1> QED  BY <1>1, AccessInvariant, PTL


-----------------------------------------------------------------------------
(* The titles. *)

LEMMA TurnsType == MaxTurns \in Nat
BY TaskNumbers

LEMMA Listed ==
  ASSUME TasksTyped, NEW kind \in TaskKind, NEW n \in Nat, List(kind, n)
  PROVE  /\ tasks' \in Seq(TaskType) /\ Len(tasks') = Len(tasks) + 1
         /\ DOMAIN tasks' = DOMAIN tasks \cup {Len(tasks) + 1}
         /\ \A i \in DOMAIN tasks : tasks'[i] = tasks[i]
         /\ tasks'[Len(tasks) + 1] = [kind |-> kind, turn |-> n, status |-> "waiting"]
<1> DEFINE t == [kind |-> kind, turn |-> n, status |-> "waiting"]
<1>1. t \in TaskType  BY DEF TaskType
<1>2. tasks \in Seq(TaskType) /\ tasks' = Append(tasks, t)  BY DEF TasksTyped, List
<1> HIDE DEF t
<1>3. /\ tasks' \in Seq(TaskType) /\ Len(tasks') = Len(tasks) + 1
      /\ DOMAIN tasks' = DOMAIN tasks \cup {Len(tasks) + 1}
      /\ \A i \in DOMAIN tasks : tasks'[i] = tasks[i]
      /\ tasks'[Len(tasks) + 1] = t
  BY <1>1, <1>2
<1> QED  BY <1>3 DEF t

(* Marking a task leaves its kind and turn. *)
LEMMA Marking ==
  ASSUME TasksTyped, NEW i \in DOMAIN tasks,
         NEW s \in {"queued", "running", "done", "failed"},
         tasks' = [tasks EXCEPT ![i].status = s]
  PROVE  /\ tasks' \in Seq(TaskType) /\ DOMAIN tasks' = DOMAIN tasks
         /\ \A j \in DOMAIN tasks : /\ tasks'[j].kind = tasks[j].kind
                                    /\ tasks'[j].turn = tasks[j].turn
                                    /\ tasks'[j].status = IF j = i THEN s ELSE tasks[j].status
<1> DEFINE t == [tasks[i] EXCEPT !.status = s]
<1>1. tasks \in Seq(TaskType) /\ tasks[i] \in TaskType  BY DEF TasksTyped
<1>2. t \in TaskType /\ t.kind = tasks[i].kind /\ t.turn = tasks[i].turn /\ t.status = s
  BY <1>1 DEF TaskType
<1>3. tasks' = [tasks EXCEPT ![i] = t]  OBVIOUS
<1> HIDE DEF t
<1>4. tasks' \in Seq(TaskType) /\ DOMAIN tasks' = DOMAIN tasks
      /\ \A j \in DOMAIN tasks : tasks'[j] = IF j = i THEN t ELSE tasks[j]
  BY <1>1, <1>2, <1>3
<1> QED  BY <1>2, <1>4

TitleSafe == TasksTyped /\ TitleInv

(* Steps that leave the tasks alone. *)
LEMMA QuietTitles ==
  ASSUME TitleSafe, UNCHANGED <<title, pinned, tasks, queue, worker>>,
         turns' \in turns..MaxTurns, run' \in {"idle", "turn", "schedule"}, run # "submit"
  PROVE  TitleSafe'
<1>1. turns' \in 0..MaxTurns /\ turns <= turns' /\ turns \in Nat /\ turns' \in Nat
  BY TurnsType DEF TitleSafe, TasksTyped
<1>2. TasksTyped'  BY <1>1 DEF TitleSafe, TasksTyped
<1>3. \A i \in DOMAIN tasks : ~Waits(i) /\ tasks[i].turn \in Nat
  <2>1. \A i \in DOMAIN tasks : ~Waits(i)  BY DEF TitleSafe, TitleInv
  <2>2. \A i \in DOMAIN tasks : tasks[i] \in TaskType  BY DEF TitleSafe, TasksTyped
  <2> QED  BY <2>1, <2>2 DEF TaskType
<1>4. title \in Nat  BY TurnsType DEF TitleSafe, TasksTyped, UserTitle
<1>5. TitleInv'  BY <1>1, <1>3, <1>4 DEF TitleSafe, TitleInv, MakesTitle, Waits
<1> QED  BY <1>2, <1>5 DEF TitleSafe

LEMMA ListTitles ==
  ASSUME TitleSafe, NEW kind \in TaskKind, NEW n \in Nat, List(kind, n),
         UNCHANGED <<turns, title, pinned, queue, worker>>,
         \/ kind = "other" /\ run' = run
         \/ kind = "title" /\ n = turns /\ run = "schedule" /\ run' = "submit"
  PROVE  TitleSafe'
<1> DEFINE last == Len(tasks) + 1
<1>1. TasksTyped /\ TitleInv  BY DEF TitleSafe
<1>2. /\ tasks' \in Seq(TaskType) /\ DOMAIN tasks' = DOMAIN tasks \cup {last}
      /\ \A i \in DOMAIN tasks : tasks'[i] = tasks[i]
      /\ tasks'[last] = [kind |-> kind, turn |-> n, status |-> "waiting"]
  BY <1>1, Listed
<1>3. last \notin DOMAIN tasks /\ 0 \notin DOMAIN tasks  BY <1>1 DEF TasksTyped
<1> HIDE DEF last
<1>4. tasks'[last].kind = kind /\ tasks'[last].turn = n /\ tasks'[last].status = "waiting"
  BY <1>2
<1>5. TasksTyped'  BY <1>1, <1>2 DEF TasksTyped
<1>6. \A k \in DOMAIN queue : queue[k] \in DOMAIN tasks /\ tasks'[queue[k]] = tasks[queue[k]]
  BY <1>1, <1>2 DEF TasksTyped
<1>7. worker # 0 => worker \in DOMAIN tasks /\ tasks'[worker] = tasks[worker]
  BY <1>1, <1>2 DEF TasksTyped
<1>8. turns \in Nat  BY <1>1 DEF TasksTyped
<1>9. TitleInv'
  <2>1. IF pinned' THEN title' = UserTitle ELSE title' <= turns'  BY <1>1 DEF TitleInv
  <2>2. \A i \in DOMAIN tasks' : MakesTitle(i)' => tasks'[i].turn <= turns'
    BY <1>1, <1>2, <1>4, <1>8 DEF TitleInv, MakesTitle
  <2>3. \A i \in DOMAIN tasks' : Waits(i)' => \/ Waits(i) /\ i \in DOMAIN tasks
                                              \/ i = last /\ kind = "title"
    BY <1>2, <1>4 DEF Waits, MakesTitle
  <2>4. \A i \in DOMAIN tasks' : Waits(i)' =>
           /\ run' = "submit" /\ tasks'[i].turn = turns'
           /\ \A j \in DOMAIN tasks' : Waits(j)' => j = i
    BY <1>1, <1>2, <1>4, <2>3 DEF TitleInv
  <2>5. \A k \in DOMAIN queue' : MakesTitle(queue[k])' =>
           /\ pinned' \/ title' <= tasks'[queue'[k]].turn
           /\ \A j \in 1..k : MakesTitle(queue[j])' =>
                 tasks'[queue'[j]].turn <= tasks'[queue'[k]].turn
           /\ worker' # 0 /\ MakesTitle(worker)' =>
                 tasks'[worker'].turn <= tasks'[queue'[k]].turn
    <3>1. \A k \in DOMAIN queue : 1..k \subseteq DOMAIN queue  BY <1>1 DEF TasksTyped
    <3> QED  BY <1>1, <1>6, <1>7, <3>1 DEF TitleInv, MakesTitle
  <2>6. worker' # 0 /\ MakesTitle(worker)' => pinned' \/ title' <= tasks'[worker'].turn
    BY <1>1, <1>7 DEF TitleInv, MakesTitle
  <2> QED  BY <2>1, <2>2, <2>4, <2>5, <2>6 DEF TitleInv
<1> QED  BY <1>5, <1>9 DEF TitleSafe


LEMMA EnqueueTitles ==
  ASSUME TitleSafe, NEW i \in DOMAIN tasks, Enqueue(i)
  PROVE  TitleSafe'
<1>1. TasksTyped /\ TitleInv  BY DEF TitleSafe
<1>2. /\ tasks[i].status = "waiting"
      /\ queue' = Append(queue, i)
      /\ tasks' = [tasks EXCEPT ![i].status = "queued"]
      /\ run' = IF tasks[i].kind = "title" THEN "idle" ELSE run
      /\ UNCHANGED <<turns, title, pinned, worker>>
  BY DEF Enqueue
<1>3. /\ tasks' \in Seq(TaskType) /\ DOMAIN tasks' = DOMAIN tasks
      /\ \A j \in DOMAIN tasks :
            /\ tasks'[j].kind = tasks[j].kind /\ tasks'[j].turn = tasks[j].turn
            /\ tasks'[j].status = IF j = i THEN "queued" ELSE tasks[j].status
  BY <1>1, <1>2, Marking
<1>4. /\ queue \in Seq(Nat) /\ tasks \in Seq(TaskType) /\ i \in Nat
      /\ queue' \in Seq(Nat) /\ Len(queue') = Len(queue) + 1 /\ Len(queue) \in Nat
      /\ queue'[Len(queue) + 1] = i /\ \A k \in 1..Len(queue) : queue'[k] = queue[k]
  BY <1>1, <1>2 DEF TasksTyped
<1>5. DOMAIN queue = 1..Len(queue) /\ DOMAIN queue' = 1..(Len(queue) + 1)  BY <1>4
<1>6. TasksTyped'  BY <1>1, <1>2, <1>3, <1>4, <1>5 DEF TasksTyped
<1>7. \A j \in DOMAIN tasks : tasks[j].turn \in Nat
  <2>1. \A j \in DOMAIN tasks : tasks[j] \in TaskType  BY <1>4
  <2> QED  BY <2>1 DEF TaskType
<1>8. turns \in Nat /\ title \in Nat
  BY <1>1, TurnsType DEF TasksTyped, UserTitle
<1>9. \A j \in DOMAIN tasks : MakesTitle(j)' = MakesTitle(j) /\ tasks'[j].turn = tasks[j].turn
  BY <1>3 DEF MakesTitle
<1>10. MakesTitle(i) => tasks[i].turn = turns  BY <1>1, <1>2 DEF TitleInv, Waits
<1>11. TitleInv'
  <2>1. IF pinned' THEN title' = UserTitle ELSE title' <= turns'  BY <1>1, <1>2 DEF TitleInv
  <2>2. \A j \in DOMAIN tasks' : MakesTitle(j)' => tasks'[j].turn <= turns'
    BY <1>1, <1>2, <1>3, <1>9 DEF TitleInv
  <2>3. \A j \in DOMAIN tasks' : Waits(j)' => Waits(j) /\ j # i
    BY <1>3, <1>9 DEF Waits
  <2>4. \A j \in DOMAIN tasks' : Waits(j)' =>
           /\ run' = "submit" /\ tasks'[j].turn = turns'
           /\ \A k \in DOMAIN tasks' : Waits(k)' => k = j
    BY <1>1, <1>2, <1>3, <2>3 DEF TitleInv, Waits, MakesTitle
  <2>5. ASSUME NEW k \in DOMAIN queue', MakesTitle(queue[k])'
        PROVE  /\ pinned' \/ title' <= tasks'[queue'[k]].turn
               /\ \A j \in 1..k : MakesTitle(queue[j])' =>
                     tasks'[queue'[j]].turn <= tasks'[queue'[k]].turn
               /\ worker' # 0 /\ MakesTitle(worker)' =>
                     tasks'[worker'].turn <= tasks'[queue'[k]].turn
    <3>1. \A j \in DOMAIN queue' : queue'[j] \in DOMAIN tasks  BY <1>3, <1>6 DEF TasksTyped
    <3>2. worker # 0 => worker \in DOMAIN tasks  BY <1>1 DEF TasksTyped
    <3>3. MakesTitle(queue'[k])  BY <1>9, <2>5, <3>1 DEF MakesTitle
    <3>4. CASE k = Len(queue) + 1
      <4>1. queue'[k] = i /\ tasks'[queue'[k]].turn = turns  BY <1>4, <1>9, <1>10, <3>3, <3>4
      <4>2. pinned \/ title <= turns  BY <1>1 DEF TitleInv
      <4>3. \A j \in 1..k : MakesTitle(queue[j])' => tasks'[queue'[j]].turn <= turns
        BY <1>2, <1>3, <1>5, <2>2, <3>1
      <4>4. worker # 0 /\ MakesTitle(worker)' => tasks'[worker].turn <= turns
        BY <1>2, <1>3, <2>2, <3>2
      <4> QED  BY <1>2, <4>1, <4>2, <4>3, <4>4 DEF MakesTitle
    <3>5. CASE k # Len(queue) + 1
      <4>1. k \in 1..Len(queue) /\ 1..k \subseteq 1..Len(queue)  BY <1>4, <1>5, <3>5
      <4>3. \A j \in 1..Len(queue) : queue'[j] = queue[j] /\ queue[j] \in DOMAIN tasks
        BY <1>1, <1>4, <1>5 DEF TasksTyped
      <4>2. k \in 1..k  BY <1>5
      <4> QED  BY <1>1, <1>2, <1>5, <1>9, <3>2, <3>3, <4>1, <4>2, <4>3 DEF TitleInv, MakesTitle
    <3> QED  BY <3>4, <3>5
  <2>6. worker' # 0 /\ MakesTitle(worker)' => pinned' \/ title' <= tasks'[worker'].turn
    BY <1>1, <1>2, <1>9 DEF TitleInv, TasksTyped, MakesTitle
  <2> QED  BY <2>1, <2>2, <2>4, <2>5, <2>6 DEF TitleInv
<1> QED  BY <1>6, <1>11 DEF TitleSafe

LEMMA TakeTitles ==
  ASSUME TitleSafe, TakeTask
  PROVE  TitleSafe'
<1>1. TasksTyped /\ TitleInv  BY DEF TitleSafe
<1>2. /\ worker = 0 /\ queue # <<>> /\ worker' = Head(queue) /\ queue' = Tail(queue)
      /\ tasks' = [tasks EXCEPT ![Head(queue)].status = "running"]
      /\ UNCHANGED <<turns, run, title, pinned>>
  BY DEF TakeTask
<1>3. /\ queue \in Seq(Nat) /\ Len(queue) \in Nat \ {0} /\ Head(queue) = queue[1]
      /\ queue' \in Seq(Nat) /\ DOMAIN queue = 1..Len(queue)
      /\ DOMAIN queue' = 1..(Len(queue) - 1)
      /\ \A k \in 1..(Len(queue) - 1) : queue'[k] = queue[k + 1]
  BY <1>1, <1>2 DEF TasksTyped
<1>4. Head(queue) \in DOMAIN tasks /\ \A k \in DOMAIN queue : queue[k] \in DOMAIN tasks
  <2>1. \A k \in DOMAIN queue : queue[k] \in DOMAIN tasks  BY <1>1 DEF TasksTyped
  <2>2. 1 \in DOMAIN queue  BY <1>3
  <2> QED  BY <1>3, <2>1, <2>2
<1>5. /\ tasks' \in Seq(TaskType) /\ DOMAIN tasks' = DOMAIN tasks
      /\ \A j \in DOMAIN tasks :
            /\ tasks'[j].kind = tasks[j].kind /\ tasks'[j].turn = tasks[j].turn
            /\ tasks'[j].status = IF j = Head(queue) THEN "running" ELSE tasks[j].status
  BY <1>1, <1>2, <1>4, Marking
<1>6. \A k \in DOMAIN queue' : k + 1 \in DOMAIN queue /\ queue'[k] = queue[k + 1]  BY <1>3
<1>7. TasksTyped'  BY <1>1, <1>2, <1>3, <1>4, <1>5, <1>6 DEF TasksTyped
<1>8. \A j \in DOMAIN tasks : MakesTitle(j)' = MakesTitle(j) /\ tasks'[j].turn = tasks[j].turn
  BY <1>5 DEF MakesTitle
<1>9. TitleInv'
  <2>1. IF pinned' THEN title' = UserTitle ELSE title' <= turns'  BY <1>1, <1>2 DEF TitleInv
  <2>2. \A j \in DOMAIN tasks' : MakesTitle(j)' => tasks'[j].turn <= turns'
    BY <1>1, <1>2, <1>5, <1>8 DEF TitleInv
  <2>3. \A j \in DOMAIN tasks' : Waits(j)' => Waits(j)  BY <1>5, <1>8 DEF Waits
  <2>4. \A j \in DOMAIN tasks' : Waits(j)' =>
           /\ run' = "submit" /\ tasks'[j].turn = turns'
           /\ \A k \in DOMAIN tasks' : Waits(k)' => k = j
    BY <1>1, <1>2, <1>5, <2>3 DEF TitleInv
  <2>5. ASSUME NEW k \in DOMAIN queue', MakesTitle(queue[k])'
        PROVE  /\ pinned' \/ title' <= tasks'[queue'[k]].turn
               /\ \A j \in 1..k : MakesTitle(queue[j])' =>
                     tasks'[queue'[j]].turn <= tasks'[queue'[k]].turn
               /\ worker' # 0 /\ MakesTitle(worker)' =>
                     tasks'[worker'].turn <= tasks'[queue'[k]].turn
    <3>1. /\ k + 1 \in DOMAIN queue /\ queue'[k] = queue[k + 1] /\ queue[k + 1] \in DOMAIN tasks
          /\ 1 \in 1..(k + 1)
      BY <1>3, <1>4, <1>6
    <3>2. MakesTitle(queue[k + 1])  BY <1>8, <2>5, <3>1 DEF MakesTitle
    <3>3. /\ pinned \/ title <= tasks[queue[k + 1]].turn
          /\ \A j \in 1..(k + 1) : MakesTitle(queue[j]) =>
                tasks[queue[j]].turn <= tasks[queue[k + 1]].turn
      BY <1>1, <3>1, <3>2 DEF TitleInv
    <3>4. \A j \in 1..k : /\ j + 1 \in 1..(k + 1) /\ j + 1 \in DOMAIN queue
                          /\ queue'[j] = queue[j + 1] /\ queue[j + 1] \in DOMAIN tasks
      <4>1. k \in 1..(Len(queue) - 1)  BY <1>3
      <4>2. \A j \in 1..k : j + 1 \in 1..(k + 1) /\ j \in 1..(Len(queue) - 1)  BY <1>3, <4>1
      <4>3. \A j \in 1..k : j + 1 \in DOMAIN queue /\ queue'[j] = queue[j + 1]
        BY <1>3, <1>6, <4>2
      <4> QED  BY <1>4, <4>2, <4>3
    <3>5. \A j \in 1..k : MakesTitle(queue[j])' =>
             tasks'[queue'[j]].turn <= tasks'[queue'[k]].turn
      BY <1>8, <3>1, <3>3, <3>4 DEF MakesTitle
    <3>6. worker' # 0 /\ MakesTitle(worker)' => tasks'[worker'].turn <= tasks'[queue'[k]].turn
      BY <1>2, <1>3, <1>4, <1>8, <3>1, <3>3 DEF MakesTitle
    <3> QED  BY <1>2, <1>8, <3>1, <3>3, <3>5, <3>6
  <2>6. worker' # 0 /\ MakesTitle(worker)' => pinned' \/ title' <= tasks'[worker'].turn
    BY <1>1, <1>2, <1>3, <1>4, <1>8 DEF TitleInv, MakesTitle
  <2> QED  BY <2>1, <2>2, <2>4, <2>5, <2>6 DEF TitleInv
<1> QED  BY <1>7, <1>9 DEF TitleSafe

(* The task ends; its title, if it gave one, is that of its turn. *)
LEMMA EndTitles ==
  ASSUME TitleSafe, worker # 0, NEW s \in {"done", "failed"}, EndTask(s),
         UNCHANGED <<turns, run, pinned, queue>>,
         \/ UNCHANGED title
         \/ MakesTitle(worker) /\ GiveTitle(tasks[worker].turn)
  PROVE  TitleSafe' /\ title' >= title
<1>1. TasksTyped /\ TitleInv  BY DEF TitleSafe
<1>2. worker \in DOMAIN tasks /\ worker' = 0 /\ tasks' = [tasks EXCEPT ![worker].status = s]
  BY <1>1 DEF TasksTyped, EndTask
<1>3. /\ tasks' \in Seq(TaskType) /\ DOMAIN tasks' = DOMAIN tasks
      /\ \A j \in DOMAIN tasks :
            /\ tasks'[j].kind = tasks[j].kind /\ tasks'[j].turn = tasks[j].turn
            /\ tasks'[j].status = IF j = worker THEN s ELSE tasks[j].status
  <2>1. s \in {"queued", "running", "done", "failed"}  OBVIOUS
  <2> QED  BY <1>1, <1>2, <2>1, Marking
<1>4. tasks[worker].turn \in Nat
  <2>1. tasks[worker] \in TaskType  BY <1>1, <1>2 DEF TasksTyped
  <2> QED  BY <2>1 DEF TaskType
<1>5. /\ title' = title \/ (MakesTitle(worker) /\ ~pinned /\ title' = tasks[worker].turn)
      /\ title' >= title /\ title' \in 0..UserTitle /\ (pinned => title' = title)
  <2>1. MakesTitle(worker) /\ ~pinned => /\ title <= tasks[worker].turn
                                         /\ tasks[worker].turn <= turns
    BY <1>1, <1>2 DEF TitleInv
  <2>2. title \in 0..UserTitle /\ turns \in 0..MaxTurns /\ UserTitle = MaxTurns + 1
    BY <1>1 DEF TasksTyped, UserTitle
  <2>3. \/ title' = title
        \/ MakesTitle(worker) /\ title' = IF pinned THEN title ELSE tasks[worker].turn
    BY DEF GiveTitle
  <2> QED  BY <1>4, <2>1, <2>2, <2>3, TurnsType
<1>6. TasksTyped'  BY <1>1, <1>2, <1>3, <1>5 DEF TasksTyped
<1>7. \A j \in DOMAIN tasks : MakesTitle(j)' = MakesTitle(j) /\ tasks'[j].turn = tasks[j].turn
  BY <1>3 DEF MakesTitle
<1>8. TitleInv'
  <2>1. IF pinned' THEN title' = UserTitle ELSE title' <= turns'
    BY <1>1, <1>2, <1>5 DEF TitleInv
  <2>2. \A j \in DOMAIN tasks' : MakesTitle(j)' => tasks'[j].turn <= turns'
    BY <1>1, <1>3, <1>7 DEF TitleInv
  <2>3. \A j \in DOMAIN tasks' : Waits(j)' => Waits(j)  BY <1>3, <1>7 DEF Waits
  <2>4. \A j \in DOMAIN tasks' : Waits(j)' =>
           /\ run' = "submit" /\ tasks'[j].turn = turns'
           /\ \A k \in DOMAIN tasks' : Waits(k)' => k = j
    BY <1>1, <1>3, <2>3 DEF TitleInv
  <2>5. ASSUME NEW k \in DOMAIN queue', MakesTitle(queue[k])'
        PROVE  /\ pinned' \/ title' <= tasks'[queue'[k]].turn
               /\ \A j \in 1..k : MakesTitle(queue[j])' =>
                     tasks'[queue'[j]].turn <= tasks'[queue'[k]].turn
    <3>1. 1..k \subseteq DOMAIN queue /\ k \in DOMAIN queue  BY <1>1 DEF TasksTyped
    <3>2. \A j \in DOMAIN queue : queue[j] \in DOMAIN tasks  BY <1>1 DEF TasksTyped
    <3>3. MakesTitle(queue[k])  BY <1>7, <2>5, <3>1, <3>2 DEF MakesTitle
    <3> QED  BY <1>1, <1>5, <1>7, <3>1, <3>2, <3>3 DEF TitleInv, MakesTitle
  <2> QED  BY <1>2, <2>1, <2>2, <2>4, <2>5 DEF TitleInv
<1> QED  BY <1>5, <1>6, <1>8 DEF TitleSafe

LEMMA TitleStep ==
  ASSUME TitleSafe, [TaskNext]_allVars
  PROVE  TitleSafe' /\ title' >= title
<1>1. TasksTyped /\ TitleInv /\ title \in Nat /\ title <= UserTitle /\ turns \in 0..MaxTurns
  BY TurnsType DEF TitleSafe, TasksTyped, UserTitle
<1>2. ASSUME UNCHANGED taskVars PROVE TitleSafe' /\ title' >= title
  BY <1>1, <1>2 DEF taskVars, TitleSafe, TasksTyped, TitleInv, MakesTitle, Waits
<1>3. CASE StartTurn
  <2>1. /\ turns' \in turns..MaxTurns /\ run' = "turn" /\ run = "idle"
        /\ UNCHANGED <<title, pinned, tasks, queue, worker>>
    BY <1>1, <1>3, TurnsType DEF StartTurn
  <2> QED  BY <1>1, <2>1, QuietTitles
<1>4. CASE TurnOver
  <2>1. /\ turns' \in turns..MaxTurns /\ run' \in {"idle", "schedule"} /\ run = "turn"
        /\ UNCHANGED <<title, pinned, tasks, queue, worker>>
    BY <1>1, <1>4, TurnsType DEF TurnOver
  <2> QED  BY <1>1, <2>1, QuietTitles
<1>5. CASE Schedule
  <2>1. /\ run = "schedule" /\ UNCHANGED <<turns, title, pinned, queue, worker>>
        /\ \/ run' = "idle" /\ UNCHANGED tasks
           \/ List("title", turns) /\ run' = "submit"
    BY <1>5 DEF Schedule
  <2>2. turns' \in turns..MaxTurns /\ turns \in Nat  BY <1>1, <2>1, TurnsType
  <2>3. CASE run' = "idle" /\ UNCHANGED tasks  BY <1>1, <2>1, <2>2, <2>3, QuietTitles
  <2>4. CASE List("title", turns) /\ run' = "submit"
    BY <1>1, <2>1, <2>2, <2>4, ListTitles DEF TaskKind
  <2> QED  BY <2>1, <2>3, <2>4
<1>6. CASE SubmitOther
  <2>1. List("other", 0) /\ UNCHANGED <<turns, run, title, pinned, queue, worker>>
    BY <1>6 DEF SubmitOther
  <2>2. "other" \in TaskKind /\ 0 \in Nat  BY DEF TaskKind
  <2> QED  BY <1>1, <2>1, <2>2, ListTitles
<1>7. ASSUME NEW i \in DOMAIN tasks, Enqueue(i) PROVE TitleSafe' /\ title' >= title
  <2>1. UNCHANGED title  BY <1>7 DEF Enqueue
  <2>2. TitleSafe'  BY <1>7, EnqueueTitles
  <2> QED  BY <1>1, <2>1, <2>2
<1>8. CASE Rename
  <2>1. /\ title' = UserTitle /\ pinned' = TRUE
        /\ UNCHANGED <<turns, run, tasks, queue, worker>>
    BY <1>8 DEF Rename
  <2>2. UserTitle \in 0..UserTitle  BY TurnsType DEF UserTitle
  <2>3. TasksTyped'  BY <1>1, <2>1, <2>2 DEF TasksTyped
  <2>4. TitleInv'  BY <1>1, <2>1 DEF TitleInv, MakesTitle, Waits
  <2>5. UserTitle \in Nat  BY TurnsType DEF UserTitle
  <2> QED  BY <1>1, <2>1, <2>3, <2>4, <2>5 DEF TitleSafe
<1>9. CASE TakeTask
  BY <1>1, <1>9, TakeTitles DEF TakeTask
<1>10. CASE Complete
  <2>1. /\ worker # 0 /\ EndTask("done") /\ UNCHANGED <<turns, run, pinned, queue>>
        /\ \/ UNCHANGED title
           \/ MakesTitle(worker) /\ GiveTitle(tasks[worker].turn)
    BY <1>10 DEF Complete, MakesTitle
  <2> QED  BY <2>1, EndTitles
<1>11. CASE Fail
  <2>1. worker # 0 /\ EndTask("failed") /\ UNCHANGED <<turns, run, pinned, queue, title>>
    BY <1>11 DEF Fail
  <2> QED  BY <2>1, EndTitles
<1> QED
  BY <1>2, <1>3, <1>4, <1>5, <1>6, <1>7, <1>8, <1>9, <1>10, <1>11
     DEF TaskNext, RunStep, WorkerStep, allVars

LEMMA TitleInvariant == TaskSpec => []TitleSafe
<1>1. TaskInit => TitleSafe
  <2> SUFFICES ASSUME TaskInit PROVE TitleSafe  OBVIOUS
  <2>1. /\ turns = 0 /\ run = "idle" /\ title = 0 /\ pinned = FALSE
        /\ tasks = <<>> /\ queue = <<>> /\ worker = 0
    BY DEF TaskInit
  <2>2. tasks \in Seq(TaskType) /\ queue \in Seq(Nat) /\ DOMAIN tasks = {} /\ DOMAIN queue = {}
    BY <2>1
  <2>3. TasksTyped
    <3>1. turns \in 0..MaxTurns /\ title \in 0..UserTitle  BY <2>1, TurnsType DEF UserTitle
    <3> QED  BY <2>1, <2>2, <3>1 DEF TasksTyped
  <2>4. TitleInv  BY <2>1, <2>2 DEF TitleInv
  <2> QED  BY <2>3, <2>4 DEF TitleSafe
<1>2. TitleSafe /\ [TaskNext]_allVars => TitleSafe'  BY TitleStep
<1> QED  BY <1>1, <1>2, PTL DEF TaskSpec

(* A title gives way only to the one of a later turn or to the user's. *)
THEOREM TitlesAdvance == TaskSpec => TitlesMoveForward
<1>1. TitleSafe /\ [TaskNext]_allVars => [title' >= title]_title  BY TitleStep
<1> QED  BY <1>1, TitleInvariant, PTL DEF TaskSpec, TitlesMoveForward

==============================================================================
