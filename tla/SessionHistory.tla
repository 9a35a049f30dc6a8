---------------------------- MODULE SessionHistory ----------------------------
(***************************************************************************)
(* The memory of one session: the messages and checkpoints in the tenant's *)
(* history (internal/history), the checkpoint chains in the agent's short- *)
(* term memory (internal/memory/shortterm), the turns that append to both, *)
(* the edits that fork a branch, and restarts, after which a chain is      *)
(* restored from the history.                                              *)
(*                                                                         *)
(* A branch is named by where and when it was forked.  A message is known  *)
(* by the turn it belongs to and by its role; the system prompt is written *)
(* like the answer, just before it, and is left out.  A checkpoint is      *)
(* known by its turn and by whether it carries an analysis: initial and    *)
(* reanalysis are stored alike.                                            *)
(***************************************************************************)
EXTENDS Naturals, FiniteSets, SequencesExt, Selection

CONSTANTS
    Limit,      \* chainSoftLimit, chainSoftLimitSQLite (50)
    MaxTurns, MaxForks  \* bounds of the model

ASSUME LimitIsNat == Limit \in Nat

VARIABLES
    messages,   \* rows of messages in the order of their ids
    checkpoints,\* rows of checkpoints in the order of their ids
    memory,     \* SessionManager.sessions: the chain of each branch in use
    pc,         \* where the session's Run is
    branch,     \* the branch it appends to; the main line when there is none
    cp,         \* the checkpoint it is saving, or None
    edit,       \* the message a truncate request is about, or None
    clock,      \* the second of the last fork
    \* For the properties only:
    turns, forks,   \* how many so far
    path,       \* what was said on each branch, the prefix it shares included
    fromMain,   \* the branches that were forked off the main line
    analysed    \* the turns whose analysis was saved

diskVars  == <<messages, checkpoints>>
ghostVars == <<turns, forks, path, fromMain, analysed>>
runVars   == <<pc, branch, cp>>
vars == <<diskVars, memory, runVars, edit, clock, ghostVars>>

-----------------------------------------------------------------------------

Main == <<0, 0>>
None == <<>>

Branches == (Nat \X Nat)
Message  == [branch : Branches, seq : Nat \ {0}, turn : Nat, role : {"user", "assistant"}]
Point    == [turn : Nat, analysis : BOOLEAN]
Row      == [branch : Branches, lastSeq : Nat, cp : Point]

Rows(b) == {i \in 1 .. Len(messages) : messages[i].branch = b}

(* ORDER BY seq; of equal numbers, which only two branches have, by id. *)
Place(rows, i) ==
    Cardinality({h \in rows :
        messages[h].seq < messages[i].seq \/ (messages[h].seq = messages[i].seq /\ h <= i)})
BySeq(rows) ==
    [k \in 1 .. Cardinality(rows) |-> messages[CHOOSE i \in rows : Place(rows, i) = k]]

(* GetSession: the messages of a branch, in the order of their numbers. *)
Shown(b) == LET sorted == BySeq(Rows(b))
            IN  [k \in 1 .. Cardinality(Rows(b)) |-> <<sorted[k].turn, sorted[k].role>>]

Highest(rows) == Max({0} \cup {messages[i].seq : i \in rows})

(* AppendMessage counts over the session, AppendMessageBranch over the     *)
(* branch.                                                                 *)
HighestSeq == Highest(1 .. Len(messages))
NextSeq    == HighestSeq + 1

(* Mutant: the number of messages. *)
NextSeqOnCount(b) == Cardinality(Rows(b)) + 1

NextSeqOn(b) == Highest(Rows(b)) + 1

Append1(b, seq, t, role) ==
    /\ messages' = Append(messages, [branch |-> b, seq |-> seq, turn |-> t, role |-> role])
    /\ path' = [path EXCEPT ![b] = Append(@, <<t, role>>)]

-----------------------------------------------------------------------------
(* Compaction: of the elements at the places F, followups, the oldest n go. *)

Without(s, F, n) ==
    Picked(s, (1 .. Len(s)) \ {i \in F : RankIn(F, i) <= n})

(* Mutant: a negative LIMIT deletes them all, as SQLite has it. *)
OverflowOrAll(n) == IF n > Limit THEN n - Limit ELSE IF n = Limit THEN 0 ELSE n

Overflow(n) == IF n > Limit THEN n - Limit ELSE 0

Compact(chain) ==
    IF Len(chain) <= Limit THEN chain
    ELSE Without(chain, {i \in 1 .. Len(chain) : ~ chain[i].analysis}, Len(chain) - Limit)

(* The table's rule counts and deletes the branch's own rows. *)
CompactRows(rows, b) ==
    LET own == {i \in 1 .. Len(rows) : rows[i].branch = b}
    IN  Without(rows, {i \in own : ~ rows[i].cp.analysis}, Overflow(Cardinality(own)))

(* Mutant: a branch starts without the prefix's checkpoints. *)
InChainOwn(row, b) == row.branch = b

(* Mutant: the checkpoint of the edited turn is taken for the prefix. *)
InChainTooFar(row, b) ==
    row.branch = b \/ (b # Main /\ row.branch = Main /\ row.lastSeq <= b[1])

(* ListCheckpoints: the main line's up to the fork and the branch's own. *)
InChain(row, b) ==
    row.branch = b \/ (b # Main /\ row.branch = Main /\ row.lastSeq < b[1])

Listed(b) ==
    Picked([i \in 1 .. Len(checkpoints) |-> checkpoints[i].cp],
           {i \in 1 .. Len(checkpoints) : InChain(checkpoints[i], b)})

-----------------------------------------------------------------------------
(* A turn: the user's message, the restore, the checkpoint, the answer.    *)

Init ==
    /\ messages = <<>> /\ checkpoints = <<>>
    /\ memory = [b \in {Main} |-> <<>>]
    /\ pc = "idle" /\ branch = Main /\ cp = None /\ edit = None /\ clock = 1
    /\ turns = 0 /\ forks = 0
    /\ path = [b \in {Main} |-> <<>>] /\ fromMain = {} /\ analysed = {}

(* A message without a branch goes to the main line by the other counter   *)
(* than one whose client names "main".                                     *)
Say(b, seq) ==
    /\ pc = "idle" /\ turns < MaxTurns
    /\ turns' = turns + 1
    /\ Append1(b, seq, turns', "user")
    /\ branch' = b
    /\ pc' = "said"
    /\ UNCHANGED <<checkpoints, memory, cp, edit, clock, forks, fromMain, analysed>>

(* restoreIfNeeded *)
Restore ==
    /\ pc = "said"
    /\ memory' = IF branch \in DOMAIN memory /\ memory[branch] # <<>> THEN memory
                 ELSE [b \in DOMAIN memory \cup {branch} |->
                          IF b = branch THEN Listed(branch) ELSE memory[b]]
    /\ pc' = "thinking"
    /\ UNCHANGED <<diskVars, branch, cp, edit, clock, ghostVars>>

Answered(seq) == Append1(branch, seq, turns, "assistant")

AnswerSeq == IF branch = Main THEN NextSeq ELSE NextSeqOn(branch)

(* The turn fails or is stopped: no checkpoint, a message that says so. *)
Fail ==
    /\ pc = "thinking"
    /\ Answered(AnswerSeq)
    /\ pc' = "idle" /\ branch' = Main
    /\ UNCHANGED <<checkpoints, memory, cp, edit, clock, turns, forks, fromMain, analysed>>

(* Create...Checkpoint, in memory. *)
Chain(isAnalysis) ==
    /\ pc = "thinking"
    /\ cp' = <<[turn |-> turns, analysis |-> isAnalysis]>>
    /\ memory' = [memory EXCEPT ![branch] = Compact(@ \o cp')]
    /\ pc' = "chained"
    /\ UNCHANGED <<diskVars, branch, edit, clock, ghostVars>>

(* AppendCheckpoint, in the history. *)
Save ==
    /\ pc = "chained"
    /\ checkpoints' = CompactRows(Append(checkpoints,
            [branch |-> branch, lastSeq |-> Highest(Rows(branch)), cp |-> cp[1]]), branch)
    /\ analysed' = IF cp[1].analysis THEN analysed \cup {turns} ELSE analysed
    /\ cp' = None
    /\ pc' = "saved"
    /\ UNCHANGED <<messages, memory, branch, edit, clock, turns, forks, path, fromMain>>

Answer ==
    /\ pc = "saved"
    /\ Answered(AnswerSeq)
    /\ pc' = "idle" /\ branch' = Main
    /\ UNCHANGED <<checkpoints, memory, cp, edit, clock, turns, forks, fromMain, analysed>>

-----------------------------------------------------------------------------
(* Edit and resend.  Truncate checks that no Run is active and then forks; *)
(* a Run may start in between.                                             *)

EditCheck(m) ==
    /\ pc = "idle" /\ edit = None /\ forks < MaxForks
    /\ m.role = "user"
    /\ edit' = <<m>>
    /\ UNCHANGED <<diskVars, memory, runVars, clock, ghostVars>>

(* BranchAfter: whatever is numbered below the edited message is copied,   *)
(* in that order (equal numbers: of two branches, by id), and numbered     *)
(* from the session's highest on.  The last fork may be of this second.    *)
Fork(now) ==
    LET m      == edit[1]
        b      == <<m.seq, now>>
        shared == {i \in 1 .. Len(messages) : messages[i].seq < m.seq}
        copies == [k \in 1 .. Cardinality(shared) |->
                     [BySeq(shared)[k] EXCEPT !.branch = b, !.seq = HighestSeq + k]]
        said   == path[m.branch]
        before == Picked(said, {i \in 1 .. Len(said) : said[i][1] < m.turn})
    IN  /\ edit # None
        /\ messages' = messages \o copies
        /\ edit' = None
        /\ clock' = now
        /\ forks' = forks + 1
        /\ path' = [c \in DOMAIN path \cup {b} |-> IF c \in DOMAIN path THEN path[c] ELSE before]
        /\ fromMain' = IF m.branch # Main THEN fromMain \ {b}
                       ELSE IF b \in DOMAIN path THEN fromMain ELSE fromMain \cup {b}
        /\ UNCHANGED <<checkpoints, memory, runVars, turns, analysed>>

(* The process restarts: the chains, the Run and the request are gone.     *)
Crash ==
    /\ memory' = [b \in {Main} |-> <<>>]
    /\ pc' = "idle" /\ branch' = Main /\ cp' = None /\ edit' = None
    /\ UNCHANGED <<diskVars, clock, ghostVars>>

-----------------------------------------------------------------------------

(* The client names a branch it was told of; without one, the main line. *)
Next ==
    \/ Say(Main, NextSeq)
    \/ \E b \in DOMAIN path : Say(b, NextSeqOn(b))
    \/ Restore \/ Fail \/ (\E a \in BOOLEAN : Chain(a)) \/ Save \/ Answer
    \/ (\E m \in ToSet(messages) : EditCheck(m)) \/ (\E now \in {clock, clock + 1} : Fork(now))
    \/ Crash

Spec == Init /\ [][Next]_vars

-----------------------------------------------------------------------------
(* Properties. *)

TypeOK ==
    /\ messages \in Seq(Message) /\ checkpoints \in Seq(Row)
    /\ memory = [b \in DOMAIN memory |-> memory[b]] /\ path = [b \in DOMAIN path |-> path[b]]
    /\ {Main, branch} \cup DOMAIN memory \cup fromMain \subseteq DOMAIN path
    /\ DOMAIN path \subseteq Branches /\ Main \in DOMAIN memory \ fromMain
    /\ \A b \in DOMAIN memory : memory[b] \in Seq(Point)
    /\ \A b \in DOMAIN path : path[b] \in Seq(Nat \X {"user", "assistant"})
    /\ pc \in {"idle", "said", "thinking", "chained", "saved"}
    /\ cp \in Seq(Point) /\ Len(cp) <= 1 /\ edit \in Seq(Message) /\ Len(edit) <= 1
    /\ clock \in Nat /\ turns \in Nat /\ forks \in Nat /\ analysed \subseteq Nat

(* No branch's conversation is ever rewritten: what it shows is only added *)
(* to at its end, although branches number their messages each for itself, *)
(* edits copy messages, and two edits may get the same branch.             *)
ConversationsOnlyGrow == [][\A b \in DOMAIN path : IsPrefix(Shown(b), Shown(b)')]_vars

(* On the main line, memory and table compact by the same rule (the        *)
(* comment at AppendCheckpoint): the chain in use is what a restart would  *)
(* restore, but for the checkpoint being saved.                            *)
MainMemoryIsDisk ==
    pc # "chained" /\ memory[Main] # <<>> => memory[Main] = Listed(Main)

(* The turns a chain holds an analysis of. *)
AnalysesIn(chain) == {chain[i].turn : i \in {j \in 1 .. Len(chain) : chain[j].analysis}}

Remembered(b) == {memory[b][i].turn : i \in 1 .. Len(memory[b])}
OnPath(b)     == {path[b][i][1] : i \in 1 .. Len(path[b])}

(* On the main line and every branch off it, the agent thinks with the     *)
(* last analysis of the conversation the user sees, through chat, edits,   *)
(* compaction and restarts (BuildContext's LastAnalysis).                  *)
AnalysisFollowsPath ==
    pc = "thinking" /\ branch \in fromMain \cup {Main} =>
        Max({0} \cup AnalysesIn(memory[branch])) = Max({0} \cup (analysed \cap OnPath(branch)))

(* ... and remembers no turn of the other conversations. *)
NoForeignTurns ==
    pc = "thinking" /\ branch \in fromMain \cup {Main} => Remembered(branch) \subseteq OnPath(branch)

=============================================================================
