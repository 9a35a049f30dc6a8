------------------------------ MODULE TitleTasks ------------------------------
(***************************************************************************)
(* The background tasks (taskbg/taskbg.go, buildTaskRunner in              *)
(* cmd/agent/main.go) and the titles they give a session: a Run of the     *)
(* session ends by submitting a title task (executeTurn and                *)
(* scheduleSessionTitle in channel/http/analyze.go), one worker takes the  *)
(* tasks in order, and the user may rename the session meanwhile           *)
(* (RenameSession in history/store.go).  Both the Run and the worker reach *)
(* the models through ModelAccess.                                         *)
(*                                                                         *)
(* A title is the number of the turn it was made from, or the user's.      *)
(***************************************************************************)
EXTENDS ModelAccess

CONSTANTS
    Turn, Worker,       \* the caller of ChatStream, the caller of Chat
    TaskQueue,          \* capacity of Runner.queue (64 in the code)
    MaxTurns,           \* bound of the model: Runs of the session
    MaxTasks            \* bound of the model: tasks submitted

ASSUME CallersNamed == Streams = {Turn} /\ Chats = {Worker}
ASSUME TaskNumbers  == TaskQueue \in Nat \ {0} /\ {MaxTurns, MaxTasks} \subseteq Nat

VARIABLES
    turns,      \* turns of the session, the one under way included
    run,        \* where the session's Run is
    title,      \* sessions.title
    pinned,     \* sessions.title_pinned
    tasks,      \* the tasks submitted, in the order of Runner.tasks
    queue,      \* Runner.queue
    worker      \* the task the worker executes, or 0

taskVars == <<turns, run, title, pinned, tasks, queue, worker>>
allVars  == <<accessVars, taskVars>>

-----------------------------------------------------------------------------

(* A consolidation or a lint ends well or badly: what it writes is in      *)
(* WikiReview.                                                             *)
TaskKind  == {"title", "other"}
UserTitle == MaxTurns + 1

TaskInit ==
    /\ AccessInit
    /\ turns = 0 /\ run = "idle" /\ title = 0 /\ pinned = FALSE
    /\ tasks = <<>> /\ queue = <<>> /\ worker = 0

-----------------------------------------------------------------------------
(* The Run. *)

StartTurn ==
    /\ run = "idle" /\ turns < MaxTurns
    /\ turns' = turns + 1 /\ run' = "turn"
    /\ call' = Started(Turn, Changing)
    /\ UNCHANGED <<title, pinned, tasks, queue, worker>> /\ Others

(* A turn that failed or was cancelled has no title made. *)
TurnOver ==
    /\ run = "turn" /\ call[Turn].step \in {"ok", "failed"}
    /\ run'  = IF call[Turn].step = "ok" THEN "schedule" ELSE "idle"
    /\ call' = [call EXCEPT ![Turn] = Quiet]
    /\ UNCHANGED <<turns, title, pinned, tasks, queue, worker>> /\ Others

(* Submit: the task is listed at once and waits for the queue. *)
List(kind, n) == tasks' = Append(tasks, [kind |-> kind, turn |-> n, status |-> "waiting"])

Schedule ==
    /\ run = "schedule"
    /\ IF pinned THEN run' = "idle" /\ UNCHANGED tasks
       ELSE /\ Len(tasks) < MaxTasks
            /\ List("title", turns) /\ run' = "submit"
    /\ UNCHANGED <<accessVars, turns, title, pinned, queue, worker>>

(* handleTaskConsolidate and handleTaskLint. *)
SubmitOther ==
    /\ Len(tasks) < MaxTasks /\ Command
    /\ List("other", 0)
    /\ UNCHANGED <<configVars, put, call, overlapped, turns, run, title, pinned, queue, worker>>

(* The Run that submitted a title task is over when the queue takes it. *)
Enqueue(i) ==
    /\ tasks[i].status = "waiting" /\ Len(queue) < TaskQueue
    /\ queue' = Append(queue, i)
    /\ tasks' = [tasks EXCEPT ![i].status = "queued"]
    /\ run'   = IF tasks[i].kind = "title" THEN "idle" ELSE run
    /\ UNCHANGED <<accessVars, turns, title, pinned, worker>>

(* RenameSession. *)
Rename ==
    /\ Command
    /\ title' = UserTitle /\ pinned' = TRUE
    /\ UNCHANGED <<configVars, put, call, overlapped, turns, run, tasks, queue, worker>>

-----------------------------------------------------------------------------
(* The worker. *)

TakeTask ==
    /\ worker = 0 /\ queue # <<>>
    /\ worker' = Head(queue) /\ queue' = Tail(queue)
    /\ tasks'  = [tasks EXCEPT ![Head(queue)].status = "running"]
    /\ call'   = IF tasks[Head(queue)].kind = "other" THEN call ELSE Started(Worker, Changing)
    /\ UNCHANGED <<turns, run, title, pinned>> /\ Others

(* Mutant: a panic passes over the lines that write the status. *)
EndTaskPanicked(outcome) ==
    /\ tasks'  = IF outcome = "failed" THEN tasks ELSE [tasks EXCEPT ![worker].status = outcome]
    /\ worker' = 0
    /\ call'   = [call EXCEPT ![Worker] = Quiet]

EndTask(outcome) ==
    /\ tasks'  = [tasks EXCEPT ![worker].status = outcome]
    /\ worker' = 0
    /\ call'   = [call EXCEPT ![Worker] = Quiet]

(* Mutant: the flag is left to scheduleSessionTitle, which read it before  *)
(* the model was asked.                                                    *)
GiveTitleAnyway(n) == title' = n

(* EnsureSession respects a pinned title. *)
GiveTitle(n) == title' = IF pinned THEN title ELSE n

Complete ==
    LET t == tasks[worker] IN
    /\ worker # 0
    /\ t.kind = "other" \/ call[Worker].step = "ok"
    /\ IF t.kind = "title" THEN GiveTitle(t.turn) ELSE UNCHANGED title
    /\ EndTask("done")
    /\ UNCHANGED <<turns, run, pinned, queue>> /\ Others

(* No model, a bad answer, five minutes over, or a panic. *)
Fail ==
    /\ worker # 0
    /\ tasks[worker].kind = "other" \/ call[Worker].step \in {"ok", "failed"}
    /\ EndTask("failed")
    /\ UNCHANGED <<turns, run, title, pinned, queue>> /\ Others

-----------------------------------------------------------------------------

(* The submitted tasks are taken in order; the runs' and calls' steps are  *)
(* those of the program, never waiting for a user.                         *)
WorkerStep == TakeTask \/ Complete \/ Fail
RunStep    == TurnOver \/ Schedule

TaskNext ==
    \/ StartTurn \/ RunStep \/ Rename \/ WorkerStep
    \/ SubmitOther
    \/ \E i \in DOMAIN tasks : Enqueue(i)
    \/ /\ \/ \E p \in Puts : PutStep(p) \/ \E ch \in Change : BeginPut(p, ch)
          \/ \E c \in Callers : Cancel(c) \/ CallStep(c)
       /\ UNCHANGED taskVars

TaskSpec == TaskInit /\ [][TaskNext]_allVars

(* A request to a model ends (every one has a timeout), the queue's        *)
(* senders and its worker go on, and a Run goes on once its call ended.    *)
TaskFairSpec ==
    /\ TaskSpec
    /\ WF_allVars(WorkerStep) /\ WF_allVars(RunStep)
    /\ \A c \in Callers : WF_allVars(CallStep(c) /\ UNCHANGED taskVars)
    /\ WF_allVars(\E i \in DOMAIN tasks : Enqueue(i))

-----------------------------------------------------------------------------

(* A title is never replaced by the one of an earlier turn, and the user's *)
(* by none: the flag is read before a model is asked and may be set while  *)
(* the task waits (scheduleSessionTitle, buildTaskRunner, EnsureSession).  *)
TitlesMoveForward == [][title' >= title]_title

(* Every task that was submitted ends, though one before it panics and the *)
(* queue was full (Runner.Submit, worker and run in taskbg.go).            *)
TasksEnd == []<>(\A i \in DOMAIN tasks : tasks[i].status \in {"done", "failed"})

=============================================================================
