---------------------------- MODULE JiyingChannel ----------------------------
(***************************************************************************)
(* The adapter of the JiYing platform (channel/jiying/adapter.go, over the *)
(* WebSocket of ws.go and the envelopes of protocol.go).  The platform     *)
(* numbers its events, keeps them until they are acknowledged, and after a *)
(* reconnection sends again what was not; the adapter handles one event at *)
(* a time and acknowledges it last.                                        *)
(*                                                                         *)
(* One connection carries both the events and the responses to the         *)
(* adapter's requests, and one goroutine reads it: an event that finds the *)
(* queue full keeps every response behind it from being read.  The worker  *)
(* (serve and all it calls) is one process, each turn of the agent         *)
(* (Processor.Process) another; a turn is not stopped when its connection  *)
(* is given up.                                                            *)
(***************************************************************************)
EXTENDS Naturals, Sequences, FiniteSets

CONSTANTS
    Jobs,           \* the goroutines that run Process, reused when they ended
    Worker,         \* the goroutine of Run
    QueueCap,       \* capacity of events (16 in the code)
    MaxEvents,      \* bound of the model: events the platform issues
    MaxMishaps,     \* bound of the model: breaks, crashes, refusals, late answers, repeats,
                    \* and turns longer than the read deadline
    NoJob, Nobody

ASSUME QueueCapType == QueueCap \in Nat \ {0}
ASSUME BoundsType   == {MaxEvents, MaxMishaps} \subseteq Nat
ASSUME NamesApart   == /\ Worker \notin Jobs
                       /\ NoJob \notin Jobs
                       /\ Nobody \notin Jobs \cup {Worker}

VARIABLES
    \* the platform
    event,          \* the kinds of the events issued, by cursor
    confirmed,      \* the last cursor acknowledged
    pushed,         \* the last cursor sent on this connection
    taken,          \* requests written, not yet served
    \* the connection
    link,           \* "down", "open", "broken", or "deaf": the reader has gone, and
                    \* what is written still gets through
    wire,           \* events and responses on their way to the reader
    \* the adapter
    queue,          \* events
    acked,          \* a.acked
    step,           \* where the worker is
    cursor,         \* the event it handles
    turn,           \* a.curTurn
    rpc,            \* where the request of each caller of requestRaw is
    job,            \* the goroutines of Process and their turns
    mishaps,
    \* What happened, for the properties only:
    settled,        \* events whose user was given an answer or the turn's own question,
                    \* or of which the turn had nothing to say
    strayed,        \* events whose user was asked a question of another event's turn
    begun           \* events of which a turn was begun on this connection

platformVars == <<event, confirmed, pushed>>
linkVars     == <<link, wire, taken>>
workerVars   == <<queue, acked, step, cursor, turn>>
ghostVars    == <<settled, strayed, begun>>
vars         == <<platformVars, linkVars, workerVars, rpc, job, mishaps, ghostVars>>

-----------------------------------------------------------------------------

Kind    == {"message", "group", "notice",   \* a click is handled as a message
            "malformed"}                    \* a message or click that does not parse
Outcome == {"text", "silent", "failed"}
Question == {"question", "stray"}           \* choice messages: in the own turn, in another's
Method  == {"topic", "receipt", "answer", "ack"} \cup Question
Callers == Jobs \cup {Worker}

Request == [by : Callers \cup {Nobody}, method : Method, cursor : 1..MaxEvents]
Frame   == [by : Callers \cup {Nobody}, method : Method \cup {"event"},
            cursor : 1..MaxEvents, ok : BOOLEAN]
Event(n)        == [by |-> Nobody, method |-> "event", cursor |-> n, ok |-> TRUE]
Response(r, ok) == [by |-> r.by, method |-> r.method, cursor |-> r.cursor, ok |-> ok]

Turn == [step : {"idle", "running", "asking", "asked"} \cup Outcome,
         cursor : 0..MaxEvents, sentChoice : BOOLEAN, into : Jobs \cup {NoJob}]
Idle == [step |-> "idle", cursor |-> 0, sentChoice |-> FALSE, into |-> NoJob]

Larger(m, n) == IF m > n THEN m ELSE n

JiyingInit ==
    /\ event = <<>> /\ confirmed = 0 /\ pushed = 0 /\ taken = {}
    /\ link = "down" /\ wire = <<>> /\ queue = <<>>
    /\ acked = 0 /\ step = "off" /\ cursor = 0 /\ turn = NoJob
    /\ rpc = [c \in Callers |-> "none"]
    /\ job = [j \in Jobs |-> Idle]
    /\ mishaps = 0
    /\ settled = {} /\ strayed = {} /\ begun = {}

Mishap == mishaps < MaxMishaps /\ mishaps' = mishaps + 1

-----------------------------------------------------------------------------
(* The platform. *)

Issue(k) ==
    /\ Len(event) < MaxEvents
    /\ event' = Append(event, k)
    /\ UNCHANGED <<confirmed, pushed, linkVars, workerVars, rpc, job, mishaps, ghostVars>>

Push ==
    /\ link = "open" /\ pushed < Len(event)
    /\ pushed' = pushed + 1
    /\ wire'   = Append(wire, Event(pushed + 1))
    /\ UNCHANGED <<event, confirmed, link, taken, workerVars, rpc, job, mishaps, ghostVars>>

(* Delivery is at least once. *)
Redeliver(n) ==
    /\ Mishap
    /\ link = "open" /\ n <= pushed
    /\ wire' = Append(wire, Event(n))
    /\ UNCHANGED <<platformVars, link, taken, workerVars, rpc, job, ghostVars>>

(* What a request makes its user see. *)
Show(r) ==
    /\ settled' = IF r.method \in {"answer", "question"} THEN settled \cup {r.cursor} ELSE settled
    /\ strayed' = IF r.method = "stray" THEN strayed \cup {r.cursor} ELSE strayed

(* The request of a connection that was given up is served as well, if it  *)
(* arrived; its response reaches nobody.                                   *)
Serve(r) ==
    /\ taken'     = taken \ {r}
    /\ confirmed' = IF r.method = "ack" THEN Larger(confirmed, r.cursor) ELSE confirmed
    /\ Show(r)
    /\ wire'      = IF r.by = Nobody THEN wire ELSE Append(wire, Response(r, TRUE))
    /\ UNCHANGED <<event, pushed, link, workerVars, rpc, job, mishaps, begun>>

Lose(r) ==
    /\ r.by = Nobody
    /\ taken' = taken \ {r}
    /\ UNCHANGED <<platformVars, link, wire, workerVars, rpc, job, mishaps, ghostVars>>

Refuse(r) ==
    /\ Mishap /\ r.by # Nobody
    /\ taken' = taken \ {r}
    /\ wire'  = Append(wire, Response(r, FALSE))
    /\ UNCHANGED <<platformVars, link, workerVars, rpc, job, ghostVars>>

-----------------------------------------------------------------------------
(* The connection. *)

(* The requests of a connection that is given up.  A topic or a receipt    *)
(* that nobody waits for changes nothing the model keeps.                  *)
Abandoned == {[r EXCEPT !.by = Nobody] :
                 r \in {q \in taken : q.method \notin {"topic", "receipt"}}}

(* What had arrived can still be read. *)
Break(n) ==
    /\ Mishap
    /\ link = "open" /\ link' = "broken"
    /\ wire'  = SubSeq(wire, 1, n)
    /\ taken' = Abandoned
    /\ UNCHANGED <<platformVars, workerVars, rpc, job, ghostVars>>

(* Every read has its deadline, which a ping does not put off: 90 seconds  *)
(* without an event or a response end the reader.  The platform, the       *)
(* reader and serve take less than that.                                   *)
Quiet ==
    /\ link = "open" /\ wire = <<>> /\ pushed = Len(event)
    /\ \/ step = "select" /\ queue = <<>> /\ UNCHANGED mishaps
       \/ step # "select" /\ Mishap
    /\ link' = "deaf" /\ taken' = Abandoned
    /\ UNCHANGED <<wire, platformVars, workerVars, rpc, job, ghostVars>>

Blocked == /\ wire # <<>> /\ Head(wire).method = "event"
           /\ Len(queue) = QueueCap

(* deliver drops the response of a request that is not waiting any more.   *)
Read ==
    LET f == Head(wire) IN
    /\ link # "down" /\ wire # <<>> /\ ~Blocked
    /\ wire' = Tail(wire)
    /\ IF f.method = "event"
       THEN queue' = Append(queue, f.cursor) /\ UNCHANGED rpc
       ELSE /\ rpc' = IF f.by = Nobody THEN rpc
                      ELSE [rpc EXCEPT ![f.by] = IF f.ok THEN "ok" ELSE "failed"]
            /\ UNCHANGED queue
    /\ UNCHANGED <<platformVars, link, taken, acked, step, cursor, turn, job, mishaps, ghostVars>>

(* requestRaw: a write to a broken connection fails, and nobody reads the  *)
(* response that comes back on a deaf one.                                 *)
Call(c, method, n) ==
    IF link \in {"open", "deaf"}
    THEN /\ taken' = taken \cup {[by |-> IF link = "open" THEN c ELSE Nobody,
                                  method |-> method, cursor |-> n]}
         /\ rpc'   = [rpc EXCEPT ![c] = "sent"]
    ELSE rpc' = [rpc EXCEPT ![c] = "failed"] /\ UNCHANGED taken

Waits(c)  == rpc[c] = "sent"
Failed(c) == rpc[c] = "failed"
Ok(c)     == rpc[c] = "ok"

Unanswerable(c) ==
    /\ \A r \in taken : r.by # c
    /\ \A i \in DOMAIN wire : wire[i].by # c

(* Mutant: requestRaw without its timer, save for a blocked reader. *)
OverdueBlocked(c) == Waits(c) /\ Blocked

(* The time of a request is over: nothing can answer it, or the answer is  *)
(* behind an event the reader cannot put into the queue.                   *)
Overdue(c) == Waits(c) /\ (Unanswerable(c) \/ Blocked)

(* The request is no longer pending: its response will reach nobody.       *)
Expire(c) ==
    /\ rpc'   = [rpc EXCEPT ![c] = "failed"]
    /\ taken' = {IF r.by = c THEN [r EXCEPT !.by = Nobody] ELSE r : r \in taken}
    /\ wire'  = [i \in DOMAIN wire |->
                   IF wire[i].by = c THEN [wire[i] EXCEPT !.by = Nobody] ELSE wire[i]]
    /\ UNCHANGED <<platformVars, link, workerVars, job, ghostVars>>

TimeOut(c) == Overdue(c) /\ Expire(c) /\ UNCHANGED mishaps

(* The answer merely takes longer than RequestTimeout. *)
TooLate(c) ==
    /\ Mishap
    /\ Waits(c) /\ ~Overdue(c)
    /\ Expire(c)

-----------------------------------------------------------------------------
(* The worker: Run, serve, handleEvent, processInbound and finishTurn. *)

Connect ==
    /\ step = "off"
    /\ link' = "open" /\ wire' = <<>> /\ queue' = <<>>
    /\ pushed' = confirmed
    /\ step' = "select" /\ begun' = {}
    /\ UNCHANGED <<event, confirmed, taken, acked, cursor, turn, rpc, job, mishaps,
                   settled, strayed>>

(* serve returns: the connection is closed, the turn is no longer the      *)
(* current one, and its goroutine goes on.                                 *)
Hang ==
    /\ link' = "down" /\ wire' = <<>> /\ queue' = <<>> /\ taken' = Abandoned
    /\ step' = "off" /\ cursor' = 0 /\ turn' = NoJob
    /\ rpc'  = [rpc EXCEPT ![Worker] = "none"]
    /\ job'  = [j \in Jobs |-> IF job[j].step \in Outcome THEN [job[j] EXCEPT !.step = "idle"]
                               ELSE job[j]]

GiveUp == Hang /\ UNCHANGED <<platformVars, acked, mishaps, ghostVars>>

(* readErr is seen in serve only, and not before the queued events of the  *)
(* same select have had their chance.                                      *)
ReadError == step = "select" /\ link \in {"broken", "deaf"} /\ wire = <<>> /\ GiveUp

Acknowledge(n) == Call(Worker, "ack", n) /\ step' = "ack" /\ cursor' = n

Free(j) == j # turn /\ job[j].step = "idle" /\ \A i \in Jobs : job[i].into # j

BeginTurn(n, j) ==
    /\ Free(j)
    /\ job'   = [job EXCEPT ![j] = [Idle EXCEPT !.step = "running", !.cursor = n]]
    /\ turn'  = j /\ step' = "turn" /\ cursor' = n
    /\ begun' = begun \cup {n}

IsDuplicate(n) == acked > 0 /\ n <= acked

(* handleEvent and onMessageCreated. *)
HandleEvent(n) ==
    \/ /\ IsDuplicate(n) \/ event[n] = "notice"
       /\ Acknowledge(n)
       /\ UNCHANGED <<turn, job, begun>>
    \/ /\ ~IsDuplicate(n) /\ event[n] = "group"
       /\ Call(Worker, "topic", n) /\ step' = "topic" /\ cursor' = n
       /\ UNCHANGED <<turn, job, begun>>
    \/ /\ ~IsDuplicate(n) /\ event[n] = "message"
       /\ \E j \in Jobs : BeginTurn(n, j)
       /\ UNCHANGED <<rpc, taken>>

TakeEvent ==
    /\ step = "select" /\ queue # <<>>
    /\ queue' = Tail(queue)
    /\ HandleEvent(Head(queue))
    /\ UNCHANGED <<platformVars, link, wire, acked, mishaps, settled, strayed>>

(* What does not parse is not acknowledged; the platform sends it again.   *)
TakeMalformed ==
    /\ step = "select" /\ queue # <<>>
    /\ ~IsDuplicate(Head(queue)) /\ event[Head(queue)] = "malformed"
    /\ GiveUp

(* Without a topic the message is answered in the group. *)
TopicMade ==
    /\ step = "topic" /\ ~Waits(Worker)
    /\ rpc' = [rpc EXCEPT ![Worker] = "none"]
    /\ \E j \in Jobs : BeginTurn(cursor, j)
    /\ UNCHANGED <<platformVars, linkVars, queue, acked, mishaps, settled, strayed>>

SendReceipt ==
    /\ step = "turn" /\ job[turn].step \notin Outcome
    /\ Call(Worker, "receipt", cursor) /\ step' = "receipt"
    /\ UNCHANGED <<platformVars, link, wire, queue, acked, cursor, turn, job, mishaps, ghostVars>>

ReceiptSent ==
    /\ step = "receipt" /\ Ok(Worker)
    /\ step' = "waiting" /\ rpc' = [rpc EXCEPT ![Worker] = "none"]
    /\ UNCHANGED <<platformVars, linkVars, queue, acked, cursor, turn, job, mishaps, ghostVars>>

(* The question was the answer, or there is none. *)
NeedsNoReply(j) == job[j].step = "silent" \/ (job[j].step = "text" /\ job[j].sentChoice)

FinishTurn ==
    /\ step \in {"turn", "waiting"} /\ job[turn].step \in Outcome
    /\ job' = [job EXCEPT ![turn].step = "idle"]
    /\ IF NeedsNoReply(turn) THEN Acknowledge(cursor)
       ELSE Call(Worker, "answer", cursor) /\ step' = "answer" /\ UNCHANGED cursor
    /\ settled' = IF job[turn].step = "silent" THEN settled \cup {cursor} ELSE settled
    /\ UNCHANGED <<platformVars, link, wire, queue, acked, turn, mishaps, strayed, begun>>

ReplySent ==
    /\ step = "answer" /\ Ok(Worker)
    /\ Acknowledge(cursor)
    /\ UNCHANGED <<platformVars, link, wire, queue, acked, turn, job, mishaps, ghostVars>>

(* Mutant: the acknowledged cursor is not kept. *)
AcknowledgedOnly ==
    /\ step = "ack" /\ Ok(Worker)
    /\ step' = "select" /\ cursor' = 0 /\ turn' = NoJob
    /\ rpc' = [rpc EXCEPT ![Worker] = "none"]
    /\ UNCHANGED <<platformVars, linkVars, queue, acked, job, mishaps, ghostVars>>

Acknowledged ==
    /\ step = "ack" /\ Ok(Worker)
    /\ acked' = Larger(acked, cursor)
    /\ step' = "select" /\ cursor' = 0 /\ turn' = NoJob
    /\ rpc' = [rpc EXCEPT ![Worker] = "none"]
    /\ UNCHANGED <<platformVars, linkVars, queue, job, mishaps, ghostVars>>

(* Mutant: the failure is logged, and the next event taken. *)
RequestPassedOver ==
    /\ step \in {"receipt", "answer", "ack"} /\ Failed(Worker)
    /\ step' = "select" /\ cursor' = 0 /\ turn' = NoJob
    /\ rpc' = [rpc EXCEPT ![Worker] = "none"]
    /\ UNCHANGED <<platformVars, linkVars, queue, acked, job, mishaps, ghostVars>>

(* A topic that could not be made is the one failure that is passed over. *)
RequestFails == step \in {"receipt", "answer", "ack"} /\ Failed(Worker) /\ GiveUp

-----------------------------------------------------------------------------
(* The turns. *)

(* HandleAgentEvent and sendChoice: the question goes to the turn that is  *)
(* the current one now.                                                    *)
Ask(j) ==
    LET n == job[turn].cursor IN
    /\ job[j].step = "running" /\ turn # NoJob
    /\ job' = [job EXCEPT ![j].step = "asking", ![j].into = turn]
    /\ Call(j, IF n = job[j].cursor THEN "question" ELSE "stray", n)
    /\ UNCHANGED <<platformVars, link, wire, workerVars, mishaps, ghostVars>>

Asked(j) ==
    /\ job[j].step = "asking" /\ ~Waits(j)
    /\ job' = [i \in Jobs |->
                 [job[i] EXCEPT !.sentChoice = @ \/ (Ok(j) /\ i = job[j].into),
                                !.step = IF i = j THEN "asked" ELSE @,
                                !.into = IF i = j THEN NoJob ELSE @]]
    /\ rpc' = [rpc EXCEPT ![j] = "none"]
    /\ UNCHANGED <<platformVars, linkVars, workerVars, mishaps, ghostVars>>

(* Nobody receives the result of a turn that was given up. *)
EndTurn(j, outcome) ==
    /\ job[j].step \in {"running", "asked"}
    /\ job' = [job EXCEPT ![j].step = IF turn = j THEN outcome ELSE "idle"]
    /\ UNCHANGED <<platformVars, linkVars, workerVars, rpc, mishaps, ghostVars>>

-----------------------------------------------------------------------------

(* The process stops and starts again: nothing of the adapter is stored. *)
Crash ==
    /\ Mishap
    /\ link' = "down" /\ wire' = <<>> /\ queue' = <<>> /\ taken' = Abandoned
    /\ step' = "off" /\ cursor' = 0 /\ turn' = NoJob /\ acked' = 0
    /\ rpc' = [c \in Callers |-> "none"]
    /\ job' = [j \in Jobs |-> Idle]
    /\ UNCHANGED <<platformVars, ghostVars>>

WorkerStep ==
    \/ Connect \/ ReadError \/ TakeEvent \/ TakeMalformed \/ TopicMade \/ ReceiptSent
    \/ FinishTurn \/ ReplySent \/ Acknowledged \/ RequestFails

TurnStep(j) == Asked(j) \/ \E o \in Outcome : EndTurn(j, o)

JiyingNext ==
    \/ \E k \in Kind : Issue(k)
    \/ Push
    \/ \E n \in 1..MaxEvents : Redeliver(n)
    \/ \E r \in taken : Serve(r) \/ Lose(r) \/ Refuse(r)
    \/ \E n \in 0..Len(wire) : Break(n)
    \/ Quiet
    \/ Read
    \/ \E c \in Callers : TimeOut(c) \/ TooLate(c)
    \/ WorkerStep \/ SendReceipt
    \/ \E j \in Jobs : Ask(j) \/ TurnStep(j)
    \/ Crash

JiyingSpec == JiyingInit /\ [][JiyingNext]_vars

(* The platform sends and serves, the reader reads, requests end, the      *)
(* worker goes on and turns end; events, receipts and questions need not   *)
(* come.                                                                   *)
JiyingFairSpec ==
    /\ JiyingSpec
    /\ WF_vars(Push) /\ WF_vars(\E r \in taken : Serve(r))
    /\ WF_vars(Read)
    /\ \A c \in Callers : WF_vars(TimeOut(c))
    /\ WF_vars(WorkerStep)
    /\ \A j \in Jobs : WF_vars(TurnStep(j))

-----------------------------------------------------------------------------

(* The platform has given up what the user was answered: of every event it *)
(* need not send again, the user was told something, unless the turn had   *)
(* nothing to say or the event called for nothing (finishTurn and ack in   *)
(* adapter.go: the acknowledgement comes after the reply).  A question of  *)
(* an abandoned turn may take an event's answer away: strayed.  It follows *)
(* from AnswersInOrder below.                                              *)
AckedWasAnswered ==
    \A n \in 1..confirmed :
        \/ event[n] = "notice"
        \/ n \in settled \cup strayed

(* An event that the platform delivers twice on one connection is put to   *)
(* the agent once (IsDuplicate in handleEvent).                            *)
OneTurnPerConnection ==
    [][\A n \in begun : step # "turn" /\ step' = "turn" => cursor' # n]_vars

(* The users are answered in the order of their events, and the platform   *)
(* forgets an event only when it and all before it are settled, whatever   *)
(* is repeated, broken off and sent again, and although a turn that was    *)
(* given up may still ask (the comment at ack: it confirms the earlier     *)
(* events as well).                                                        *)
Inbox == INSTANCE OrderedInbox WITH
             Kinds <- Kind,
             Mute  <- {"notice"},
             inbox <- event,
             upTo  <- confirmed,
             told  <- settled \cup strayed

AnswersInOrder == Inbox!Spec

QuietMidEvent == Quiet /\ step # "select"

(* As long as the events that wait fit into the queue and the worker's     *)
(* hands, each one is acknowledged in the end, whatever breaks, crashes or *)
(* is refused, and however often the connection falls quiet between two    *)
(* events (Run, serve and requestRaw in adapter.go).  Two things keep the  *)
(* adapter from it for ever: an event that does not parse, which is sent   *)
(* again and again and all later ones behind it; and turns longer than the *)
(* read deadline, whose answer is sent, cannot be confirmed, and is made   *)
(* anew on the next connection.                                            *)
EventsConfirmed ==
    [](Len(event) - confirmed <= QueueCap + 1) /\ <>[][~QuietMidEvent]_vars
        => \A n \in 1..MaxEvents :
               (n <= Len(event) /\ \A m \in 1..n : event[m] # "malformed")
                   ~> (n <= confirmed)

=============================================================================
