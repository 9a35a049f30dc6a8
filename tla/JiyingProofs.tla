----------------------------- MODULE JiyingProofs -----------------------------
(***************************************************************************)
(* Proofs about JiyingChannel: that the adapter acknowledges nothing it    *)
(* did not answer, and puts no event to the agent twice on a connection,   *)
(* for any number of events, turns, breaks, crashes, refusals and late     *)
(* answers.                                                                *)
(***************************************************************************)
EXTENDS JiyingChannel, TLAPS

Cursors == 1..MaxEvents
Steps   == {"off", "select", "topic", "turn", "receipt", "waiting", "answer", "ack"}
Working == {"turn", "receipt", "waiting", "answer"}
RpcStates == {"none", "sent", "ok", "failed"}

PlatformTyped == /\ event \in Seq(Kind) /\ Len(event) <= MaxEvents
                 /\ confirmed \in 0..Len(event) /\ pushed \in 0..Len(event)
                 /\ settled \subseteq Cursors /\ strayed \subseteq Cursors
                 /\ begun \subseteq Cursors
LinkTyped     == /\ link \in {"down", "open", "broken", "deaf"}
                 /\ wire \in Seq(Frame) /\ taken \subseteq Request
                 /\ queue \in Seq(Cursors)
                 /\ \A i \in DOMAIN wire : wire[i].cursor <= Len(event)
                 /\ \A r \in taken : r.cursor <= Len(event)
                 /\ \A i \in DOMAIN queue : queue[i] <= Len(event)
WorkerTyped   == /\ acked \in 0..Len(event) /\ cursor \in 0..Len(event)
                 /\ step \in Steps
                 /\ step \in {"off", "select"} <=> cursor = 0
                 /\ step \in {"off", "select", "turn", "waiting"} => rpc[Worker] = "none"
                 /\ rpc \in [Callers -> RpcStates]
JobsTyped     == job \in [Jobs -> Turn]

(* The current turn is the worker's event's; a question goes into a turn   *)
(* that keeps its event meanwhile.                                         *)
TurnInv ==
    /\ step \in Working => turn # NoJob
    /\ turn # NoJob => /\ turn \in Jobs /\ job[turn].cursor = cursor
                       /\ step \in Working \cup {"ack"}
    /\ \A j \in Jobs : IF job[j].step = "asking"
                       THEN job[j].into \in Jobs /\ job[job[j].into].cursor \in Cursors
                       ELSE job[j].into = NoJob /\ rpc[j] = "none"

Told    == settled \cup strayed
Done(n) == event[n] = "notice" \/ n \in Told

(* What c is waiting for. *)
Matches(c, r) ==
    IF c = Worker THEN r.method = step /\ r.cursor = cursor
    ELSE /\ job[c].step = "asking" /\ r.method \in Question
         /\ r.cursor = job[job[c].into].cursor

Tells == {"answer"} \cup Question

(* One request of each caller at most is on its way, there or back, and    *)
(* its caller waits for it.                                                *)
FlightInv ==
    /\ \A r \in taken : r.by # Nobody =>
          /\ rpc[r.by] = "sent" /\ Matches(r.by, r)
          /\ \A o \in taken : o.by = r.by => o = r
          /\ \A i \in DOMAIN wire : wire[i].by # r.by
    /\ \A i \in DOMAIN wire : wire[i].by # Nobody =>
          /\ rpc[wire[i].by] = "sent" /\ Matches(wire[i].by, wire[i])
          /\ \A j \in DOMAIN wire : wire[j].by = wire[i].by => j = i

(* A good response to an answer or a question means that it was seen. *)
AnswerInv ==
    /\ \A i \in DOMAIN wire : wire[i].method \in Tells /\ wire[i].ok => wire[i].cursor \in Told
    /\ step = "answer" /\ rpc[Worker] = "ok" => cursor \in Told
    /\ \A j \in Jobs : /\ job[j].step = "asking" /\ rpc[j] = "ok"
                             => job[job[j].into].cursor \in Told
                       /\ job[j].sentChoice => job[j].cursor \in Told

(* What is acknowledged, or about to be, is done, with all before it. *)
DoneInv ==
    /\ \A n \in 1..confirmed : Done(n)
    /\ \A n \in 1..acked : Done(n)
    /\ \A r \in taken : r.method = "ack" => \A n \in 1..r.cursor : Done(n)
    /\ \A n \in 1..(cursor - 1) : Done(n)
    /\ step = "ack" => Done(cursor)

(* The events come in order: what is before one of them is done, in the    *)
(* worker's hands, or in front of it.                                      *)
Handled(n)  == Done(n) \/ n = cursor
Queued(n)   == \E i \in DOMAIN queue : queue[i] = n
Wired(n, k) == \E i \in 1..k : wire[i].method = "event" /\ wire[i].cursor = n

OrderInv ==
    /\ \A i \in DOMAIN queue : \A n \in 1..(queue[i] - 1) :
          Handled(n) \/ \E k \in 1..(i - 1) : queue[k] = n
    /\ \A i \in DOMAIN wire : wire[i].method = "event" =>
          \A n \in 1..(wire[i].cursor - 1) : Handled(n) \/ Queued(n) \/ Wired(n, i - 1)
    /\ link = "open" => \A n \in 1..pushed : Handled(n) \/ Queued(n) \/ Wired(n, Len(wire))

(* Every event a turn was begun for is acknowledged, but for the one in    *)
(* the worker's hands.                                                     *)
BegunInv ==
    /\ step # "off" => \A n \in begun \ {cursor} : n <= acked
    /\ step = "topic" => acked < cursor /\ cursor \notin begun

ChannelInv ==
    /\ PlatformTyped /\ LinkTyped /\ WorkerTyped /\ JobsTyped
    /\ TurnInv /\ FlightInv /\ AnswerInv /\ DoneInv /\ OrderInv /\ BegunInv


-----------------------------------------------------------------------------
(* What a step does to the requests and frames on their way. *)

Typed == PlatformTyped /\ LinkTyped /\ WorkerTyped /\ JobsTyped

(* The frames after the step were there before, k places further back;     *)
(* some have lost their caller.                                            *)
Thin(k) ==
    \A i \in DOMAIN wire' :
        /\ i + k \in DOMAIN wire
        /\ wire'[i].method = wire[i + k].method /\ wire'[i].cursor = wire[i + k].cursor
        /\ wire'[i].ok = wire[i + k].ok /\ wire'[i].by \in {Nobody, wire[i + k].by}

Fewer ==
    \A r \in taken' : \E o \in taken :
        /\ r.method = o.method /\ r.cursor = o.cursor /\ (r.by = Nobody \/ r = o)

(* What c waits for stays what it is. *)
Keeps(c) ==
    IF c = Worker THEN step' = step /\ cursor' = cursor
    ELSE job[c].step = "asking" =>
            /\ job'[c].step = "asking" /\ job'[c].into = job[c].into
            /\ job'[job[c].into].cursor = job[job[c].into].cursor

Absent(c) == /\ \A r \in taken : r.by # c
             /\ \A i \in DOMAIN wire : wire[i].by # c

LEMMA Apart == /\ Worker \in Callers /\ Nobody \notin Callers /\ Nobody # Worker
               /\ Jobs \subseteq Callers /\ Worker \notin Jobs
               /\ \A c \in Callers : c # Worker => c \in Jobs
               /\ NoJob \notin Jobs /\ Nobody \notin Jobs
BY NamesApart DEF Callers

LEMMA CallersOf ==
  ASSUME LinkTyped
  PROVE  /\ \A r \in taken : r.by \in Callers \cup {Nobody} /\ r.method \in Method
                             /\ r.cursor \in Cursors
         /\ \A i \in DOMAIN wire : /\ wire[i].by \in Callers \cup {Nobody}
                                   /\ wire[i].method \in Method \cup {"event"}
                                   /\ wire[i].cursor \in Cursors /\ wire[i].ok \in BOOLEAN
<1>1. \A r \in taken : r \in Request  BY DEF LinkTyped
<1>2. \A i \in DOMAIN wire : wire[i] \in Frame  BY DEF LinkTyped
<1> QED  BY <1>1, <1>2 DEF Request, Frame, Cursors

LEMMA MatchesKept ==
  ASSUME Typed, NEW c \in Callers, NEW r, Keeps(c), Matches(c, r)
  PROVE  IF c = Worker THEN r.method = step' /\ r.cursor = cursor'
         ELSE /\ job'[c].step = "asking" /\ r.method \in Question
              /\ r.cursor = job'[job'[c].into].cursor
BY DEF Keeps, Matches

LEMMA FlightThins ==
  ASSUME Typed, LinkTyped', FlightInv, NEW k \in Nat, Thin(k), Fewer,
         \A c \in Callers : rpc[c] = "sent" =>
            \/ rpc'[c] = "sent" /\ Keeps(c)
            \/ Absent(c)'
  PROVE  FlightInv'
<1>1. \A r \in taken' : r.by \in Callers \cup {Nobody}  BY CallersOf DEF LinkTyped, Request
<1>2. \A i \in DOMAIN wire' : wire'[i].by \in Callers \cup {Nobody}
  <2>1. \A i \in DOMAIN wire' : wire'[i] \in Frame  BY DEF LinkTyped
  <2> QED  BY <2>1 DEF Frame
<1>a. wire \in Seq(Frame) /\ wire' \in Seq(Frame)  BY DEF Typed, LinkTyped
<1>3. ASSUME NEW r \in taken', r.by # Nobody
      PROVE  /\ rpc'[r.by] = "sent" /\ Matches(r.by, r)'
             /\ \A o \in taken' : o.by = r.by => o = r
             /\ \A i \in DOMAIN wire' : wire'[i].by # r.by
  <2>1. r \in taken /\ r.by \in Callers  BY <1>1, <1>3 DEF Fewer
  <2>2. /\ rpc[r.by] = "sent" /\ Matches(r.by, r)
        /\ \A o \in taken : o.by = r.by => o = r
        /\ \A i \in DOMAIN wire : wire[i].by # r.by
    BY <1>3, <2>1 DEF FlightInv
  <2>3. rpc'[r.by] = "sent" /\ Keeps(r.by)  BY <1>3, <2>1, <2>2 DEF Absent
  <2>4. Matches(r.by, r)'  BY <2>1, <2>2, <2>3, MatchesKept DEF Matches
  <2>5. \A o \in taken' : o.by = r.by => o = r  BY <1>3, <2>2 DEF Fewer
  <2>6. \A i \in DOMAIN wire' : wire'[i].by # r.by  BY <1>3, <2>2 DEF Thin
  <2> QED  BY <2>3, <2>4, <2>5, <2>6
<1>4. ASSUME NEW i \in DOMAIN wire', wire'[i].by # Nobody
      PROVE  /\ rpc'[wire'[i].by] = "sent" /\ Matches(wire[i].by, wire[i])'
             /\ \A j \in DOMAIN wire' : wire'[j].by = wire'[i].by => j = i
  <2> DEFINE f == wire[i + k]
             c == wire'[i].by
  <2>1. /\ i + k \in DOMAIN wire /\ f.by = c /\ c \in Callers
        /\ wire'[i].method = f.method /\ wire'[i].cursor = f.cursor
    BY <1>2, <1>4 DEF Thin
  <2>2. /\ rpc[c] = "sent" /\ Matches(c, f)
        /\ \A j \in DOMAIN wire : wire[j].by = c => j = i + k
    BY <1>4, <2>1 DEF FlightInv
  <2>3. rpc'[c] = "sent" /\ Keeps(c)  BY <1>4, <2>1, <2>2 DEF Absent
  <2>4. Matches(wire[i].by, wire[i])'
    <3> HIDE DEF f
    <3> QED  BY <2>1, <2>2, <2>3, MatchesKept DEF Matches
  <2>5. \A j \in DOMAIN wire' : wire'[j].by = c => j = i
    <3> SUFFICES ASSUME NEW j \in DOMAIN wire', wire'[j].by = c PROVE j = i  OBVIOUS
    <3>1. j + k \in DOMAIN wire /\ wire[j + k].by = c  BY <1>4 DEF Thin
    <3>2. j + k = i + k  BY <2>2, <3>1
    <3> QED  BY <1>a, <3>2
  <2> QED  BY <2>3, <2>4, <2>5
<1> QED  BY <1>3, <1>4 DEF FlightInv

LEMMA FlightCalls ==
  ASSUME Typed, LinkTyped', FlightInv, NEW c \in Callers, NEW m \in Method, NEW n,
         Call(c, m, n), rpc[c] # "sent", UNCHANGED wire,
         \A d \in Callers \ {c} : Keeps(d),
         IF c = Worker THEN m = step' /\ n = cursor'
         ELSE /\ job'[c].step = "asking" /\ m \in Question
              /\ n = job'[job'[c].into].cursor
  PROVE  FlightInv'
<1> DEFINE q == [by |-> IF link = "open" THEN c ELSE Nobody, method |-> m, cursor |-> n]
<1>1. /\ \A d \in Callers \ {c} : rpc'[d] = rpc[d]
      /\ \/ taken' = taken /\ rpc'[c] = "failed"
         \/ taken' = taken \cup {q} /\ rpc'[c] = "sent"
  BY DEF Call, Typed, WorkerTyped
<1>2. q.by \in {c, Nobody} /\ q.method = m /\ q.cursor = n  OBVIOUS
<1> HIDE DEF q
<1>3. Absent(c)
  <2>1. c # Nobody  BY Apart
  <2> QED  BY <2>1 DEF FlightInv, Absent
<1>4. \A r \in taken : r.by \in Callers \cup {Nobody}  BY CallersOf DEF Typed
<1>5. \A i \in DOMAIN wire : wire[i].by \in Callers \cup {Nobody}  BY CallersOf DEF Typed
<1>6. ASSUME NEW d \in Callers \ {c}, NEW r, Matches(d, r) PROVE Matches(d, r)'
  <2>1. Keeps(d) /\ d \in Callers  OBVIOUS
  <2>2. IF d = Worker THEN r.method = step' /\ r.cursor = cursor'
         ELSE /\ job'[d].step = "asking" /\ r.method \in Question
              /\ r.cursor = job'[job'[d].into].cursor
    BY <1>6, <2>1, MatchesKept
  <2> QED  BY <2>2 DEF Matches
<1>7. ASSUME NEW r \in taken', r.by # Nobody
      PROVE  /\ rpc'[r.by] = "sent" /\ Matches(r.by, r)'
             /\ \A o \in taken' : o.by = r.by => o = r
             /\ \A i \in DOMAIN wire' : wire'[i].by # r.by
  <2>1. CASE r \in taken
    <3>1. /\ rpc[r.by] = "sent" /\ Matches(r.by, r)
          /\ \A o \in taken : o.by = r.by => o = r
          /\ \A i \in DOMAIN wire : wire[i].by # r.by
      BY <1>7, <2>1 DEF FlightInv
    <3>2. r.by \in Callers \ {c}  BY <1>3, <1>4, <1>7, <2>1 DEF Absent
    <3>3. Matches(r.by, r)'  BY <1>6, <3>1, <3>2 DEF Matches
    <3>4. q.by # r.by  BY <1>2, <1>7, <3>2
    <3> QED  BY <1>1, <3>1, <3>2, <3>3, <3>4
  <2>2. CASE r \notin taken
    <3>1. r = q /\ r.by = c /\ rpc'[c] = "sent"  BY <1>1, <1>2, <1>7, <2>2
    <3>2. Matches(r.by, r)'  BY <1>2, <3>1 DEF Matches
    <3> QED  BY <1>1, <1>3, <3>1, <3>2 DEF Absent
  <2> QED  BY <2>1, <2>2
<1>8. ASSUME NEW i \in DOMAIN wire', wire'[i].by # Nobody
      PROVE  /\ rpc'[wire'[i].by] = "sent" /\ Matches(wire[i].by, wire[i])'
             /\ \A j \in DOMAIN wire' : wire'[j].by = wire'[i].by => j = i
  <2>1. /\ rpc[wire[i].by] = "sent" /\ Matches(wire[i].by, wire[i])
        /\ \A j \in DOMAIN wire : wire[j].by = wire[i].by => j = i
    BY <1>8 DEF FlightInv
  <2>2. wire[i].by \in Callers \ {c}  BY <1>3, <1>5, <1>8 DEF Absent
  <2>3. Matches(wire[i].by, wire[i])'  BY <1>6, <2>1, <2>2 DEF Matches
  <2> QED  BY <1>1, <2>1, <2>2, <2>3
<1> QED  BY <1>7, <1>8 DEF FlightInv

(* A frame is put at the end of the wire: an event, or the response to a   *)
(* request that is no longer with the platform.                            *)
LEMMA FlightAppends ==
  ASSUME Typed, LinkTyped', FlightInv, NEW f, wire' = Append(wire, f),
         taken' \subseteq taken,
         \/ f.by = Nobody
         \/ \E r \in taken \ taken' : r.by = f.by /\ r.method = f.method /\ r.cursor = f.cursor,
         UNCHANGED <<rpc, step, cursor, job>>
  PROVE  FlightInv'
<1>1. /\ wire \in Seq(Frame) /\ Len(wire) \in Nat /\ DOMAIN wire = 1..Len(wire)
      /\ DOMAIN wire' = 1..(Len(wire) + 1) /\ wire'[Len(wire) + 1] = f
      /\ \A i \in DOMAIN wire : wire'[i] = wire[i]
  BY DEF Typed, LinkTyped
<1>2. \A c, r : Matches(c, r)' = Matches(c, r)  BY DEF Matches
<1>3. ASSUME f.by # Nobody
      PROVE  /\ rpc[f.by] = "sent" /\ Matches(f.by, f)
             /\ \A o \in taken' : o.by # f.by
             /\ \A i \in DOMAIN wire : wire[i].by # f.by
  <2>1. PICK r \in taken \ taken' : r.by = f.by /\ r.method = f.method /\ r.cursor = f.cursor
    BY <1>3
  <2>2. /\ rpc[r.by] = "sent" /\ Matches(r.by, r)
        /\ \A o \in taken : o.by = r.by => o = r
        /\ \A i \in DOMAIN wire : wire[i].by # r.by
    BY <1>3, <2>1 DEF FlightInv
  <2> QED  BY <2>1, <2>2 DEF Matches
<1>4. ASSUME NEW r \in taken', r.by # Nobody
      PROVE  /\ rpc'[r.by] = "sent" /\ Matches(r.by, r)'
             /\ \A o \in taken' : o.by = r.by => o = r
             /\ \A i \in DOMAIN wire' : wire'[i].by # r.by
  <2>1. /\ rpc[r.by] = "sent" /\ Matches(r.by, r)
        /\ \A o \in taken : o.by = r.by => o = r
        /\ \A i \in DOMAIN wire : wire[i].by # r.by
    BY <1>4 DEF FlightInv
  <2>2. Matches(r.by, r)'  BY <2>1 DEF Matches
  <2>3. \A i \in DOMAIN wire' : wire'[i].by # r.by  BY <1>1, <1>3, <1>4, <2>1
  <2> QED  BY <2>1, <2>2, <2>3
<1>5. ASSUME NEW i \in DOMAIN wire', wire'[i].by # Nobody
      PROVE  /\ rpc'[wire'[i].by] = "sent" /\ Matches(wire[i].by, wire[i])'
             /\ \A j \in DOMAIN wire' : wire'[j].by = wire'[i].by => j = i
  <2>1. CASE i \in DOMAIN wire
    <3>1. /\ rpc[wire[i].by] = "sent" /\ Matches(wire[i].by, wire[i])
          /\ \A j \in DOMAIN wire : wire[j].by = wire[i].by => j = i
      BY <1>1, <1>5, <2>1 DEF FlightInv
    <3> QED  BY <1>1, <1>3, <1>5, <2>1, <3>1 DEF Matches
  <2>2. CASE i = Len(wire) + 1
    BY <1>1, <1>3, <1>5, <2>2 DEF Matches
  <2> QED  BY <1>1, <2>1, <2>2
<1> QED  BY <1>4, <1>5 DEF FlightInv


-----------------------------------------------------------------------------
(* What a step does to the answers, and to what is done. *)

LEMMA AnswersQuiet ==
  ASSUME Typed, AnswerInv, NEW k \in Nat, Thin(k), Told \subseteq Told',
         step' = "answer" /\ rpc'[Worker] = "ok" =>
            step = "answer" /\ rpc[Worker] = "ok" /\ cursor' = cursor,
         \A j \in Jobs :
            /\ job'[j].step = "asking" /\ rpc'[j] = "ok" =>
                  /\ job[j].step = "asking" /\ rpc[j] = "ok"
                  /\ job'[job'[j].into].cursor = job[job[j].into].cursor
            /\ job'[j].sentChoice => job[j].sentChoice /\ job'[j].cursor = job[j].cursor
  PROVE  AnswerInv'
<1>1. \A i \in DOMAIN wire' : wire'[i].method \in Tells /\ wire'[i].ok => wire'[i].cursor \in Told'
  BY DEF Thin, AnswerInv
<1>2. step' = "answer" /\ rpc'[Worker] = "ok" => cursor' \in Told'
  BY DEF AnswerInv
<1>3. \A j \in Jobs : /\ job'[j].step = "asking" /\ rpc'[j] = "ok"
                             => job'[job'[j].into].cursor \in Told'
                      /\ job'[j].sentChoice => job'[j].cursor \in Told'
  BY DEF AnswerInv
<1> QED  BY <1>1, <1>2, <1>3 DEF AnswerInv

LEMMA AnswersAppend ==
  ASSUME Typed, AnswerInv, NEW f, wire' = Append(wire, f), Told \subseteq Told',
         f.method \in Tells /\ f.ok => f.cursor \in Told',
         UNCHANGED <<rpc, step, cursor, job>>
  PROVE  AnswerInv'
<1>1. /\ wire \in Seq(Frame) /\ Len(wire) \in Nat /\ DOMAIN wire = 1..Len(wire)
      /\ DOMAIN wire' = 1..(Len(wire) + 1) /\ wire'[Len(wire) + 1] = f
      /\ \A i \in DOMAIN wire : wire'[i] = wire[i]
  BY DEF Typed, LinkTyped
<1>2. ASSUME NEW i \in DOMAIN wire', wire'[i].method \in Tells, wire'[i].ok
      PROVE  wire'[i].cursor \in Told'
  <2>1. CASE i \in DOMAIN wire  BY <1>1, <1>2, <2>1 DEF AnswerInv
  <2>2. CASE i = Len(wire) + 1  BY <1>1, <1>2, <2>2
  <2> QED  BY <1>1, <2>1, <2>2
<1> QED  BY <1>2 DEF AnswerInv

(* The platform's list only grows, and nobody takes back what was told. *)
Lasting == \A n \in 1..Len(event) : Done(n) => Done(n)'

LEMMA TellingLasts ==
  ASSUME PlatformTyped, Told \subseteq Told',
         UNCHANGED event \/ \E k \in Kind : event' = Append(event, k)
  PROVE  Lasting /\ Len(event) <= Len(event')
<1>1. event \in Seq(Kind)  BY DEF PlatformTyped
<1>2. \A n \in 1..Len(event) : event'[n] = event[n]  BY <1>1
<1>3. Len(event) <= Len(event')  BY <1>1
<1> QED  BY <1>2, <1>3 DEF Lasting, Done

LEMMA DoneQuiet ==
  ASSUME Typed, DoneInv, Lasting,
         confirmed' = confirmed \/ \A n \in 1..confirmed' : Done(n)',
         acked' \in {0, acked} \/ \A n \in 1..acked' : Done(n)',
         \A r \in taken' : r.method = "ack" =>
            \/ \E o \in taken : o.method = "ack" /\ o.cursor = r.cursor
            \/ \A n \in 1..r.cursor : Done(n)',
         cursor' \in {0, cursor} \/ \A n \in 1..(cursor' - 1) : Done(n)',
         step' = "ack" => (step = "ack" /\ cursor' = cursor) \/ Done(cursor)'
  PROVE  DoneInv'
<1>a. /\ Len(event) \in Nat /\ confirmed \in 0..Len(event) /\ acked \in 0..Len(event)
      /\ cursor \in 0..Len(event)
      /\ \A r \in taken : r.cursor \in Nat /\ r.cursor <= Len(event)
  <2>1. \A r \in taken : r.cursor \in Nat  BY CallersOf DEF Typed, Cursors
  <2> QED  BY <2>1 DEF Typed, PlatformTyped, WorkerTyped, LinkTyped
<1>1. \A n \in 1..confirmed' : Done(n)'  BY <1>a DEF DoneInv, Lasting
<1>2. \A n \in 1..acked' : Done(n)'  BY <1>a DEF DoneInv, Lasting
<1>3. \A r \in taken' : r.method = "ack" => \A n \in 1..r.cursor : Done(n)'
  BY <1>a DEF DoneInv, Lasting
<1>4. \A n \in 1..(cursor' - 1) : Done(n)'  BY <1>a DEF DoneInv, Lasting
<1>5. step' = "ack" => Done(cursor)'
  <2>1. step = "ack" => cursor \in 1..Len(event)  BY <1>a DEF Typed, WorkerTyped
  <2> QED  BY <2>1 DEF DoneInv, Lasting, Done
<1> QED  BY <1>1, <1>2, <1>3, <1>4, <1>5 DEF DoneInv


-----------------------------------------------------------------------------
(* What a step does to the order of the events. *)

HandledLasts == \A n \in 1..Len(event) : Handled(n) => Handled(n)'

LEMMA WireFacts ==
  ASSUME LinkTyped, PlatformTyped
  PROVE  /\ wire \in Seq(Frame) /\ Len(wire) \in Nat /\ DOMAIN wire = 1..Len(wire)
         /\ queue \in Seq(Cursors) /\ Len(queue) \in Nat /\ DOMAIN queue = 1..Len(queue)
         /\ Len(event) \in Nat /\ pushed \in 0..Len(event) /\ confirmed \in 0..Len(event)
         /\ \A i \in DOMAIN wire : wire[i].cursor \in 1..Len(event)
         /\ \A i \in DOMAIN queue : queue[i] \in 1..Len(event)
<1>1. \A i \in DOMAIN wire : wire[i].cursor \in Cursors  BY CallersOf
<1>2. Len(event) \in Nat  BY DEF PlatformTyped
<1>3. \A i \in DOMAIN queue : queue[i] \in Cursors  BY DEF LinkTyped
<1> QED  BY <1>1, <1>2, <1>3 DEF LinkTyped, PlatformTyped, Cursors

LEMMA OrderQuiet ==
  ASSUME Typed, LinkTyped', PlatformTyped', OrderInv, UNCHANGED queue, Thin(0),
         link' = "open" => link = "open" /\ pushed' = pushed /\ Len(wire') = Len(wire),
         HandledLasts
  PROVE  OrderInv'
<1>1. /\ DOMAIN wire = 1..Len(wire) /\ DOMAIN queue = 1..Len(queue)
      /\ Len(wire) \in Nat /\ Len(queue) \in Nat /\ Len(event) \in Nat /\ pushed \in 0..Len(event)
      /\ \A i \in DOMAIN wire : wire[i].cursor \in 1..Len(event)
      /\ \A i \in DOMAIN queue : queue[i] \in 1..Len(event)
  BY WireFacts DEF Typed
<1>2. DOMAIN wire' = 1..Len(wire') /\ Len(wire') \in Nat  BY DEF LinkTyped
<1>3. \A i \in DOMAIN wire' : /\ i \in DOMAIN wire
                              /\ wire'[i].method = wire[i].method
                              /\ wire'[i].cursor = wire[i].cursor
  <2>1. \A i \in DOMAIN wire' : i + 0 = i  BY <1>2
  <2> QED  BY <2>1 DEF Thin
<1>4. \A n : Queued(n)' = Queued(n)  BY DEF Queued
<1>5. ASSUME NEW n, NEW k \in 0..Len(wire'), Wired(n, k) PROVE Wired(n, k)'
  BY <1>2, <1>3, <1>5 DEF Wired
<1>6. ASSUME NEW i \in DOMAIN queue', NEW n \in 1..(queue'[i] - 1)
      PROVE  Handled(n)' \/ \E k \in 1..(i - 1) : queue'[k] = n
  BY <1>1, <1>6 DEF OrderInv, HandledLasts
<1>7. ASSUME NEW i \in DOMAIN wire', wire'[i].method = "event", NEW n \in 1..(wire'[i].cursor - 1)
      PROVE  Handled(n)' \/ Queued(n)' \/ Wired(n, i - 1)'
  <2>1. n \in 1..(wire[i].cursor - 1) /\ n \in 1..Len(event) /\ wire[i].method = "event"
        /\ i \in DOMAIN wire /\ i - 1 \in 0..Len(wire')
    <3>1. i \in DOMAIN wire /\ i \in 1..Len(wire')  BY <1>2, <1>3, <1>7
    <3>2. wire[i].cursor \in 1..Len(event) /\ wire'[i].cursor = wire[i].cursor
          /\ wire[i].method = "event"
      BY <1>1, <1>3, <1>7, <3>1
    <3>3. n \in 1..(wire[i].cursor - 1) /\ n \in 1..Len(event)  BY <1>1, <1>7, <3>2
    <3>4. i - 1 \in 0..Len(wire')  BY <1>2, <3>1
    <3> QED  BY <3>1, <3>2, <3>3, <3>4
  <2>2. Handled(n) \/ Queued(n) \/ Wired(n, i - 1)  BY <2>1 DEF OrderInv
  <2> QED  BY <1>4, <1>5, <2>1, <2>2 DEF HandledLasts
<1>8. ASSUME link' = "open", NEW n \in 1..pushed'
      PROVE  Handled(n)' \/ Queued(n)' \/ Wired(n, Len(wire))'
  <2>1. n \in 1..pushed /\ n \in 1..Len(event) /\ Len(wire') = Len(wire) /\ link = "open"
    BY <1>1, <1>8
  <2>2. Handled(n) \/ Queued(n) \/ Wired(n, Len(wire))  BY <2>1 DEF OrderInv
  <2>3. Len(wire) \in 0..Len(wire')  BY <1>1, <2>1
  <2> QED  BY <1>4, <1>5, <2>1, <2>2, <2>3 DEF HandledLasts, Wired
<1> QED  BY <1>6, <1>7, <1>8 DEF OrderInv

LEMMA OrderCleared ==
  ASSUME wire' = <<>>, queue' = <<>>, link' = "open" => \A n \in 1..pushed' : Done(n)'
  PROVE  OrderInv'
<1>1. DOMAIN wire' = {} /\ DOMAIN queue' = {}  OBVIOUS
<1> QED  BY <1>1 DEF OrderInv, Handled

(* A frame comes to the end of the wire; an event was sent before or is    *)
(* the next.                                                               *)
LEMMA OrderAppend ==
  ASSUME Typed, LinkTyped', PlatformTyped', OrderInv, UNCHANGED <<queue, link>>,
         NEW f, wire' = Append(wire, f), f.cursor \in 1..Len(event),
         \/ f.method # "event" /\ pushed' = pushed
         \/ f.method = "event" /\ link = "open" /\ f.cursor <= pushed /\ pushed' = pushed
         \/ f.method = "event" /\ link = "open" /\ f.cursor = pushed + 1 /\ pushed' = pushed + 1,
         HandledLasts
  PROVE  OrderInv'
<1>1. /\ DOMAIN wire = 1..Len(wire) /\ DOMAIN queue = 1..Len(queue)
      /\ Len(wire) \in Nat /\ Len(queue) \in Nat /\ Len(event) \in Nat /\ pushed \in 0..Len(event)
      /\ \A i \in DOMAIN wire : wire[i].cursor \in 1..Len(event)
      /\ \A i \in DOMAIN queue : queue[i] \in 1..Len(event)
      /\ wire \in Seq(Frame)
  BY WireFacts DEF Typed
<1>2. /\ DOMAIN wire' = 1..(Len(wire) + 1) /\ Len(wire') = Len(wire) + 1
      /\ wire'[Len(wire) + 1] = f /\ \A i \in DOMAIN wire : wire'[i] = wire[i]
  BY <1>1
<1>3. \A n : Queued(n)' = Queued(n)  BY DEF Queued
<1>4. ASSUME NEW n, NEW k \in 0..Len(wire), Wired(n, k) PROVE Wired(n, k)'
  BY <1>1, <1>2, <1>4 DEF Wired
<1>5. ASSUME NEW i \in DOMAIN queue', NEW n \in 1..(queue'[i] - 1)
      PROVE  Handled(n)' \/ \E k \in 1..(i - 1) : queue'[k] = n
  BY <1>1, <1>5 DEF OrderInv, HandledLasts
<1>6. ASSUME NEW n \in 1..pushed, link = "open"
      PROVE  Handled(n)' \/ Queued(n)' \/ Wired(n, Len(wire))'
  <2>1. n \in 1..Len(event)  BY <1>1
  <2>2. Handled(n) \/ Queued(n) \/ Wired(n, Len(wire))  BY <1>6 DEF OrderInv
  <2>3. Wired(n, Len(wire)) =>
           \E i \in 1..Len(wire) : wire'[i].method = "event" /\ wire'[i].cursor = n
    BY <1>1, <1>2 DEF Wired
  <2>4. Handled(n)' \/ Queued(n)' \/ Wired(n, Len(wire))  BY <1>3, <2>1, <2>2 DEF HandledLasts
  <2>5. CASE Wired(n, Len(wire))
    <3>1. \E i \in 1..(Len(wire) + 1) : wire'[i].method = "event" /\ wire'[i].cursor = n
      BY <1>1, <2>3, <2>5
    <3> QED  BY <1>2, <3>1 DEF Wired
  <2> QED  BY <2>4, <2>5
<1>7. ASSUME NEW i \in DOMAIN wire', wire'[i].method = "event", NEW n \in 1..(wire'[i].cursor - 1)
      PROVE  Handled(n)' \/ Queued(n)' \/ Wired(n, i - 1)'
  <2>1. CASE i \in DOMAIN wire
    <3>1. n \in 1..(wire[i].cursor - 1) /\ n \in 1..Len(event) /\ i - 1 \in 0..Len(wire)
      <4>1. wire'[i] = wire[i] /\ i \in 1..Len(wire)  BY <1>1, <1>2, <2>1
      <4>2. wire[i].cursor \in 1..Len(event)  BY <1>1, <2>1
      <4>3. n \in 1..(wire[i].cursor - 1)  BY <1>7, <4>1
      <4>4. Len(wire) \in Nat /\ Len(event) \in Nat  BY <1>1
      <4> QED  BY <4>1, <4>2, <4>3, <4>4
    <3>2. Handled(n) \/ Queued(n) \/ Wired(n, i - 1)  BY <1>2, <1>7, <2>1, <3>1 DEF OrderInv
    <3> QED  BY <1>3, <1>4, <3>1, <3>2 DEF HandledLasts
  <2>2. CASE i = Len(wire) + 1
    <3>1. f.method = "event" /\ link = "open" /\ n \in 1..pushed
      BY <1>1, <1>2, <1>7, <2>2
    <3>2. n \in 1..Len(event)  BY <1>1, <3>1
    <3>3. Handled(n) \/ Queued(n) \/ Wired(n, Len(wire))  BY <3>1 DEF OrderInv
    <3>4. i - 1 = Len(wire) /\ Len(wire) \in 0..Len(wire)  BY <1>1, <2>2
    <3> QED  BY <1>3, <1>4, <3>2, <3>3, <3>4 DEF HandledLasts, Wired
  <2> QED  BY <1>1, <1>2, <2>1, <2>2
<1>8. ASSUME link' = "open", NEW n \in 1..pushed'
      PROVE  Handled(n)' \/ Queued(n)' \/ Wired(n, Len(wire))'
  <2>1. CASE n \in 1..pushed  BY <1>6, <1>8, <2>1
  <2>2. CASE n \notin 1..pushed
    <3>1. f.method = "event" /\ n = f.cursor  BY <1>1, <1>8, <2>2
    <3>2. Len(wire) + 1 \in 1..Len(wire')  BY <1>1, <1>2
    <3> QED  BY <1>2, <3>1, <3>2 DEF Wired
  <2> QED  BY <2>1, <2>2
<1> QED  BY <1>5, <1>7, <1>8 DEF OrderInv


(* The reader takes the first frame, which goes to the queue if it is an   *)
(* event.                                                                  *)
LEMMA OrderRead ==
  ASSUME Typed, LinkTyped', PlatformTyped', OrderInv, UNCHANGED <<link, pushed>>,
         wire # <<>>, wire' = Tail(wire),
         IF Head(wire).method = "event" THEN queue' = Append(queue, Head(wire).cursor)
         ELSE queue' = queue,
         HandledLasts
  PROVE  OrderInv'
<1> DEFINE f == wire[1]
<1>1. /\ DOMAIN wire = 1..Len(wire) /\ DOMAIN queue = 1..Len(queue)
      /\ Len(wire) \in Nat /\ Len(queue) \in Nat /\ Len(event) \in Nat /\ pushed \in 0..Len(event)
      /\ \A i \in DOMAIN wire : wire[i].cursor \in 1..Len(event)
      /\ \A i \in DOMAIN queue : queue[i] \in 1..Len(event)
      /\ wire \in Seq(Frame) /\ queue \in Seq(Cursors)
  BY WireFacts DEF Typed
<1>2. /\ Len(wire) \in Nat \ {0} /\ Head(wire) = f /\ 1 \in DOMAIN wire
      /\ DOMAIN wire' = 1..(Len(wire) - 1) /\ Len(wire') = Len(wire) - 1
      /\ \A i \in 1..(Len(wire) - 1) : wire'[i] = wire[i + 1]
  BY <1>1
<1>3. f.cursor \in 1..Len(event) /\ f.cursor \in Cursors
  BY <1>1, <1>2, CallersOf DEF Typed
<1> HIDE DEF f
<1>4. \A i \in DOMAIN queue : i \in DOMAIN queue' /\ queue'[i] = queue[i]
  BY <1>1, <1>2, <1>3
<1>5. f.method = "event" => /\ DOMAIN queue' = 1..(Len(queue) + 1)
                            /\ queue'[Len(queue) + 1] = f.cursor
  BY <1>1, <1>2, <1>3
<1>6. f.method # "event" => queue' = queue  BY <1>2
<1>7. \A n : Queued(n) => Queued(n)'  BY <1>4 DEF Queued
<1>8. ASSUME NEW n, NEW k \in 1..Len(wire), Wired(n, k) PROVE Queued(n)' \/ Wired(n, k - 1)'
  <2>1. PICK i \in 1..k : wire[i].method = "event" /\ wire[i].cursor = n  BY <1>8 DEF Wired
  <2>2. CASE i = 1
    <3>1. f.method = "event" /\ f.cursor = n  BY <2>1, <2>2 DEF f
    <3>2. Len(queue) + 1 \in DOMAIN queue'  BY <1>1, <1>5, <3>1
    <3> QED  BY <1>5, <3>1, <3>2 DEF Queued
  <2>3. CASE i # 1
    <3>1. i - 1 \in 1..(k - 1) /\ i - 1 \in 1..(Len(wire) - 1) /\ (i - 1) + 1 = i
      BY <1>1, <2>3
    <3>2. wire'[i - 1] = wire[i]  BY <1>2, <3>1
    <3> QED  BY <2>1, <3>1, <3>2 DEF Wired
  <2> QED  BY <2>2, <2>3
<1>9. ASSUME NEW i \in DOMAIN queue', NEW n \in 1..(queue'[i] - 1)
      PROVE  Handled(n)' \/ \E k \in 1..(i - 1) : queue'[k] = n
  <2>1. CASE i \in DOMAIN queue
    <3>1. n \in 1..(queue[i] - 1) /\ n \in 1..Len(event)  BY <1>1, <1>4, <1>9, <2>1
    <3>2. Handled(n) \/ \E k \in 1..(i - 1) : queue[k] = n  BY <2>1, <3>1 DEF OrderInv
    <3>3. \A k \in 1..(i - 1) : queue'[k] = queue[k]
      <4>1. \A k \in 1..(i - 1) : k \in DOMAIN queue  BY <1>1, <2>1
      <4> QED  BY <1>4, <4>1
    <3> QED  BY <3>1, <3>2, <3>3 DEF HandledLasts
  <2>2. CASE i \notin DOMAIN queue
    <3>1. f.method = "event" /\ i = Len(queue) + 1 /\ queue'[i] = f.cursor
      BY <1>1, <1>5, <1>6, <2>2
    <3>2. n \in 1..(f.cursor - 1) /\ n \in 1..Len(event)  BY <1>3, <1>9, <3>1
    <3>3. Handled(n) \/ Queued(n) \/ Wired(n, 0)
      <4>1. 1 - 1 = 0  OBVIOUS
      <4>2. Handled(n) \/ Queued(n) \/ Wired(n, 1 - 1)
        BY <1>2, <3>1, <3>2 DEF OrderInv, f
      <4> QED  BY <4>1, <4>2 DEF Wired
    <3>4. ~Wired(n, 0)  BY DEF Wired
    <3>5. Queued(n) => \E k \in 1..(i - 1) : queue'[k] = n
      BY <1>1, <1>4, <3>1 DEF Queued
    <3> QED  BY <3>2, <3>3, <3>4, <3>5 DEF HandledLasts
  <2> QED  BY <2>1, <2>2
<1>10. ASSUME NEW i \in DOMAIN wire', wire'[i].method = "event",
              NEW n \in 1..(wire'[i].cursor - 1)
       PROVE  Handled(n)' \/ Queued(n)' \/ Wired(n, i - 1)'
  <2>1. /\ i + 1 \in DOMAIN wire /\ wire'[i] = wire[i + 1] /\ i \in 1..Len(wire)
        /\ (i + 1) - 1 = i
    BY <1>1, <1>2
  <2>2. wire[i + 1].cursor \in 1..Len(event) /\ wire[i + 1].method = "event"
        /\ n \in 1..(wire[i + 1].cursor - 1)
    BY <1>1, <1>10, <2>1
  <2>3. n \in 1..Len(event)  BY <1>1, <2>2
  <2>4. Handled(n) \/ Queued(n) \/ Wired(n, (i + 1) - 1)  BY <2>1, <2>2 DEF OrderInv
  <2>5. Handled(n) \/ Queued(n) \/ Wired(n, i)  BY <2>1, <2>4
  <2> QED  BY <1>7, <1>8, <2>1, <2>3, <2>5 DEF HandledLasts
<1>11. ASSUME link' = "open", NEW n \in 1..pushed'
       PROVE  Handled(n)' \/ Queued(n)' \/ Wired(n, Len(wire))'
  <2>0. Len(wire) \in 1..Len(wire)  BY <1>2
  <2>1. PICK k \in 1..Len(wire) : k = Len(wire)  BY <2>0
  <2>2. n \in 1..Len(event) /\ link = "open" /\ n \in 1..pushed  BY <1>1, <1>11
  <2>3. Handled(n) \/ Queued(n) \/ Wired(n, k)  BY <2>1, <2>2 DEF OrderInv
  <2>4. Handled(n)' \/ Queued(n)' \/ Wired(n, k - 1)'
    BY <1>7, <1>8, <2>2, <2>3 DEF HandledLasts
  <2>5. Len(wire') = k - 1  BY <1>2, <2>1
  <2> QED  BY <2>4, <2>5 DEF Wired
<1> QED  BY <1>9, <1>10, <1>11 DEF OrderInv

(* The worker takes the first event of the queue into its hands. *)
LEMMA OrderTake ==
  ASSUME Typed, LinkTyped', PlatformTyped', OrderInv, UNCHANGED <<link, pushed, wire>>,
         queue # <<>>, queue' = Tail(queue), cursor' = Head(queue), HandledLasts
  PROVE  OrderInv' /\ \A n \in 1..(cursor' - 1) : Handled(n)
<1>1. /\ DOMAIN wire = 1..Len(wire) /\ DOMAIN queue = 1..Len(queue)
      /\ Len(wire) \in Nat /\ Len(queue) \in Nat /\ Len(event) \in Nat /\ pushed \in 0..Len(event)
      /\ \A i \in DOMAIN wire : wire[i].cursor \in 1..Len(event)
      /\ \A i \in DOMAIN queue : queue[i] \in 1..Len(event)
      /\ wire \in Seq(Frame) /\ queue \in Seq(Cursors)
  BY WireFacts DEF Typed
<1>2. /\ Len(queue) \in Nat \ {0} /\ Head(queue) = queue[1] /\ 1 \in DOMAIN queue
      /\ DOMAIN queue' = 1..(Len(queue) - 1)
      /\ \A i \in 1..(Len(queue) - 1) : queue'[i] = queue[i + 1]
  BY <1>1
<1>3. \A n : Queued(n) => n = cursor' \/ Queued(n)'
  <2> SUFFICES ASSUME NEW n, NEW i \in DOMAIN queue, queue[i] = n PROVE n = cursor' \/ Queued(n)'
    BY DEF Queued
  <2>1. CASE i = 1  BY <1>2, <2>1
  <2>2. CASE i # 1
    <3>1. i - 1 \in 1..(Len(queue) - 1) /\ (i - 1) + 1 = i  BY <1>1, <2>2
    <3>2. queue'[i - 1] = n /\ i - 1 \in DOMAIN queue'  BY <1>2, <3>1
    <3> QED  BY <3>2 DEF Queued
  <2> QED  BY <2>1, <2>2
<1>4. \A n, k : Wired(n, k)' = Wired(n, k)  BY DEF Wired
<1>5. \A n : n = cursor' => Handled(n)'  BY DEF Handled
<1>6. ASSUME NEW i \in DOMAIN queue', NEW n \in 1..(queue'[i] - 1)
      PROVE  Handled(n)' \/ \E k \in 1..(i - 1) : queue'[k] = n
  <2>1. i + 1 \in DOMAIN queue /\ queue'[i] = queue[i + 1] /\ (i + 1) - 1 = i  BY <1>1, <1>2
  <2>2. n \in 1..(queue[i + 1] - 1) /\ n \in 1..Len(event)  BY <1>1, <1>6, <2>1
  <2>3. Handled(n) \/ \E k \in 1..i : queue[k] = n
    <3>1. Handled(n) \/ \E k \in 1..((i + 1) - 1) : queue[k] = n  BY <2>1, <2>2 DEF OrderInv
    <3> QED  BY <2>1, <3>1
  <2>4. CASE Handled(n)  BY <2>2, <2>4 DEF HandledLasts
  <2>5. ASSUME NEW k \in 1..i, queue[k] = n
        PROVE  Handled(n)' \/ \E m \in 1..(i - 1) : queue'[m] = n
    <3>1. CASE k = 1  BY <1>2, <1>5, <2>5, <3>1
    <3>2. CASE k # 1
      <4>1. k - 1 \in 1..(i - 1) /\ k - 1 \in 1..(Len(queue) - 1) /\ (k - 1) + 1 = k
        BY <1>1, <1>2, <3>2
      <4>2. queue'[k - 1] = n  BY <1>2, <2>5, <4>1
      <4> QED  BY <4>1, <4>2
    <3> QED  BY <3>1, <3>2
  <2> QED  BY <2>3, <2>4, <2>5
<1>7. ASSUME NEW i \in DOMAIN wire', wire'[i].method = "event", NEW n \in 1..(wire'[i].cursor - 1)
      PROVE  Handled(n)' \/ Queued(n)' \/ Wired(n, i - 1)'
  <2>1. i \in DOMAIN wire /\ wire'[i] = wire[i] /\ wire[i].cursor \in 1..Len(event)
    BY <1>1
  <2>2. n \in 1..(wire[i].cursor - 1) /\ n \in 1..Len(event)  BY <1>1, <1>7, <2>1
  <2>3. Handled(n) \/ Queued(n) \/ Wired(n, i - 1)  BY <1>7, <2>1, <2>2 DEF OrderInv
  <2> QED  BY <1>3, <1>4, <1>5, <2>2, <2>3 DEF HandledLasts
<1>8. ASSUME link' = "open", NEW n \in 1..pushed'
      PROVE  Handled(n)' \/ Queued(n)' \/ Wired(n, Len(wire))'
  <2>1. n \in 1..Len(event) /\ link = "open" /\ n \in 1..pushed  BY <1>1, <1>8
  <2>2. Handled(n) \/ Queued(n) \/ Wired(n, Len(wire))  BY <2>1 DEF OrderInv
  <2> QED  BY <1>3, <1>4, <1>5, <2>1, <2>2 DEF HandledLasts, Wired
<1>9. ASSUME NEW n \in 1..(cursor' - 1) PROVE Handled(n)
  <2>1. n \in 1..(queue[1] - 1) /\ 1 - 1 = 0  BY <1>2, <1>9
  <2>2. Handled(n) \/ \E k \in 1..(1 - 1) : queue[k] = n  BY <1>2, <2>1 DEF OrderInv
  <2> QED  BY <2>1, <2>2
<1> QED  BY <1>6, <1>7, <1>8, <1>9 DEF OrderInv


-----------------------------------------------------------------------------
(* The platform's steps and the network's. *)

Invs == TurnInv /\ FlightInv /\ AnswerInv /\ DoneInv /\ OrderInv /\ BegunInv

LEMMA InvParts == ChannelInv <=> Typed /\ Invs
BY DEF ChannelInv, Typed, Invs

LEMMA SameLink ==
  ASSUME Typed
  PROVE  /\ UNCHANGED wire => Thin(0)
         /\ taken' \subseteq taken => Fewer
<1>1. \A i \in DOMAIN wire : i + 0 = i  BY WireFacts DEF Typed
<1> QED  BY <1>1 DEF Thin, Fewer

LEMMA AbandonedFacts ==
  ASSUME Typed, taken' = Abandoned
  PROVE  /\ taken' \subseteq Request /\ Fewer
         /\ \A r \in taken' : r.by = Nobody /\ r.cursor <= Len(event)
<1>1. ASSUME NEW r \in taken'
      PROVE  /\ r \in Request /\ r.by = Nobody
             /\ \E o \in taken : r.method = o.method /\ r.cursor = o.cursor
  <2>1. PICK o \in taken : r = [o EXCEPT !.by = Nobody]  BY DEF Abandoned
  <2>2. o \in Request  BY DEF Typed, LinkTyped
  <2>3. r.method = o.method /\ r.cursor = o.cursor /\ r.by = Nobody /\ r \in Request
    BY <2>1, <2>2 DEF Request
  <2> QED  BY <2>3
<1>2. \A o \in taken : o.cursor <= Len(event)  BY DEF Typed, LinkTyped
<1> QED  BY <1>1, <1>2 DEF Fewer

(* Nothing of the worker and the turns changes. *)
LEMMA WorkerQuiet ==
  ASSUME Typed, TurnInv, BegunInv, Len(event) <= Len(event'), Len(event') \in Nat,
         UNCHANGED <<step, turn, cursor, acked, begun, rpc, job>>
  PROVE  WorkerTyped' /\ JobsTyped' /\ TurnInv' /\ BegunInv'
<1>1. Len(event) \in Nat  BY DEF Typed, PlatformTyped
<1>2. WorkerTyped' /\ JobsTyped'  BY <1>1 DEF Typed, WorkerTyped, JobsTyped
<1>3. TurnInv' /\ BegunInv'  BY DEF TurnInv, BegunInv
<1> QED  BY <1>2, <1>3

LEMMA HandledSame ==
  ASSUME PlatformTyped, UNCHANGED cursor, Told \subseteq Told',
         UNCHANGED event \/ \E k \in Kind : event' = Append(event, k)
  PROVE  Lasting /\ HandledLasts /\ Len(event) <= Len(event')
BY TellingLasts DEF Lasting, HandledLasts, Handled

LEMMA IssueGood ==
  ASSUME ChannelInv, NEW k \in Kind, Issue(k)
  PROVE  ChannelInv'
<1>1. Typed /\ Invs  BY InvParts
<1>2. /\ Len(event) < MaxEvents /\ event' = Append(event, k)
      /\ UNCHANGED <<confirmed, pushed, link, wire, taken, queue, acked, step, cursor, turn,
                     rpc, job, settled, strayed, begun>>
  BY DEF Issue, linkVars, workerVars, ghostVars
<1>3. Told' = Told  BY <1>2 DEF Told
<1>4. Lasting /\ HandledLasts  BY <1>1, <1>2, <1>3, HandledSame DEF Typed
<1>5. /\ Len(event') = Len(event) + 1 /\ Len(event) \in Nat /\ event' \in Seq(Kind)
      /\ Len(event') <= MaxEvents
  BY <1>1, <1>2, BoundsType DEF Typed, PlatformTyped
<1>6. PlatformTyped'  BY <1>1, <1>2, <1>5 DEF Typed, PlatformTyped
<1>7. LinkTyped'
  <2>1. \A i \in DOMAIN wire : wire[i].cursor \in Nat  BY <1>1, CallersOf DEF Typed, Cursors
  <2>2. \A o \in taken : o.cursor \in Nat  BY <1>1, CallersOf DEF Typed, Cursors
  <2>3. \A i \in DOMAIN queue : queue[i] \in Nat
    <3>1. \A i \in DOMAIN queue : queue[i] \in Cursors  BY <1>1 DEF Typed, LinkTyped
    <3> QED  BY <3>1 DEF Cursors
  <2> QED  BY <1>1, <1>2, <1>5, <2>1, <2>2, <2>3 DEF Typed, LinkTyped
<1>8. WorkerTyped' /\ JobsTyped' /\ TurnInv' /\ BegunInv'
  BY <1>1, <1>2, <1>5, WorkerQuiet DEF Invs
<1>9. Thin(0) /\ Fewer  BY <1>1, <1>2, SameLink
<1>10. FlightInv'
  BY <1>1, <1>2, <1>7, <1>9, FlightThins DEF Invs, Keeps
<1>11. AnswerInv'  BY <1>1, <1>2, <1>3, <1>9, AnswersQuiet DEF Invs
<1>12. DoneInv'  BY <1>1, <1>2, <1>4, DoneQuiet DEF Invs
<1>13. OrderInv'  BY <1>1, <1>2, <1>4, <1>6, <1>7, <1>9, OrderQuiet DEF Invs
<1> QED
  BY <1>6, <1>7, <1>8, <1>10, <1>11, <1>12, <1>13 DEF ChannelInv

LEMMA EventFrame ==
  ASSUME NEW n \in Cursors
  PROVE  Event(n) \in Frame /\ Event(n).by = Nobody /\ Event(n).method = "event"
         /\ Event(n).cursor = n
BY DEF Event, Frame, Cursors

(* Push and Redeliver. *)
LEMMA SendGood ==
  ASSUME ChannelInv, NEW n \in 1..Len(event), link = "open", wire' = Append(wire, Event(n)),
         \/ n <= pushed /\ UNCHANGED pushed
         \/ n = pushed + 1 /\ pushed' = n,
         UNCHANGED <<event, confirmed, link, taken, workerVars, rpc, job, ghostVars>>
  PROVE  ChannelInv'
<1> DEFINE f == Event(n)
<1>1. Typed /\ Invs  BY InvParts
<1>2. UNCHANGED <<queue, acked, step, cursor, turn, settled, strayed, begun>>
  BY DEF workerVars, ghostVars
<1>3. Told' = Told  BY <1>2 DEF Told
<1>4. Lasting /\ HandledLasts  BY <1>1, <1>2, <1>3, HandledSame DEF Typed
<1>5. n \in Cursors /\ Len(event) \in Nat
  <2>1. Len(event) \in Nat /\ Len(event) <= MaxEvents  BY <1>1 DEF Typed, PlatformTyped
  <2> QED  BY <2>1, BoundsType DEF Cursors
<1>6. f \in Frame /\ f.by = Nobody /\ f.method = "event" /\ f.cursor = n
  BY <1>5, EventFrame
<1> HIDE DEF f
<1>7. /\ wire' = Append(wire, f) /\ wire \in Seq(Frame)
      /\ wire' \in Seq(Frame) /\ DOMAIN wire' = DOMAIN wire \cup {Len(wire) + 1}
      /\ wire'[Len(wire) + 1] = f /\ \A i \in DOMAIN wire : wire'[i] = wire[i]
  <2>1. wire' = Append(wire, f)  BY DEF f
  <2> QED  BY <1>1, <1>6, <2>1 DEF Typed, LinkTyped
<1>8. PlatformTyped'  BY <1>1, <1>2, <1>5 DEF Typed, PlatformTyped
<1>9. LinkTyped'
  <2>1. \A i \in DOMAIN wire' : wire'[i].cursor <= Len(event)
    BY <1>1, <1>5, <1>6, <1>7 DEF Typed, LinkTyped
  <2> QED  BY <1>1, <1>2, <1>7, <2>1 DEF Typed, LinkTyped
<1>10. WorkerTyped' /\ JobsTyped' /\ TurnInv' /\ BegunInv'
  BY <1>1, <1>2, <1>5, WorkerQuiet DEF Invs
<1>11. FlightInv'
  <2>1. taken' \subseteq taken  OBVIOUS
  <2> QED  BY <1>1, <1>2, <1>6, <1>7, <1>9, <2>1, FlightAppends DEF Invs
<1>12. AnswerInv'
  <2>1. f.method \notin Tells  BY <1>6 DEF Tells, Question
  <2> QED  BY <1>1, <1>2, <1>3, <1>7, <2>1, AnswersAppend DEF Invs
<1>13. DoneInv'  BY <1>1, <1>2, <1>4, DoneQuiet DEF Invs
<1>14. OrderInv'
  BY <1>1, <1>2, <1>4, <1>6, <1>7, <1>8, <1>9, OrderAppend DEF Invs
<1> QED
  BY <1>8, <1>9, <1>10, <1>11, <1>12, <1>13, <1>14 DEF ChannelInv


(* Nothing of the worker and the turns changes, and nothing new is on the  *)
(* wire: the request is lost, or the connection breaks or falls quiet.     *)
LEMMA LosesGood ==
  ASSUME ChannelInv, link' \in {link, "broken", "deaf"}, Thin(0), Fewer,
         link' = "open" => UNCHANGED wire,
         wire' \in Seq(Frame), taken' \subseteq Request,
         UNCHANGED <<platformVars, workerVars, rpc, job, ghostVars>>
  PROVE  ChannelInv'
<1>1. Typed /\ Invs  BY InvParts
<1>2. UNCHANGED <<event, confirmed, pushed, queue, acked, step, cursor, turn, settled, strayed,
                  begun>>
  BY DEF platformVars, workerVars, ghostVars
<1>3. Told' = Told  BY <1>2 DEF Told
<1>4. Lasting /\ HandledLasts  BY <1>1, <1>2, <1>3, HandledSame DEF Typed
<1>5. Len(event) \in Nat  BY <1>1 DEF Typed, PlatformTyped
<1>6. PlatformTyped'  BY <1>1, <1>2 DEF Typed, PlatformTyped
<1>7. LinkTyped'
  <2>1. \A i \in DOMAIN wire' : i + 0 = i
    <3>1. DOMAIN wire' = 1..Len(wire')  OBVIOUS
    <3> QED  BY <3>1
  <2>2. \A i \in DOMAIN wire' : wire'[i].cursor <= Len(event)
    BY <1>1, <2>1 DEF Typed, LinkTyped, Thin
  <2>3. \A r \in taken' : r.cursor <= Len(event)
    BY <1>1 DEF Typed, LinkTyped, Fewer
  <2>4. link' \in {"down", "open", "broken", "deaf"}  BY <1>1 DEF Typed, LinkTyped
  <2> QED  BY <1>1, <1>2, <2>2, <2>3, <2>4 DEF Typed, LinkTyped
<1>8. WorkerTyped' /\ JobsTyped' /\ TurnInv' /\ BegunInv'
  BY <1>1, <1>2, <1>5, WorkerQuiet DEF Invs
<1>9. FlightInv'  BY <1>1, <1>2, <1>7, FlightThins DEF Invs, Keeps
<1>10. AnswerInv'  BY <1>1, <1>2, <1>3, AnswersQuiet DEF Invs
<1>11. DoneInv'
  <2>1. \A r \in taken' : r.method = "ack" =>
           \E o \in taken : o.method = "ack" /\ o.cursor = r.cursor
    BY DEF Fewer
  <2> QED  BY <1>1, <1>2, <1>4, <2>1, DoneQuiet DEF Invs
<1>12. OrderInv'
  <2>1. link' = "open" => link = "open"  OBVIOUS
  <2> QED  BY <1>1, <1>2, <1>4, <1>6, <1>7, <2>1, OrderQuiet DEF Invs
<1> QED
  BY <1>6, <1>7, <1>8, <1>9, <1>10, <1>11, <1>12 DEF ChannelInv

LEMMA LoseGood ==
  ASSUME ChannelInv, NEW r \in taken, Lose(r)
  PROVE  ChannelInv'
<1>1. Typed /\ Invs  BY InvParts
<1>2. taken' \subseteq taken
      /\ UNCHANGED <<link, wire, platformVars, workerVars, rpc, job, ghostVars>>
  BY DEF Lose
<1>3. Thin(0) /\ Fewer  BY <1>1, <1>2, SameLink
<1>4. wire' \in Seq(Frame) /\ taken' \subseteq Request  BY <1>1, <1>2 DEF Typed, LinkTyped
<1> QED  BY <1>2, <1>3, <1>4, LosesGood

LEMMA BreakGood ==
  ASSUME ChannelInv, NEW n \in 0..Len(wire), Break(n)
  PROVE  ChannelInv'
<1>1. Typed /\ Invs  BY InvParts
<1>2. /\ link' = "broken" /\ wire' = SubSeq(wire, 1, n) /\ taken' = Abandoned
      /\ UNCHANGED <<platformVars, workerVars, rpc, job, ghostVars>>
  BY DEF Break
<1>3. wire \in Seq(Frame) /\ DOMAIN wire = 1..Len(wire)  BY <1>1 DEF Typed, LinkTyped
<1>4. wire' \in Seq(Frame) /\ DOMAIN wire' = 1..n /\ \A i \in 1..n : wire'[i] = wire[i]
  BY <1>2, <1>3
<1>5. \A i \in DOMAIN wire' : i + 0 = i /\ i \in DOMAIN wire  BY <1>3, <1>4
<1>6. Thin(0)  BY <1>4, <1>5 DEF Thin
<1>7. Fewer /\ taken' \subseteq Request  BY <1>1, <1>2, AbandonedFacts
<1> QED  BY <1>2, <1>4, <1>6, <1>7, LosesGood

LEMMA QuietGood ==
  ASSUME ChannelInv, Quiet
  PROVE  ChannelInv'
<1>1. Typed /\ Invs  BY InvParts
<1>2. /\ link' = "deaf" /\ taken' = Abandoned
      /\ UNCHANGED <<wire, platformVars, workerVars, rpc, job, ghostVars>>
  BY DEF Quiet
<1>3. wire' \in Seq(Frame)  BY <1>1, <1>2 DEF Typed, LinkTyped
<1>4. Thin(0)  BY <1>1, <1>2, SameLink
<1>5. Fewer /\ taken' \subseteq Request  BY <1>1, <1>2, AbandonedFacts
<1> QED  BY <1>2, <1>3, <1>4, <1>5, LosesGood

PushAndRedeliver ==
    Push \/ \E n \in 1..MaxEvents : Redeliver(n)

LEMMA PushGood ==
  ASSUME ChannelInv, PushAndRedeliver
  PROVE  ChannelInv'
<1>1. Typed  BY InvParts
<1>2. Len(event) \in Nat /\ pushed \in 0..Len(event)  BY <1>1 DEF Typed, PlatformTyped
<1>3. CASE Push
  <2> DEFINE n == pushed + 1
  <2>1. n \in 1..Len(event)  BY <1>2, <1>3 DEF Push
  <2>2. /\ link = "open" /\ wire' = Append(wire, Event(n)) /\ n = pushed + 1 /\ pushed' = n
        /\ UNCHANGED <<event, confirmed, link, taken, workerVars, rpc, job, ghostVars>>
    BY <1>3 DEF Push
  <2> HIDE DEF n
  <2> QED  BY <2>1, <2>2, SendGood
<1>4. ASSUME NEW n \in 1..MaxEvents, Redeliver(n) PROVE ChannelInv'
  <2>1. /\ link = "open" /\ n <= pushed /\ wire' = Append(wire, Event(n))
        /\ UNCHANGED <<pushed, event, confirmed, link, taken, workerVars, rpc, job, ghostVars>>
    BY <1>4 DEF Redeliver, platformVars
  <2>2. n \in 1..Len(event)  BY <1>2, <2>1, BoundsType
  <2> QED  BY <2>1, <2>2, SendGood
<1> QED  BY <1>3, <1>4 DEF PushAndRedeliver

LEMMA ResponseFrame ==
  ASSUME LinkTyped, NEW r \in taken, NEW b \in BOOLEAN
  PROVE  /\ Response(r, b) \in Frame
         /\ Response(r, b).by = r.by /\ Response(r, b).method = r.method
         /\ Response(r, b).cursor = r.cursor /\ Response(r, b).ok = b
         /\ r.method # "event"
<1>1. r \in Request  BY DEF LinkTyped
<1> QED  BY <1>1 DEF Response, Request, Frame, Method, Question

(* The platform serves a request or refuses it. *)
LEMMA ServeGood ==
  ASSUME ChannelInv, NEW r \in taken, Serve(r) \/ Refuse(r)
  PROVE  ChannelInv'
<1>1. Typed /\ Invs /\ LinkTyped /\ PlatformTyped  BY InvParts DEF Typed
<1>2. /\ taken' = taken \ {r} /\ UNCHANGED <<event, pushed, link, rpc, job, begun>>
      /\ UNCHANGED <<queue, acked, step, cursor, turn>>
      /\ confirmed' \in {confirmed, Larger(confirmed, r.cursor)}
      /\ confirmed' # confirmed => r.method = "ack"
  BY DEF Serve, Refuse, platformVars, workerVars, ghostVars, linkVars
<1>3. /\ settled' \in {settled, settled \cup {r.cursor}}
      /\ strayed' \in {strayed, strayed \cup {r.cursor}}
  BY DEF Serve, Refuse, Show, ghostVars
<1>4. PICK b \in BOOLEAN : /\ r.by # Nobody => wire' = Append(wire, Response(r, b))
                           /\ r.by = Nobody => wire' = wire
                           /\ b /\ r.method \in Tells => r.cursor \in Told'
  BY DEF Serve, Refuse, Show, Tells, Question, Told
<1> DEFINE f == Response(r, b)
<1>5. /\ f \in Frame /\ f.by = r.by /\ f.method = r.method
      /\ f.cursor = r.cursor /\ f.ok = b /\ f.method # "event"
  BY <1>1, ResponseFrame
<1>6. r.by # Nobody => wire' = Append(wire, f)  BY <1>4
<1> HIDE DEF f
<1>7. /\ r.cursor \in Cursors /\ r.cursor \in 1..Len(event) /\ Len(event) \in Nat
      /\ confirmed \in 0..Len(event) /\ wire \in Seq(Frame)
  BY <1>1, CallersOf DEF Typed, LinkTyped, PlatformTyped, Cursors
<1>8. Told \subseteq Told'  BY <1>3 DEF Told
<1>9. Lasting /\ HandledLasts  BY <1>1, <1>2, <1>8, HandledSame
<1>10. confirmed' \in 0..Len(event)  BY <1>2, <1>7 DEF Larger
<1>11. PlatformTyped'  BY <1>1, <1>2, <1>3, <1>7, <1>10 DEF PlatformTyped
<1>12. LinkTyped'
  <2>1. wire' \in Seq(Frame) /\ \A i \in DOMAIN wire' : wire'[i].cursor <= Len(event)
    <3>1. CASE r.by = Nobody  BY <1>1, <1>4, <3>1 DEF LinkTyped
    <3>2. CASE r.by # Nobody
      <4>0. f \in Frame /\ wire \in Seq(Frame) /\ wire' = Append(wire, f)
        BY <1>5, <1>6, <1>7, <3>2
      <4>1. /\ wire' \in Seq(Frame) /\ DOMAIN wire' = DOMAIN wire \cup {Len(wire) + 1}
            /\ wire'[Len(wire) + 1] = f /\ \A i \in DOMAIN wire : wire'[i] = wire[i]
        BY <4>0
      <4>2. \A i \in DOMAIN wire : wire[i].cursor <= Len(event)  BY <1>1 DEF LinkTyped
      <4> QED  BY <1>5, <1>7, <4>1, <4>2
    <3> QED  BY <3>1, <3>2
  <2> QED  BY <1>1, <1>2, <2>1 DEF LinkTyped
<1>13. WorkerTyped' /\ JobsTyped' /\ TurnInv' /\ BegunInv'
  BY <1>1, <1>2, <1>7, WorkerQuiet DEF Invs
<1>14. taken' \subseteq taken /\ r \in taken \ taken'  BY <1>2
<1>15. Fewer /\ (r.by = Nobody => Thin(0))  BY <1>1, <1>4, <1>14, SameLink
<1>16. FlightInv'
  <2>1. CASE r.by = Nobody
    BY <1>1, <1>2, <1>12, <1>15, <2>1, FlightThins DEF Invs, Keeps
  <2>2. CASE r.by # Nobody
    BY <1>1, <1>2, <1>5, <1>6, <1>12, <1>14, <2>2, FlightAppends DEF Invs
  <2> QED  BY <2>1, <2>2
<1>17. AnswerInv'
  <2>1. CASE r.by = Nobody
    BY <1>1, <1>2, <1>8, <1>15, <2>1, AnswersQuiet DEF Invs
  <2>2. CASE r.by # Nobody
    <3>1. f.method \in Tells /\ f.ok => f.cursor \in Told'  BY <1>4, <1>5
    <3> QED  BY <1>1, <1>2, <1>6, <1>8, <2>2, <3>1, AnswersAppend DEF Invs
  <2> QED  BY <2>1, <2>2
<1>18. DoneInv'
  <2>1. confirmed' = confirmed \/ \A n \in 1..confirmed' : Done(n)'
    <3>1. CASE confirmed' = confirmed  BY <3>1
    <3>2. CASE confirmed' # confirmed
      <4>1. r.method = "ack" /\ confirmed' = Larger(confirmed, r.cursor)  BY <1>2, <3>2
      <4>2. /\ \A n \in 1..r.cursor : Done(n)
            /\ \A n \in 1..confirmed : Done(n)
        BY <1>1, <4>1 DEF Invs, DoneInv
      <4> QED  BY <1>7, <1>9, <4>1, <4>2 DEF Larger, Lasting
    <3> QED  BY <3>1, <3>2
  <2> QED  BY <1>1, <1>2, <1>9, <1>14, <2>1, DoneQuiet DEF Invs
<1>19. OrderInv'
  <2>1. CASE r.by = Nobody
    BY <1>1, <1>2, <1>4, <1>9, <1>11, <1>12, <1>15, <2>1, OrderQuiet DEF Invs
  <2>2. CASE r.by # Nobody
    BY <1>1, <1>2, <1>5, <1>6, <1>7, <1>9, <1>11, <1>12, <2>2, OrderAppend DEF Invs
  <2> QED  BY <2>1, <2>2
<1> QED
  BY <1>11, <1>12, <1>13, <1>16, <1>17, <1>18, <1>19 DEF ChannelInv


(* The reader takes a frame, and puts an event into the queue. *)
LEMMA ReadGood ==
  ASSUME ChannelInv, Read
  PROVE  ChannelInv'
<1> DEFINE f == Head(wire)
<1>1. Typed /\ Invs /\ LinkTyped /\ PlatformTyped  BY InvParts DEF Typed
<1>2. /\ wire # <<>> /\ wire' = Tail(wire)
      /\ IF f.method = "event"
         THEN queue' = Append(queue, f.cursor) /\ UNCHANGED rpc
         ELSE /\ rpc' = IF f.by = Nobody THEN rpc
                        ELSE [rpc EXCEPT ![f.by] = IF f.ok THEN "ok" ELSE "failed"]
              /\ UNCHANGED queue
      /\ UNCHANGED <<event, confirmed, pushed, link, taken, acked, step, cursor, turn, job,
                     settled, strayed, begun>>
  BY DEF Read, platformVars, ghostVars
<1>3. /\ wire \in Seq(Frame) /\ f = wire[1] /\ 1 \in DOMAIN wire /\ wire' \in Seq(Frame)
      /\ DOMAIN wire' = 1..(Len(wire) - 1) /\ DOMAIN wire = 1..Len(wire) /\ Len(wire) \in Nat
      /\ \A i \in DOMAIN wire' : i + 1 \in DOMAIN wire /\ wire'[i] = wire[i + 1]
  BY <1>1, <1>2 DEF LinkTyped
<1>4. /\ f.cursor \in Cursors /\ f.cursor <= Len(event) /\ f.by \in Callers \cup {Nobody}
      /\ f.method \in Method \cup {"event"} /\ f.ok \in BOOLEAN
  BY <1>1, <1>3, CallersOf DEF LinkTyped
<1> HIDE DEF f
<1>5. Thin(1) /\ Fewer
  <2>1. \A r \in taken : r \in taken'  BY <1>2
  <2> QED  BY <1>2, <1>3, <2>1 DEF Thin, Fewer
<1>6. /\ rpc' \in [Callers -> RpcStates]
      /\ \A c \in Callers : \/ rpc'[c] = rpc[c]
                            \/ /\ c = f.by /\ f.method # "event"
                               /\ rpc'[c] = IF f.ok THEN "ok" ELSE "failed"
  <2>1. rpc \in [Callers -> RpcStates]  BY <1>1 DEF Typed, WorkerTyped
  <2> QED  BY <1>2, <1>4, <2>1 DEF RpcStates
<1>7. Told' = Told  BY <1>2 DEF Told
<1>8. Lasting /\ HandledLasts  BY <1>1, <1>2, <1>7, HandledSame
<1>9. PlatformTyped' /\ JobsTyped'  BY <1>1, <1>2 DEF Typed, PlatformTyped, JobsTyped
<1>10. LinkTyped'
  <2>1. /\ queue' \in Seq(Cursors)
        /\ \A i \in DOMAIN queue' : queue'[i] <= Len(event)
    <3>1. queue \in Seq(Cursors) /\ \A i \in DOMAIN queue : queue[i] <= Len(event)
      BY <1>1 DEF LinkTyped
    <3>2. CASE f.method = "event"
      <4>1. /\ queue' = Append(queue, f.cursor)
            /\ DOMAIN queue' = DOMAIN queue \cup {Len(queue) + 1}
            /\ queue'[Len(queue) + 1] = f.cursor
            /\ \A i \in DOMAIN queue : queue'[i] = queue[i]
        BY <1>2, <1>4, <3>1, <3>2
      <4> QED  BY <1>4, <3>1, <4>1
    <3>3. CASE f.method # "event"  BY <1>2, <3>1, <3>3
    <3> QED  BY <3>2, <3>3
  <2>2. \A i \in DOMAIN wire' : wire'[i].cursor <= Len(event)  BY <1>1, <1>3 DEF LinkTyped
  <2> QED  BY <1>1, <1>2, <1>3, <2>1, <2>2 DEF LinkTyped
(* Whoever is answered was waiting for just that. *)
<1>11. ASSUME f.by # Nobody
       PROVE  /\ rpc[f.by] = "sent" /\ Matches(f.by, f) /\ f.by \in Callers
              /\ \A i \in DOMAIN wire : wire[i].by = f.by => i = 1
              /\ \A r \in taken : r.by # f.by
  <2>1. /\ rpc[f.by] = "sent" /\ Matches(f.by, f)
        /\ \A i \in DOMAIN wire : wire[i].by = f.by => i = 1
    BY <1>1, <1>3, <1>11 DEF Invs, FlightInv
  <2>2. \A r \in taken : r.by # f.by  BY <1>1, <1>3, <1>11 DEF Invs, FlightInv
  <2> QED  BY <1>4, <1>11, <2>1, <2>2
<1>12. \A c \in Callers : rpc[c] = "none" => rpc'[c] = "none"
  BY <1>6, <1>11, Apart
<1>13. WorkerTyped'
  <2>1. rpc[Worker] = "none" => rpc'[Worker] = "none"  BY <1>12, Apart
  <2> QED  BY <1>1, <1>2, <1>6, <2>1 DEF Typed, WorkerTyped
<1>14. TurnInv'
  <2>1. \A j \in Jobs : rpc[j] = "none" => rpc'[j] = "none"  BY <1>12, Apart
  <2> QED  BY <1>1, <1>2, <2>1 DEF Invs, TurnInv
<1>15. FlightInv'
  <2>1. ASSUME NEW c \in Callers, rpc[c] = "sent"
        PROVE  (rpc'[c] = "sent" /\ Keeps(c)) \/ Absent(c)'
    <3>1. CASE rpc'[c] = rpc[c]  BY <1>2, <2>1, <3>1 DEF Keeps
    <3>2. CASE rpc'[c] # rpc[c]
      <4>1. c = f.by /\ f.by # Nobody  BY <1>6, <3>2, Apart
      <4>2. \A r \in taken' : r.by # c  BY <1>2, <1>11, <4>1
      <4>3. \A i \in DOMAIN wire' : i + 1 # 1  BY <1>3
      <4>4. \A i \in DOMAIN wire' : wire'[i].by # c  BY <1>3, <1>11, <4>1, <4>3
      <4> QED  BY <4>2, <4>4 DEF Absent
    <3> QED  BY <3>1, <3>2
  <2>2. 1 \in Nat  OBVIOUS
  <2> QED  BY <1>1, <1>5, <1>10, <2>1, <2>2, FlightThins DEF Invs
<1>16. AnswerInv'
  <2>1. \A i \in DOMAIN wire' : wire'[i].method \in Tells /\ wire'[i].ok
           => wire'[i].cursor \in Told'
    BY <1>1, <1>3, <1>7 DEF Invs, AnswerInv
  <2>2. f.method \in Tells /\ f.ok => f.cursor \in Told
    BY <1>1, <1>3 DEF Invs, AnswerInv
  <2>3. ASSUME step' = "answer", rpc'[Worker] = "ok" PROVE cursor' \in Told'
    <3>1. CASE rpc[Worker] = "ok"  BY <1>1, <1>2, <1>7, <2>3, <3>1 DEF Invs, AnswerInv
    <3>2. CASE rpc[Worker] # "ok"
      <4>1. f.by = Worker /\ f.ok  BY <1>4, <1>6, <2>3, <3>2, Apart
      <4>2. f.method = "answer" /\ f.cursor = cursor
        BY <1>2, <1>11, <2>3, <4>1, Apart DEF Matches
      <4> QED  BY <1>2, <1>7, <2>2, <4>1, <4>2 DEF Tells
    <3> QED  BY <3>1, <3>2
  <2>4. ASSUME NEW j \in Jobs, job'[j].step = "asking", rpc'[j] = "ok"
        PROVE  job'[job'[j].into].cursor \in Told'
    <3>1. CASE rpc[j] = "ok"  BY <1>1, <1>2, <1>7, <2>4, <3>1 DEF Invs, AnswerInv
    <3>2. CASE rpc[j] # "ok"
      <4>1. f.by = j /\ f.ok /\ j \in Callers /\ j # Worker /\ j # Nobody
        BY <1>4, <1>6, <2>4, <3>2, Apart
      <4>2. f.method \in Question /\ f.cursor = job[job[j].into].cursor
        BY <1>11, <4>1 DEF Matches
      <4> QED  BY <1>2, <1>7, <2>2, <4>1, <4>2 DEF Tells
    <3> QED  BY <3>1, <3>2
  <2>5. \A j \in Jobs : job'[j].sentChoice => job'[j].cursor \in Told'
    BY <1>1, <1>2, <1>7 DEF Invs, AnswerInv
  <2> QED  BY <2>1, <2>3, <2>4, <2>5 DEF AnswerInv
<1>17. DoneInv'  BY <1>1, <1>2, <1>8, DoneQuiet DEF Invs
<1>18. OrderInv'
  <2>1. IF Head(wire).method = "event" THEN queue' = Append(queue, Head(wire).cursor)
        ELSE queue' = queue
    BY <1>2 DEF f
  <2> QED  BY <1>1, <1>2, <1>8, <1>9, <1>10, <2>1, OrderRead DEF Invs
<1>19. BegunInv'  BY <1>1, <1>2 DEF Invs, BegunInv
<1> QED
  BY <1>9, <1>10, <1>13, <1>14, <1>15, <1>16, <1>17, <1>18, <1>19 DEF ChannelInv

(* The time of a request is over. *)
LEMMA ExpireGood ==
  ASSUME ChannelInv, NEW c \in Callers, rpc[c] = "sent", Expire(c)
  PROVE  ChannelInv'
<1>1. Typed /\ Invs /\ LinkTyped /\ PlatformTyped  BY InvParts DEF Typed
<1>2. /\ rpc' = [rpc EXCEPT ![c] = "failed"]
      /\ taken' = {IF r.by = c THEN [r EXCEPT !.by = Nobody] ELSE r : r \in taken}
      /\ wire' = [i \in DOMAIN wire |->
                    IF wire[i].by = c THEN [wire[i] EXCEPT !.by = Nobody] ELSE wire[i]]
      /\ UNCHANGED <<event, confirmed, pushed, link, queue, acked, step, cursor, turn, job,
                     settled, strayed, begun>>
  BY DEF Expire, platformVars, workerVars, ghostVars
<1>3. \A r \in taken : r \in Request  BY <1>1 DEF LinkTyped
<1>4. \A i \in DOMAIN wire : wire[i] \in Frame  BY <1>1 DEF LinkTyped
<1>5. /\ wire \in Seq(Frame) /\ DOMAIN wire = 1..Len(wire) /\ Len(wire) \in Nat
  BY <1>1 DEF LinkTyped
<1>6. \A i \in DOMAIN wire : LET f == wire[i] IN
         [f EXCEPT !.by = Nobody] \in Frame /\ [f EXCEPT !.by = Nobody].by = Nobody
         /\ [f EXCEPT !.by = Nobody].method = f.method
         /\ [f EXCEPT !.by = Nobody].cursor = f.cursor
         /\ [f EXCEPT !.by = Nobody].ok = f.ok
  BY <1>4 DEF Frame
<1>7. /\ DOMAIN wire' = DOMAIN wire
      /\ \A i \in DOMAIN wire' :
            /\ wire'[i] \in Frame
            /\ wire'[i].method = wire[i].method /\ wire'[i].cursor = wire[i].cursor
            /\ wire'[i].ok = wire[i].ok /\ wire'[i].by \in {Nobody, wire[i].by}
            /\ wire'[i].by # c
  BY <1>2, <1>4, <1>6, Apart
<1>8. wire' \in Seq(Frame) /\ Len(wire') = Len(wire)
  BY <1>2, <1>5, <1>7
<1>9. ASSUME NEW r \in taken'
      PROVE  /\ r \in Request /\ r.by # c
             /\ \E o \in taken : /\ r.method = o.method /\ r.cursor = o.cursor
                                 /\ r.by = Nobody \/ r = o
  <2>1. PICK o \in taken : r = IF o.by = c THEN [o EXCEPT !.by = Nobody] ELSE o  BY <1>2
  <2>2. o \in Request  BY <1>3
  <2>3. CASE o.by = c
    <3>1. r.method = o.method /\ r.cursor = o.cursor /\ r.by = Nobody /\ r \in Request
      BY <2>1, <2>2, <2>3 DEF Request
    <3> QED  BY <3>1, Apart
  <2>4. CASE o.by # c  BY <2>1, <2>2, <2>4
  <2> QED  BY <2>3, <2>4
<1>10. Thin(0) /\ Fewer
  <2>1. \A i \in DOMAIN wire' : i + 0 = i  BY <1>5, <1>7
  <2> QED  BY <1>7, <1>9, <2>1 DEF Thin, Fewer
<1>11. /\ rpc' \in [Callers -> RpcStates] /\ rpc'[c] = "failed"
       /\ \A d \in Callers : d # c => rpc'[d] = rpc[d]
       /\ \A d \in Callers : (rpc[d] = "none" => rpc'[d] = "none")
                             /\ (rpc'[d] = "ok" => rpc[d] = "ok")
  <2>1. rpc \in [Callers -> RpcStates]  BY <1>1 DEF Typed, WorkerTyped
  <2> QED  BY <1>2, <2>1 DEF RpcStates
<1>12. Told' = Told  BY <1>2 DEF Told
<1>13. Lasting /\ HandledLasts  BY <1>1, <1>2, <1>12, HandledSame
<1>14. PlatformTyped' /\ JobsTyped'  BY <1>1, <1>2 DEF Typed, PlatformTyped, JobsTyped
<1>15. LinkTyped'
  <2>1. \A i \in DOMAIN wire' : wire'[i].cursor <= Len(event)
    BY <1>1, <1>7 DEF LinkTyped
  <2>2. \A r \in taken' : r.cursor <= Len(event)  BY <1>1, <1>9 DEF LinkTyped
  <2>3. taken' \subseteq Request  BY <1>9
  <2> QED  BY <1>1, <1>2, <1>8, <2>1, <2>2, <2>3 DEF LinkTyped
<1>16. WorkerTyped'
  <2>1. rpc[Worker] = "none" => rpc'[Worker] = "none"  BY <1>11, Apart
  <2> QED  BY <1>1, <1>2, <1>11, <2>1 DEF Typed, WorkerTyped
<1>17. TurnInv'
  <2>1. \A j \in Jobs : rpc[j] = "none" => rpc'[j] = "none"  BY <1>11, Apart
  <2> QED  BY <1>1, <1>2, <2>1 DEF Invs, TurnInv
<1>18. FlightInv'
  <2>1. Absent(c)'  BY <1>7, <1>9 DEF Absent
  <2>2. ASSUME NEW d \in Callers, rpc[d] = "sent"
        PROVE  (rpc'[d] = "sent" /\ Keeps(d)) \/ Absent(d)'
    <3>1. CASE d = c  BY <2>1, <3>1
    <3>2. CASE d # c  BY <1>2, <1>11, <2>2, <3>2 DEF Keeps
    <3> QED  BY <3>1, <3>2
  <2>3. 0 \in Nat  OBVIOUS
  <2> QED  BY <1>1, <1>10, <1>15, <2>2, <2>3, FlightThins DEF Invs
<1>19. AnswerInv'
  <2>1. rpc'[Worker] = "ok" => rpc[Worker] = "ok"  BY <1>11, Apart
  <2>2. \A j \in Jobs : rpc'[j] = "ok" => rpc[j] = "ok"  BY <1>11, Apart
  <2> QED  BY <1>1, <1>2, <1>10, <1>12, <2>1, <2>2, AnswersQuiet DEF Invs
<1>20. DoneInv'
  <2>1. \A r \in taken' : r.method = "ack" =>
           \E o \in taken : o.method = "ack" /\ o.cursor = r.cursor
    BY <1>10 DEF Fewer
  <2> QED  BY <1>1, <1>2, <1>13, <2>1, DoneQuiet DEF Invs
<1>21. OrderInv'
  BY <1>1, <1>2, <1>8, <1>10, <1>13, <1>14, <1>15, OrderQuiet DEF Invs
<1>22. BegunInv'  BY <1>1, <1>2 DEF Invs, BegunInv
<1> QED
  BY <1>14, <1>15, <1>16, <1>17, <1>18, <1>19, <1>20, <1>21, <1>22 DEF ChannelInv


-----------------------------------------------------------------------------
(* The connection and the process. *)

LEMMA ConnectGood ==
  ASSUME ChannelInv, Connect
  PROVE  ChannelInv'
<1>1. Typed /\ Invs /\ LinkTyped /\ PlatformTyped /\ WorkerTyped  BY InvParts DEF Typed
<1>2. /\ step = "off" /\ link' = "open" /\ wire' = <<>> /\ queue' = <<>>
      /\ pushed' = confirmed /\ step' = "select" /\ begun' = {}
      /\ UNCHANGED <<event, confirmed, taken, acked, cursor, turn, rpc, job, settled, strayed>>
  BY DEF Connect
<1>3. DOMAIN wire' = {} /\ DOMAIN queue' = {}  BY <1>2
<1>4. wire' \in Seq(Frame) /\ queue' \in Seq(Cursors)  BY <1>2
<1>5. PlatformTyped' /\ LinkTyped' /\ JobsTyped'
  <2>1. PlatformTyped'  BY <1>1, <1>2 DEF PlatformTyped
  <2>2. LinkTyped'  BY <1>1, <1>2, <1>3, <1>4 DEF LinkTyped
  <2>3. JobsTyped'  BY <1>1, <1>2 DEF Typed, JobsTyped
  <2> QED  BY <2>1, <2>2, <2>3
<1>6. rpc[Worker] = "none" /\ cursor = 0 /\ WorkerTyped'
  <2>1. rpc[Worker] = "none" /\ cursor = 0  BY <1>1, <1>2 DEF WorkerTyped
  <2> QED  BY <1>1, <1>2, <2>1 DEF WorkerTyped, Steps
<1>7. TurnInv'
  <2>1. turn = NoJob  BY <1>1, <1>2 DEF Invs, TurnInv, Working
  <2> QED  BY <1>1, <1>2, <2>1 DEF Invs, TurnInv, Working
<1>8. Told' = Told  BY <1>2 DEF Told
<1>9. Lasting
  <2>1. Told \subseteq Told' /\ UNCHANGED event  BY <1>2, <1>8
  <2> QED  BY <1>1, <2>1, TellingLasts
<1>10. Thin(0) /\ Fewer
  <2>1. \A r \in taken : r \in taken'  BY <1>2
  <2> QED  BY <1>2, <1>3, <2>1 DEF Thin, Fewer
<1>11. FlightInv'
  <2>1. ASSUME NEW c \in Callers, rpc[c] = "sent"
        PROVE  (rpc'[c] = "sent" /\ Keeps(c)) \/ Absent(c)'
    BY <1>2, <1>6, <2>1 DEF Keeps
  <2>2. 0 \in Nat  OBVIOUS
  <2> QED  BY <1>1, <1>5, <1>10, <2>1, <2>2, FlightThins DEF Invs
<1>12. AnswerInv'  BY <1>1, <1>2, <1>8, <1>10, AnswersQuiet DEF Invs
<1>13. DoneInv'  BY <1>1, <1>2, <1>9, DoneQuiet DEF Invs
<1>14. OrderInv'
  <2>1. \A n \in 1..pushed' : Done(n)'  BY <1>2, <1>13 DEF DoneInv
  <2> QED  BY <1>2, <2>1, OrderCleared
<1>15. BegunInv'  BY <1>2 DEF BegunInv
<1> QED
  BY <1>5, <1>6, <1>7, <1>11, <1>12, <1>13, <1>14, <1>15 DEF ChannelInv

(* Nobody waits for anything on the connection any more. *)
LEMMA HangsUp ==
  ASSUME ChannelInv, link' = "down", wire' = <<>>, queue' = <<>>, taken' = Abandoned,
         step' = "off", cursor' = 0, turn' = NoJob, acked' \in {0, acked},
         rpc' \in [Callers -> RpcStates], rpc'[Worker] = "none", JobsTyped',
         \A j \in Jobs :
            /\ IF job'[j].step = "asking"
               THEN /\ job[j].step = "asking" /\ rpc'[j] = rpc[j] /\ job'[j].into = job[j].into
                    /\ job'[job[j].into].cursor = job[job[j].into].cursor
               ELSE job'[j].into = NoJob /\ rpc'[j] = "none"
            /\ job'[j].sentChoice => job[j].sentChoice /\ job'[j].cursor = job[j].cursor,
         UNCHANGED <<platformVars, ghostVars>>
  PROVE  ChannelInv'
<1>1. Typed /\ Invs /\ LinkTyped /\ PlatformTyped /\ WorkerTyped  BY InvParts DEF Typed
<1>2. UNCHANGED <<event, confirmed, pushed, settled, strayed, begun>>
  BY DEF platformVars, ghostVars
<1>3. DOMAIN wire' = {} /\ DOMAIN queue' = {}  OBVIOUS
<1>4. wire' \in Seq(Frame) /\ queue' \in Seq(Cursors)  OBVIOUS
<1>5. /\ taken' \subseteq Request /\ Fewer
      /\ \A r \in taken' : r.by = Nobody /\ r.cursor <= Len(event)
  BY <1>1, AbandonedFacts
<1>6. PlatformTyped' /\ LinkTyped'
  <2>1. PlatformTyped'  BY <1>1, <1>2 DEF PlatformTyped
  <2>2. LinkTyped'  BY <1>1, <1>2, <1>3, <1>4, <1>5 DEF LinkTyped
  <2> QED  BY <2>1, <2>2
<1>7. WorkerTyped'
  <2>1. Len(event) \in Nat /\ acked \in 0..Len(event)  BY <1>1 DEF PlatformTyped, WorkerTyped
  <2> QED  BY <1>2, <2>1 DEF WorkerTyped, Steps
<1>8. TurnInv'  BY <1>1 DEF Invs, TurnInv, Working
<1>9. Told' = Told  BY <1>2 DEF Told
<1>10. Lasting
  <2>1. Told \subseteq Told' /\ UNCHANGED event  BY <1>2, <1>9
  <2> QED  BY <1>1, <2>1, TellingLasts
<1>11. Thin(0)  BY <1>3 DEF Thin
<1>12. FlightInv'
  <2>1. \A c \in Callers : Absent(c)'  BY <1>3, <1>5, Apart DEF Absent
  <2>2. 0 \in Nat  OBVIOUS
  <2> QED  BY <1>1, <1>5, <1>6, <1>11, <2>1, <2>2, FlightThins DEF Invs
<1>13. AnswerInv'  BY <1>1, <1>9, <1>11, AnswersQuiet DEF Invs
<1>14. DoneInv'
  <2>1. \A r \in taken' : r.method = "ack" =>
           \E o \in taken : o.method = "ack" /\ o.cursor = r.cursor
    BY <1>5 DEF Fewer
  <2> QED  BY <1>1, <1>2, <1>10, <2>1, DoneQuiet DEF Invs
<1>15. OrderInv'  BY OrderCleared
<1>16. BegunInv'  BY DEF BegunInv
<1> QED
  BY <1>6, <1>7, <1>8, <1>12, <1>13, <1>14, <1>15, <1>16 DEF ChannelInv

LEMMA GiveUpGood ==
  ASSUME ChannelInv, GiveUp
  PROVE  ChannelInv'
<1>1. Typed /\ Invs /\ WorkerTyped /\ JobsTyped  BY InvParts DEF Typed
<1>2. /\ link' = "down" /\ wire' = <<>> /\ queue' = <<>> /\ taken' = Abandoned
      /\ step' = "off" /\ cursor' = 0 /\ turn' = NoJob /\ acked' = acked
      /\ rpc' = [rpc EXCEPT ![Worker] = "none"]
      /\ job' = [j \in Jobs |-> IF job[j].step \in Outcome THEN [job[j] EXCEPT !.step = "idle"]
                               ELSE job[j]]
      /\ UNCHANGED <<platformVars, ghostVars>>
  BY DEF GiveUp, Hang
<1>3. rpc \in [Callers -> RpcStates] /\ \A j \in Jobs : job[j] \in Turn
  BY <1>1 DEF WorkerTyped, JobsTyped
<1>4. /\ rpc' \in [Callers -> RpcStates] /\ rpc'[Worker] = "none"
      /\ \A j \in Jobs : rpc'[j] = rpc[j]
  BY <1>2, <1>3, Apart DEF RpcStates
<1>5. ASSUME NEW j \in Jobs
      PROVE  /\ job'[j] \in Turn /\ job'[j].cursor = job[j].cursor
             /\ job'[j].sentChoice = job[j].sentChoice /\ job'[j].into = job[j].into
             /\ job'[j].step = "asking" <=> job[j].step = "asking"
  <2>1. CASE job[j].step \in Outcome
    <3>1. job'[j] = [job[j] EXCEPT !.step = "idle"]  BY <1>2, <2>1
    <3> QED  BY <1>3, <2>1, <3>1 DEF Turn, Outcome
  <2>2. CASE job[j].step \notin Outcome  BY <1>2, <1>3, <2>2
  <2> QED  BY <2>1, <2>2
<1>6. JobsTyped'  BY <1>2, <1>5 DEF JobsTyped
<1>7. ASSUME NEW j \in Jobs
      PROVE  IF job'[j].step = "asking"
             THEN /\ job[j].step = "asking" /\ rpc'[j] = rpc[j] /\ job'[j].into = job[j].into
                  /\ job'[job[j].into].cursor = job[job[j].into].cursor
             ELSE job'[j].into = NoJob /\ rpc'[j] = "none"
  <2>1. IF job[j].step = "asking" THEN job[j].into \in Jobs
        ELSE job[j].into = NoJob /\ rpc[j] = "none"
    BY <1>1 DEF Invs, TurnInv
  <2> QED  BY <1>4, <1>5, <2>1
<1> QED  BY <1>2, <1>4, <1>5, <1>6, <1>7, HangsUp

LEMMA CrashGood ==
  ASSUME ChannelInv, Crash
  PROVE  ChannelInv'
<1>2. /\ link' = "down" /\ wire' = <<>> /\ queue' = <<>> /\ taken' = Abandoned
      /\ step' = "off" /\ cursor' = 0 /\ turn' = NoJob /\ acked' = 0
      /\ rpc' = [c \in Callers |-> "none"] /\ job' = [j \in Jobs |-> Idle]
      /\ UNCHANGED <<platformVars, ghostVars>>
  BY DEF Crash
<1>3. rpc' \in [Callers -> RpcStates] /\ \A c \in Callers : rpc'[c] = "none"
  BY <1>2 DEF RpcStates
<1>4. /\ Idle \in Turn /\ Idle.step = "idle" /\ Idle.into = NoJob /\ Idle.sentChoice = FALSE
  BY BoundsType DEF Idle, Turn
<1>5. JobsTyped' /\ \A j \in Jobs : job'[j] = Idle  BY <1>2, <1>4 DEF JobsTyped
<1>6. rpc'[Worker] = "none" /\ \A j \in Jobs : rpc'[j] = "none"  BY <1>3, Apart
<1> QED  BY <1>2, <1>3, <1>4, <1>5, <1>6, HangsUp

-----------------------------------------------------------------------------
(* The worker's requests. *)

LEMMA CallFacts ==
  ASSUME Typed, NEW c \in Callers, NEW m \in Method, NEW n \in 1..Len(event), Call(c, m, n)
  PROVE  /\ taken' \subseteq Request
         /\ \A r \in taken' : r \in taken \/ (r.method = m /\ r.cursor = n)
         /\ \A r \in taken' : r.cursor <= Len(event)
         /\ rpc' \in [Callers -> RpcStates] /\ rpc'[c] \in {"sent", "failed"}
         /\ \A d \in Callers : d # c => rpc'[d] = rpc[d]
<1> DEFINE q == [by |-> IF link = "open" THEN c ELSE Nobody, method |-> m, cursor |-> n]
<1>1. /\ taken \subseteq Request /\ rpc \in [Callers -> RpcStates]
      /\ \A r \in taken : r.cursor <= Len(event)
  BY DEF Typed, LinkTyped, WorkerTyped
<1>2. Len(event) \in Nat /\ Len(event) <= MaxEvents /\ MaxEvents \in Nat
  BY BoundsType DEF Typed, PlatformTyped
<1>3. n \in 1..MaxEvents /\ n <= Len(event)  BY <1>2
<1>4. q \in Request /\ q.method = m /\ q.cursor = n  BY <1>3 DEF Request
<1>5. /\ taken' \in {taken, taken \cup {q}}
      /\ rpc' \in {[rpc EXCEPT ![c] = "sent"], [rpc EXCEPT ![c] = "failed"]}
  BY DEF Call
<1> HIDE DEF q
<1>6. /\ rpc' \in [Callers -> RpcStates] /\ rpc'[c] \in {"sent", "failed"}
      /\ \A d \in Callers : d # c => rpc'[d] = rpc[d]
  BY <1>1, <1>5 DEF RpcStates
<1> QED  BY <1>1, <1>3, <1>4, <1>5, <1>6


(* The queue is left alone, or its first event goes into the hands of the  *)
(* worker, which held none.                                                *)
TakesOrKeeps(n) ==
    \/ queue' = queue /\ cursor = n
    \/ queue # <<>> /\ queue' = Tail(queue) /\ n = Head(queue) /\ step = "select"

LEMMA QueueFacts ==
  ASSUME Typed, OrderInv, DoneInv, NEW n, TakesOrKeeps(n), step # "off", cursor' = n,
         cursor = n => n # 0
  PROVE  /\ n \in 1..Len(event) /\ cursor \in {0, n}
         /\ queue' \in Seq(Cursors) /\ \A i \in DOMAIN queue' : queue'[i] <= Len(event)
         /\ \A k \in 1..(n - 1) : Done(k)
         /\ cursor = 0 => step = "select"
         /\ cursor # 0 => queue' = queue
<1>1. LinkTyped /\ PlatformTyped /\ WorkerTyped  BY DEF Typed
<1>2. /\ queue \in Seq(Cursors) /\ \A i \in DOMAIN queue : queue[i] \in 1..Len(event)
      /\ Len(queue) \in Nat /\ DOMAIN queue = 1..Len(queue) /\ Len(event) \in Nat
  BY <1>1, WireFacts
<1>3. cursor \in 0..Len(event) /\ (step \in {"off", "select"} <=> cursor = 0)
  BY <1>1 DEF WorkerTyped
<1>4. CASE queue' = queue /\ cursor = n
  <2>1. \A i \in DOMAIN queue : queue[i] <= Len(event)  BY <1>1 DEF LinkTyped
  <2> QED  BY <1>2, <1>3, <1>4, <2>1 DEF DoneInv
<1>5. CASE queue # <<>> /\ queue' = Tail(queue) /\ n = Head(queue) /\ step = "select"
  <2>1. /\ n = queue[1] /\ 1 \in DOMAIN queue
        /\ queue' \in Seq(Cursors) /\ DOMAIN queue' = 1..(Len(queue) - 1)
        /\ \A i \in DOMAIN queue' : i + 1 \in DOMAIN queue /\ queue'[i] = queue[i + 1]
    BY <1>2, <1>5
  <2>2. \A i \in DOMAIN queue : queue[i] <= Len(event)  BY <1>1 DEF LinkTyped
  <2>3. n \in 1..Len(event) /\ cursor = 0  BY <1>2, <1>3, <1>5, <2>1
  <2>4. ASSUME NEW k \in 1..(n - 1) PROVE Done(k)
    <3>1. 1 - 1 = 0 /\ k \in 1..(queue[1] - 1)  BY <2>1
    <3>2. Handled(k) \/ \E i \in 1..(1 - 1) : queue[i] = k  BY <2>1, <3>1 DEF OrderInv
    <3>3. k # 0  BY <2>3
    <3> QED  BY <2>3, <3>1, <3>2, <3>3 DEF Handled
  <2> QED  BY <1>5, <2>1, <2>2, <2>3, <2>4
<1> QED  BY <1>4, <1>5 DEF TakesOrKeeps

(* The order is kept while the worker takes an event or stays with it. *)
LEMMA OrderTaken ==
  ASSUME Typed, LinkTyped', PlatformTyped', OrderInv, DoneInv, NEW n, TakesOrKeeps(n),
         step # "off", cursor' = n, cursor = n => n # 0,
         UNCHANGED <<event, link, pushed, wire>>, Told \subseteq Told'
  PROVE  OrderInv'
<1>1. PlatformTyped /\ LinkTyped  BY DEF Typed
<1>2. Lasting  BY <1>1, TellingLasts
<1>3. CASE queue' = queue /\ cursor = n
  <2>1. HandledLasts  BY <1>1, <1>3, HandledSame
  <2>2. Thin(0)  BY SameLink
  <2> QED  BY <1>3, <2>1, <2>2, OrderQuiet
<1>4. CASE queue # <<>> /\ queue' = Tail(queue) /\ n = Head(queue) /\ step = "select"
  <2>1. cursor = 0 /\ Len(event) \in Nat  BY <1>4 DEF Typed, WorkerTyped, PlatformTyped
  <2>2. HandledLasts
    <3>1. \A k \in 1..Len(event) : k # 0  BY <2>1
    <3> QED  BY <1>2, <2>1, <3>1 DEF HandledLasts, Handled, Lasting
  <2> QED  BY <1>4, <2>2, OrderTake
<1> QED  BY <1>3, <1>4 DEF TakesOrKeeps

(* A turn that had ended is free again; the others are left alone. *)
Freed(j) ==
    /\ job'[j].cursor = job[j].cursor /\ job'[j].into = job[j].into
    /\ job'[j].sentChoice = job[j].sentChoice
    /\ (job'[j].step = job[j].step \/ (job[j].step \in Outcome /\ job'[j].step = "idle"))

LEMMA WorkerCallGood ==
  ASSUME ChannelInv, NEW m \in {"topic", "receipt", "answer", "ack"}, NEW n,
         Call(Worker, m, n), rpc[Worker] # "sent", step' = m, cursor' = n,
         step # "off", cursor = n => n # 0, TakesOrKeeps(n), turn' = turn,
         JobsTyped', \A j \in Jobs : Freed(j),
         settled \subseteq settled', settled' \subseteq settled \cup {n}, strayed' = strayed,
         m = "ack" => Done(n)',
         m \in {"receipt", "answer"} => turn # NoJob,
         m = "topic" => turn = NoJob /\ acked < n /\ cursor = 0,
         UNCHANGED <<event, confirmed, pushed, link, wire, acked, begun>>
  PROVE  ChannelInv'
<1>1. Typed /\ Invs /\ LinkTyped /\ PlatformTyped /\ WorkerTyped  BY InvParts DEF Typed
<1>2. /\ n \in 1..Len(event) /\ cursor \in {0, n}
      /\ queue' \in Seq(Cursors) /\ \A i \in DOMAIN queue' : queue'[i] <= Len(event)
      /\ \A k \in 1..(n - 1) : Done(k)
      /\ cursor = 0 => step = "select"
  BY <1>1, QueueFacts DEF Invs
<1>3. m \in Method /\ Worker \in Callers  BY Apart DEF Method
<1>4. /\ taken' \subseteq Request
      /\ \A r \in taken' : r \in taken \/ (r.method = m /\ r.cursor = n)
      /\ \A r \in taken' : r.cursor <= Len(event)
      /\ rpc' \in [Callers -> RpcStates] /\ rpc'[Worker] \in {"sent", "failed"}
      /\ \A d \in Callers : d # Worker => rpc'[d] = rpc[d]
  BY <1>1, <1>2, <1>3, CallFacts
<1>5. /\ n # 0 /\ Len(event) \in Nat /\ n \in Cursors /\ acked \in 0..Len(event)
  <2>1. Len(event) \in Nat /\ Len(event) <= MaxEvents  BY <1>1 DEF PlatformTyped
  <2> QED  BY <1>1, <1>2, <2>1, BoundsType DEF Cursors, WorkerTyped
<1>6. PlatformTyped' /\ LinkTyped'
  <2>1. PlatformTyped'  BY <1>1, <1>5 DEF PlatformTyped
  <2>2. LinkTyped'  BY <1>1, <1>2, <1>4 DEF LinkTyped
  <2> QED  BY <2>1, <2>2
<1>7. Told \subseteq Told'  BY DEF Told
<1>8. Lasting  BY <1>1, <1>7, TellingLasts
<1>9. WorkerTyped'
  <2>1. n \in 0..Len(event)  BY <1>2
  <2> QED  BY <1>4, <1>5, <2>1 DEF WorkerTyped, Steps
<1>10. \A j \in Jobs : /\ job'[j].step = "asking" <=> job[j].step = "asking"
                       /\ job'[j].into = job[j].into /\ job'[j].cursor = job[j].cursor
                       /\ job'[j].sentChoice = job[j].sentChoice
                       /\ rpc'[j] = rpc[j]
  <2>1. \A j \in Jobs : rpc'[j] = rpc[j]  BY <1>4, Apart
  <2> QED  BY <2>1 DEF Freed, Outcome
<1>11. TurnInv'
  <2>1. turn # NoJob => /\ turn \in Jobs /\ job[turn].cursor = cursor
                        /\ step \in Working \cup {"ack"}
    BY <1>1 DEF Invs, TurnInv
  <2>2. turn # NoJob => cursor = n /\ step' \in Working \cup {"ack"}
    BY <1>2, <2>1 DEF Working
  <2>3. turn' # NoJob => /\ turn' \in Jobs /\ job'[turn'].cursor = cursor'
                         /\ step' \in Working \cup {"ack"}
    BY <1>10, <2>1, <2>2
  <2>4. step' \in Working => turn' # NoJob  BY DEF Working
  <2>5. \A j \in Jobs : IF job'[j].step = "asking"
                        THEN job'[j].into \in Jobs /\ job'[job'[j].into].cursor \in Cursors
                        ELSE job'[j].into = NoJob /\ rpc'[j] = "none"
    BY <1>1, <1>10 DEF Invs, TurnInv
  <2> QED  BY <2>3, <2>4, <2>5 DEF TurnInv
<1>12. \A d \in Callers \ {Worker} : Keeps(d)
  <2>1. \A j \in Jobs : job[j].step = "asking" => job[j].into \in Jobs
    BY <1>1 DEF Invs, TurnInv
  <2> QED  BY <1>10, <2>1, Apart DEF Keeps
<1>13. FlightInv'
  BY <1>1, <1>3, <1>6, <1>12, FlightCalls DEF Invs
<1>14. AnswerInv'
  <2>1. Thin(0)  BY <1>1, SameLink
  <2>2. \A j \in Jobs :
            /\ job'[j].step = "asking" /\ rpc'[j] = "ok" =>
                  /\ job[j].step = "asking" /\ rpc[j] = "ok"
                  /\ job'[job'[j].into].cursor = job[job[j].into].cursor
            /\ job'[j].sentChoice => job[j].sentChoice /\ job'[j].cursor = job[j].cursor
    <3>1. \A j \in Jobs : job[j].step = "asking" => job[j].into \in Jobs
      BY <1>1 DEF Invs, TurnInv
    <3> QED  BY <1>10, <3>1
  <2>3. rpc'[Worker] # "ok" /\ 0 \in Nat  BY <1>4
  <2> QED  BY <1>1, <1>7, <2>1, <2>2, <2>3, AnswersQuiet DEF Invs
<1>15. DoneInv'
  <2>1. \A k \in 1..(cursor' - 1) : Done(k)'  BY <1>2, <1>5, <1>8 DEF Lasting
  <2>2. \A r \in taken' : r.method = "ack" =>
            \/ \E o \in taken : o.method = "ack" /\ o.cursor = r.cursor
            \/ \A k \in 1..r.cursor : Done(k)'
    <3> SUFFICES ASSUME NEW r \in taken', r.method = "ack", r \notin taken
                 PROVE  \A k \in 1..r.cursor : Done(k)'
      OBVIOUS
    <3>1. r.cursor = n /\ m = "ack"  BY <1>4
    <3>2. \A k \in 1..n : k = n \/ k \in 1..(n - 1)  BY <1>2
    <3> QED  BY <2>1, <3>1, <3>2
  <2>3. step' = "ack" => Done(cursor)'  BY DEF Done
  <2> QED  BY <1>1, <1>8, <2>1, <2>2, <2>3, DoneQuiet DEF Invs
<1>16. OrderInv'  BY <1>1, <1>6, <1>7, OrderTaken DEF Invs
<1>17. BegunInv'
  <2>1. \A k \in begun \ {cursor} : k <= acked  BY <1>1 DEF Invs, BegunInv
  <2>2. begun \subseteq Cursors  BY <1>1 DEF PlatformTyped
  <2>3. \A k \in begun \ {n} : k <= acked  BY <1>2, <2>1, <2>2 DEF Cursors
  <2>4. m = "topic" => n \notin begun
    <3> SUFFICES ASSUME m = "topic", n \in begun PROVE FALSE  OBVIOUS
    <3>1. n <= acked  BY <1>5, <2>1
    <3> QED  BY <1>2, <1>5, <3>1
  <2> QED  BY <2>3, <2>4 DEF BegunInv
<1> QED
  BY <1>6, <1>9, <1>11, <1>13, <1>14, <1>15, <1>16, <1>17 DEF ChannelInv


(* A turn is begun for an event not acknowledged on this connection. *)
LEMMA BeginGood ==
  ASSUME ChannelInv, NEW n, NEW j \in Jobs, BeginTurn(n, j), TakesOrKeeps(n),
         step \in {"select", "topic"}, cursor = n => n # 0, acked < n, n \notin begun,
         rpc[Worker] # "sent", rpc' \in [Callers -> RpcStates], rpc'[Worker] = "none",
         \A d \in Jobs : rpc'[d] = rpc[d],
         UNCHANGED <<platformVars, link, wire, taken, acked, settled, strayed>>
  PROVE  ChannelInv'
<1>1. Typed /\ Invs /\ LinkTyped /\ PlatformTyped /\ WorkerTyped /\ JobsTyped
  BY InvParts DEF Typed
<1>2. UNCHANGED <<event, confirmed, pushed>>  BY DEF platformVars
<1>3. /\ j # turn /\ job[j].step = "idle" /\ \A i \in Jobs : job[i].into # j
      /\ job' = [job EXCEPT ![j] = [Idle EXCEPT !.step = "running", !.cursor = n]]
      /\ turn' = j /\ step' = "turn" /\ cursor' = n
      /\ begun' = begun \cup {n}
  BY DEF BeginTurn, Free
<1>4. /\ n \in 1..Len(event) /\ cursor \in {0, n}
      /\ queue' \in Seq(Cursors) /\ \A i \in DOMAIN queue' : queue'[i] <= Len(event)
      /\ \A k \in 1..(n - 1) : Done(k)
      /\ cursor = 0 => step = "select"
  BY <1>1, <1>3, QueueFacts DEF Invs
<1>5. /\ n # 0 /\ Len(event) \in Nat /\ n \in Cursors /\ acked \in 0..Len(event)
      /\ n \in 0..MaxEvents
  <2>1. Len(event) \in Nat /\ Len(event) <= MaxEvents  BY <1>1 DEF PlatformTyped
  <2> QED  BY <1>1, <1>4, <2>1, BoundsType DEF Cursors, WorkerTyped
<1> DEFINE t == [Idle EXCEPT !.step = "running", !.cursor = n]
<1>6. /\ t \in Turn /\ t.step = "running" /\ t.cursor = n /\ t.sentChoice = FALSE
      /\ t.into = NoJob
  BY <1>5, BoundsType DEF Idle, Turn
<1>7. job \in [Jobs -> Turn] /\ job' = [job EXCEPT ![j] = t]  BY <1>1, <1>3 DEF JobsTyped
<1> HIDE DEF t
<1>8. /\ JobsTyped' /\ job'[j] = t
      /\ \A i \in Jobs : i # j => job'[i] = job[i]
  BY <1>6, <1>7 DEF JobsTyped
<1>9. PlatformTyped' /\ LinkTyped'
  <2>1. PlatformTyped'  BY <1>1, <1>2, <1>3, <1>5 DEF PlatformTyped
  <2>2. LinkTyped'  BY <1>1, <1>2, <1>4 DEF LinkTyped
  <2> QED  BY <2>1, <2>2
<1>10. WorkerTyped'
  <2>1. n \in 0..Len(event)  BY <1>4
  <2> QED  BY <1>2, <1>3, <1>5, <2>1 DEF WorkerTyped, Steps
<1>11. \A i \in Jobs : IF job[i].step = "asking"
                       THEN /\ job[i].into \in Jobs /\ job[i].into # j /\ i # j
                            /\ job[job[i].into].cursor \in Cursors
                       ELSE job[i].into = NoJob /\ rpc[i] = "none"
  BY <1>1, <1>3 DEF Invs, TurnInv
<1>12. TurnInv'
  <2>1. job'[turn'].cursor = cursor' /\ turn' \in Jobs /\ step' \in Working
    BY <1>3, <1>6, <1>8 DEF Working
  <2>2. turn' # NoJob  BY <1>3, Apart
  <2>3. \A i \in Jobs : IF job'[i].step = "asking"
                        THEN job'[i].into \in Jobs /\ job'[job'[i].into].cursor \in Cursors
                        ELSE job'[i].into = NoJob /\ rpc'[i] = "none"
    <3>1. ASSUME NEW i \in Jobs, i = j
          PROVE  job'[i].step # "asking" /\ job'[i].into = NoJob /\ rpc'[i] = "none"
      BY <1>3, <1>6, <1>8, <1>11, <3>1
    <3>2. ASSUME NEW i \in Jobs, i # j, job'[i].step = "asking"
          PROVE  job'[i].into \in Jobs /\ job'[job'[i].into].cursor \in Cursors
      <4>1. /\ job'[i] = job[i] /\ job[i].into \in Jobs /\ job[i].into # j
            /\ job[job[i].into].cursor \in Cursors
        BY <1>3, <1>8, <1>11, <3>2
      <4> QED  BY <1>8, <4>1
    <3>3. ASSUME NEW i \in Jobs, i # j, job'[i].step # "asking"
          PROVE  job'[i].into = NoJob /\ rpc'[i] = "none"
      <4>1. job'[i] = job[i] /\ rpc'[i] = rpc[i]  BY <1>8, <3>3
      <4> QED  BY <1>11, <3>3, <4>1
    <3> QED  BY <3>1, <3>2, <3>3
  <2> QED  BY <2>1, <2>2, <2>3 DEF TurnInv
<1>13. Told' = Told  BY DEF Told
<1>14. Lasting  BY <1>1, <1>2, <1>13, TellingLasts
<1>15. Thin(0) /\ Fewer  BY <1>1, SameLink
<1>16. FlightInv'
  <2>1. ASSUME NEW c \in Callers, rpc[c] = "sent"
        PROVE  (rpc'[c] = "sent" /\ Keeps(c)) \/ Absent(c)'
    <3>1. c # Worker /\ c \in Jobs  BY <2>1, Apart
    <3>2. rpc'[c] = "sent"  BY <2>1, <3>1
    <3>3. Keeps(c)  BY <1>8, <1>11, <3>1 DEF Keeps
    <3> QED  BY <3>2, <3>3
  <2>2. 0 \in Nat  OBVIOUS
  <2> QED  BY <1>1, <1>9, <1>15, <2>1, <2>2, FlightThins DEF Invs
<1>17. AnswerInv'
  <2>1. \A i \in Jobs :
            /\ job'[i].step = "asking" /\ rpc'[i] = "ok" =>
                  /\ job[i].step = "asking" /\ rpc[i] = "ok"
                  /\ job'[job'[i].into].cursor = job[job[i].into].cursor
            /\ job'[i].sentChoice => job[i].sentChoice /\ job'[i].cursor = job[i].cursor
    BY <1>6, <1>8, <1>11
  <2>2. 0 \in Nat  OBVIOUS
  <2> QED  BY <1>1, <1>3, <1>13, <1>15, <2>1, <2>2, AnswersQuiet DEF Invs
<1>18. DoneInv'
  <2>1. \A k \in 1..(cursor' - 1) : Done(k)'  BY <1>3, <1>4, <1>5, <1>14 DEF Lasting
  <2> QED  BY <1>1, <1>2, <1>3, <1>14, <2>1, DoneQuiet DEF Invs
<1>19. OrderInv'  BY <1>1, <1>2, <1>3, <1>9, <1>13, OrderTaken DEF Invs
<1>20. BegunInv'
  <2>1. \A k \in begun \ {cursor} : k <= acked  BY <1>1 DEF Invs, BegunInv
  <2>2. begun \subseteq Cursors  BY <1>1 DEF PlatformTyped
  <2>3. \A k \in begun' \ {n} : k <= acked
    BY <1>3, <1>4, <2>1, <2>2 DEF Cursors
  <2> QED  BY <1>3, <2>3 DEF BegunInv
<1> QED
  BY <1>8, <1>9, <1>10, <1>12, <1>16, <1>17, <1>18, <1>19, <1>20 DEF ChannelInv

LEMMA TakeGood ==
  ASSUME ChannelInv, TakeEvent
  PROVE  ChannelInv'
<1>0. PICK n : n = Head(queue)  OBVIOUS
<1>1. Typed /\ Invs /\ LinkTyped /\ PlatformTyped /\ WorkerTyped /\ JobsTyped
  BY InvParts DEF Typed
<1>2. /\ step = "select" /\ queue # <<>> /\ queue' = Tail(queue) /\ HandleEvent(n)
      /\ UNCHANGED <<platformVars, link, wire, acked, settled, strayed>>
      /\ UNCHANGED <<event, confirmed, pushed>>
  BY <1>0 DEF TakeEvent, platformVars
<1>3. /\ queue \in Seq(Cursors) /\ \A i \in DOMAIN queue : queue[i] \in 1..Len(event)
      /\ Len(queue) \in Nat /\ DOMAIN queue = 1..Len(queue) /\ Len(event) \in Nat
  BY <1>1, WireFacts
<1>4. n \in 1..Len(event) /\ n # 0
  <2>1. n = queue[1] /\ 1 \in DOMAIN queue  BY <1>0, <1>2, <1>3
  <2>2. n \in 1..Len(event)  BY <1>3, <2>1
  <2> QED  BY <1>3, <2>2
<1>5. TakesOrKeeps(n)  BY <1>0, <1>2 DEF TakesOrKeeps
<1>6. /\ cursor = 0 /\ rpc[Worker] = "none" /\ rpc \in [Callers -> RpcStates]
      /\ acked \in 0..Len(event)
  BY <1>1, <1>2 DEF WorkerTyped
<1>7. turn = NoJob  BY <1>1, <1>2 DEF Invs, TurnInv, Working
<1>8. begun \subseteq Cursors /\ \A k \in begun : k <= acked
  <2>1. begun \subseteq Cursors  BY <1>1 DEF PlatformTyped
  <2>2. \A k \in begun \ {cursor} : k <= acked  BY <1>1, <1>2 DEF Invs, BegunInv
  <2> QED  BY <1>6, <2>1, <2>2 DEF Cursors
<1>9. ASSUME job' = job PROVE JobsTyped' /\ \A j \in Jobs : Freed(j)
  BY <1>1, <1>9 DEF JobsTyped, Freed
<1>10. ~IsDuplicate(n) => acked < n /\ n \notin begun
  BY <1>3, <1>4, <1>6, <1>8 DEF IsDuplicate
<1>11. CASE (IsDuplicate(n) \/ event[n] = "notice") /\ Acknowledge(n)
            /\ UNCHANGED <<turn, job, begun>>
  <2>1. Call(Worker, "ack", n) /\ step' = "ack" /\ cursor' = n  BY <1>11 DEF Acknowledge
  <2>2. Done(n)'
    <3>1. Done(n)
      <4>1. CASE event[n] = "notice"  BY <4>1 DEF Done
      <4>2. CASE IsDuplicate(n)
        BY <1>1, <1>3, <1>4, <1>6, <4>2 DEF IsDuplicate, Invs, DoneInv
      <4> QED  BY <1>11, <4>1, <4>2
    <3> QED  BY <1>2, <2>1, <3>1 DEF Done, Told
  <2> QED  BY <1>2, <1>4, <1>5, <1>6, <1>9, <1>11, <2>1, <2>2, WorkerCallGood
<1>12. CASE ~IsDuplicate(n) /\ Call(Worker, "topic", n) /\ step' = "topic" /\ cursor' = n
            /\ UNCHANGED <<turn, job, begun>>
  BY <1>2, <1>4, <1>5, <1>6, <1>7, <1>9, <1>10, <1>12, WorkerCallGood
<1>13. ASSUME NEW j \in Jobs, ~IsDuplicate(n), BeginTurn(n, j), UNCHANGED <<rpc, taken>>
       PROVE  ChannelInv'
  <2>1. rpc[Worker] # "sent" /\ rpc' \in [Callers -> RpcStates] /\ rpc'[Worker] = "none"
        /\ \A d \in Jobs : rpc'[d] = rpc[d]
    BY <1>6, <1>13
  <2> QED  BY <1>2, <1>4, <1>5, <1>10, <1>13, <2>1, BeginGood
<1> QED  BY <1>2, <1>11, <1>12, <1>13 DEF HandleEvent

LEMMA TopicGood ==
  ASSUME ChannelInv, TopicMade
  PROVE  ChannelInv'
<1>1. Typed /\ Invs /\ WorkerTyped  BY InvParts DEF Typed
<1>2. /\ step = "topic" /\ rpc[Worker] # "sent" /\ rpc' = [rpc EXCEPT ![Worker] = "none"]
      /\ UNCHANGED <<platformVars, link, wire, taken, queue, acked, settled, strayed>>
  BY DEF TopicMade, Waits, linkVars
<1>3. PICK j \in Jobs : BeginTurn(cursor, j)  BY DEF TopicMade
<1>4. rpc \in [Callers -> RpcStates] /\ cursor # 0  BY <1>1, <1>2 DEF WorkerTyped
<1>5. /\ rpc' \in [Callers -> RpcStates] /\ rpc'[Worker] = "none"
      /\ \A d \in Jobs : rpc'[d] = rpc[d]
  BY <1>2, <1>4, Apart DEF RpcStates
<1>6. TakesOrKeeps(cursor)  BY <1>2 DEF TakesOrKeeps
<1>7. acked < cursor /\ cursor \notin begun  BY <1>1, <1>2 DEF Invs, BegunInv
<1> QED  BY <1>2, <1>3, <1>4, <1>5, <1>6, <1>7, BeginGood

LEMMA SendReceiptGood ==
  ASSUME ChannelInv, SendReceipt
  PROVE  ChannelInv'
<1>1. Typed /\ Invs /\ WorkerTyped /\ JobsTyped  BY InvParts DEF Typed
<1>2. /\ step = "turn" /\ Call(Worker, "receipt", cursor) /\ step' = "receipt"
      /\ UNCHANGED <<event, confirmed, pushed, link, wire, queue, acked, cursor, turn, job,
                     settled, strayed, begun>>
  BY DEF SendReceipt, platformVars, ghostVars
<1>3. cursor # 0 /\ rpc[Worker] = "none"  BY <1>1, <1>2 DEF WorkerTyped
<1>4. turn # NoJob  BY <1>1, <1>2 DEF Invs, TurnInv, Working
<1>5. TakesOrKeeps(cursor)  BY <1>2 DEF TakesOrKeeps
<1>6. JobsTyped' /\ \A j \in Jobs : Freed(j)  BY <1>1, <1>2 DEF JobsTyped, Freed
<1> QED  BY <1>2, <1>3, <1>4, <1>5, <1>6, WorkerCallGood

LEMMA FinishGood ==
  ASSUME ChannelInv, FinishTurn
  PROVE  ChannelInv'
<1>1. Typed /\ Invs /\ WorkerTyped /\ JobsTyped  BY InvParts DEF Typed
<1>2. /\ step \in {"turn", "waiting"} /\ job[turn].step \in Outcome
      /\ job' = [job EXCEPT ![turn].step = "idle"]
      /\ settled' = IF job[turn].step = "silent" THEN settled \cup {cursor} ELSE settled
      /\ UNCHANGED <<event, confirmed, pushed, link, wire, queue, acked, turn, strayed, begun>>
  BY DEF FinishTurn, platformVars
<1>3. \/ NeedsNoReply(turn) /\ Acknowledge(cursor)
      \/ Call(Worker, "answer", cursor) /\ step' = "answer" /\ cursor' = cursor
  BY DEF FinishTurn
<1>4. cursor # 0 /\ rpc[Worker] = "none"  BY <1>1, <1>2 DEF WorkerTyped
<1>5. turn # NoJob /\ turn \in Jobs /\ job[turn].cursor = cursor
  BY <1>1, <1>2 DEF Invs, TurnInv, Working
<1>6. TakesOrKeeps(cursor)  BY <1>2 DEF TakesOrKeeps
<1>7. job \in [Jobs -> Turn]  BY <1>1 DEF JobsTyped
<1>8. JobsTyped' /\ \A j \in Jobs : Freed(j)
  <2>1. job[turn] \in Turn  BY <1>5, <1>7
  <2>2. /\ [job[turn] EXCEPT !.step = "idle"] \in Turn
        /\ [job[turn] EXCEPT !.step = "idle"].step = "idle"
        /\ [job[turn] EXCEPT !.step = "idle"].cursor = job[turn].cursor
        /\ [job[turn] EXCEPT !.step = "idle"].into = job[turn].into
        /\ [job[turn] EXCEPT !.step = "idle"].sentChoice = job[turn].sentChoice
    BY <2>1 DEF Turn
  <2>3. job' = [job EXCEPT ![turn] = [job[turn] EXCEPT !.step = "idle"]]  BY <1>2
  <2> QED  BY <1>2, <1>5, <1>7, <2>2, <2>3 DEF JobsTyped, Freed
<1>9. settled \subseteq settled' /\ settled' \subseteq settled \cup {cursor}  BY <1>2
<1>10. CASE NeedsNoReply(turn) /\ Acknowledge(cursor)
  <2>1. Call(Worker, "ack", cursor) /\ step' = "ack" /\ cursor' = cursor
    BY <1>10 DEF Acknowledge
  <2>2. Done(cursor)'
    <3>1. CASE job[turn].step = "silent"
      BY <1>2, <2>1, <3>1 DEF Done, Told
    <3>2. CASE job[turn].sentChoice
      <4>1. cursor \in Told  BY <1>1, <1>5, <3>2 DEF Invs, AnswerInv
      <4> QED  BY <1>2, <1>9, <2>1, <4>1 DEF Done, Told
    <3> QED  BY <1>10, <3>1, <3>2 DEF NeedsNoReply
  <2> QED  BY <1>2, <1>4, <1>6, <1>8, <1>9, <2>1, <2>2, WorkerCallGood
<1>11. CASE Call(Worker, "answer", cursor) /\ step' = "answer" /\ cursor' = cursor
  BY <1>2, <1>4, <1>5, <1>6, <1>8, <1>9, <1>11, WorkerCallGood
<1> QED  BY <1>3, <1>10, <1>11

LEMMA ReplySentGood ==
  ASSUME ChannelInv, ReplySent
  PROVE  ChannelInv'
<1>1. Typed /\ Invs /\ WorkerTyped /\ JobsTyped  BY InvParts DEF Typed
<1>2. /\ step = "answer" /\ rpc[Worker] = "ok"
      /\ Call(Worker, "ack", cursor) /\ step' = "ack" /\ cursor' = cursor
      /\ UNCHANGED <<event, confirmed, pushed, link, wire, queue, acked, turn, job,
                     settled, strayed, begun>>
  BY DEF ReplySent, Ok, Acknowledge, platformVars, ghostVars
<1>3. cursor # 0  BY <1>1, <1>2 DEF WorkerTyped
<1>4. Done(cursor)'
  <2>1. cursor \in Told  BY <1>1, <1>2 DEF Invs, AnswerInv
  <2> QED  BY <1>2, <2>1 DEF Done, Told
<1>5. TakesOrKeeps(cursor)  BY <1>2 DEF TakesOrKeeps
<1>6. JobsTyped' /\ \A j \in Jobs : Freed(j)  BY <1>1, <1>2 DEF JobsTyped, Freed
<1> QED  BY <1>2, <1>3, <1>4, <1>5, <1>6, WorkerCallGood


(* The worker hears that its receipt has arrived. *)
LEMMA ReceiptSentGood ==
  ASSUME ChannelInv, ReceiptSent
  PROVE  ChannelInv'
<1>1. Typed /\ Invs /\ LinkTyped /\ PlatformTyped /\ WorkerTyped /\ JobsTyped
  BY InvParts DEF Typed
<1>2. /\ step = "receipt" /\ rpc[Worker] = "ok"
      /\ step' = "waiting" /\ rpc' = [rpc EXCEPT ![Worker] = "none"]
      /\ UNCHANGED <<event, confirmed, pushed, link, wire, taken, queue, acked, cursor, turn,
                     job, settled, strayed, begun>>
  BY DEF ReceiptSent, Ok, platformVars, linkVars, ghostVars
<1>3. /\ rpc \in [Callers -> RpcStates] /\ cursor # 0
      /\ rpc' \in [Callers -> RpcStates] /\ rpc'[Worker] = "none"
      /\ \A j \in Jobs : rpc'[j] = rpc[j]
  <2>1. rpc \in [Callers -> RpcStates] /\ cursor # 0  BY <1>1, <1>2 DEF WorkerTyped
  <2> QED  BY <1>2, <2>1, Apart DEF RpcStates
<1>4. Told' = Told  BY <1>2 DEF Told
<1>5. Lasting /\ HandledLasts  BY <1>1, <1>2, <1>4, HandledSame
<1>6. PlatformTyped' /\ LinkTyped' /\ WorkerTyped' /\ JobsTyped'
  <2>1. PlatformTyped'  BY <1>1, <1>2 DEF PlatformTyped
  <2>2. LinkTyped'  BY <1>1, <1>2 DEF LinkTyped
  <2>3. WorkerTyped'  BY <1>1, <1>2, <1>3 DEF WorkerTyped, Steps
  <2>4. JobsTyped'  BY <1>1, <1>2 DEF JobsTyped
  <2> QED  BY <2>1, <2>2, <2>3, <2>4
<1>7. TurnInv'  BY <1>1, <1>2, <1>3 DEF Invs, TurnInv, Working
<1>8. Thin(0) /\ Fewer  BY <1>1, <1>2, SameLink
<1>9. FlightInv'
  <2>1. ASSUME NEW c \in Callers, rpc[c] = "sent"
        PROVE  (rpc'[c] = "sent" /\ Keeps(c)) \/ Absent(c)'
    <3>1. c # Worker /\ c \in Jobs  BY <1>2, <2>1, Apart
    <3> QED  BY <1>2, <1>3, <2>1, <3>1 DEF Keeps
  <2>2. 0 \in Nat  OBVIOUS
  <2> QED  BY <1>1, <1>6, <1>8, <2>1, <2>2, FlightThins DEF Invs
<1>10. AnswerInv'  BY <1>1, <1>2, <1>3, <1>4, <1>8, AnswersQuiet DEF Invs
<1>11. DoneInv'  BY <1>1, <1>2, <1>5, DoneQuiet DEF Invs
<1>12. OrderInv'  BY <1>1, <1>2, <1>5, <1>6, <1>8, OrderQuiet DEF Invs
<1>13. BegunInv'  BY <1>1, <1>2 DEF Invs, BegunInv
<1> QED
  BY <1>6, <1>7, <1>9, <1>10, <1>11, <1>12, <1>13 DEF ChannelInv

(* The worker hears that its acknowledgement has arrived, and lets go of   *)
(* the event.                                                              *)
LEMMA AcknowledgedGood ==
  ASSUME ChannelInv, Acknowledged
  PROVE  ChannelInv'
<1>1. Typed /\ Invs /\ LinkTyped /\ PlatformTyped /\ WorkerTyped /\ JobsTyped
  BY InvParts DEF Typed
<1>2. /\ step = "ack" /\ rpc[Worker] = "ok" /\ acked' = Larger(acked, cursor)
      /\ step' = "select" /\ cursor' = 0 /\ turn' = NoJob
      /\ rpc' = [rpc EXCEPT ![Worker] = "none"]
      /\ UNCHANGED <<event, confirmed, pushed, link, wire, taken, queue,
                     job, settled, strayed, begun>>
  BY DEF Acknowledged, Ok, platformVars, linkVars, ghostVars
<1>3. /\ rpc \in [Callers -> RpcStates] /\ cursor # 0
      /\ rpc' \in [Callers -> RpcStates] /\ rpc'[Worker] = "none"
      /\ \A j \in Jobs : rpc'[j] = rpc[j]
  <2>1. rpc \in [Callers -> RpcStates] /\ cursor # 0  BY <1>1, <1>2 DEF WorkerTyped
  <2> QED  BY <1>2, <2>1, Apart DEF RpcStates
<1>4. Told' = Told  BY <1>2 DEF Told
<1>5. Lasting
  <2>1. Told \subseteq Told' /\ UNCHANGED event  BY <1>2, <1>4
  <2> QED  BY <1>1, <2>1, TellingLasts
<1>6. /\ cursor \in 1..Len(event) /\ acked \in 0..Len(event) /\ Len(event) \in Nat
      /\ acked' \in 0..Len(event) /\ acked <= acked' /\ cursor <= acked'
      /\ acked' \in {acked, cursor}
  <2>1. cursor \in 0..Len(event) /\ acked \in 0..Len(event) /\ Len(event) \in Nat
    BY <1>1 DEF WorkerTyped, PlatformTyped
  <2> QED  BY <1>2, <1>3, <2>1 DEF Larger
<1>7. /\ Done(cursor) /\ \A n \in 1..(cursor - 1) : Done(n)
      /\ \A n \in 1..acked : Done(n)
  BY <1>1, <1>2 DEF Invs, DoneInv
<1>8. HandledLasts  BY <1>5, <1>7 DEF HandledLasts, Handled, Lasting
<1>9. PlatformTyped' /\ LinkTyped' /\ WorkerTyped' /\ JobsTyped'
  <2>1. PlatformTyped'  BY <1>1, <1>2 DEF PlatformTyped
  <2>2. LinkTyped'  BY <1>1, <1>2 DEF LinkTyped
  <2>3. WorkerTyped'  BY <1>1, <1>2, <1>3, <1>6 DEF WorkerTyped, Steps
  <2>4. JobsTyped'  BY <1>1, <1>2 DEF JobsTyped
  <2> QED  BY <2>1, <2>2, <2>3, <2>4
<1>10. TurnInv'  BY <1>1, <1>2, <1>3 DEF Invs, TurnInv, Working
<1>11. Thin(0) /\ Fewer  BY <1>1, <1>2, SameLink
<1>12. FlightInv'
  <2>1. ASSUME NEW c \in Callers, rpc[c] = "sent"
        PROVE  (rpc'[c] = "sent" /\ Keeps(c)) \/ Absent(c)'
    <3>1. c # Worker /\ c \in Jobs  BY <1>2, <2>1, Apart
    <3> QED  BY <1>2, <1>3, <2>1, <3>1 DEF Keeps
  <2>2. 0 \in Nat  OBVIOUS
  <2> QED  BY <1>1, <1>9, <1>11, <2>1, <2>2, FlightThins DEF Invs
<1>13. AnswerInv'  BY <1>1, <1>2, <1>3, <1>4, <1>11, AnswersQuiet DEF Invs
<1>14. DoneInv'
  <2>1. \A n \in 1..acked' : Done(n)'
    <3>1. \A n \in 1..acked' : n \in 1..Len(event) /\ Done(n)
      <4>1. CASE acked' = acked  BY <1>6, <1>7, <4>1
      <4>2. CASE acked' = cursor
        <5>1. \A n \in 1..cursor : n = cursor \/ n \in 1..(cursor - 1)  BY <1>6
        <5> QED  BY <1>6, <1>7, <4>2, <5>1
      <4> QED  BY <1>6, <4>1, <4>2
    <3> QED  BY <1>5, <3>1 DEF Lasting
  <2> QED  BY <1>1, <1>2, <1>5, <2>1, DoneQuiet DEF Invs
<1>15. OrderInv'  BY <1>1, <1>2, <1>8, <1>9, <1>11, OrderQuiet DEF Invs
<1>16. BegunInv'
  <2>1. begun \subseteq Cursors /\ \A k \in begun \ {cursor} : k <= acked
    BY <1>1, <1>2 DEF PlatformTyped, Invs, BegunInv
  <2>2. \A k \in begun : k <= acked'
    <3> SUFFICES ASSUME NEW k \in begun PROVE k <= acked'  OBVIOUS
    <3>1. k \in Nat  BY <2>1 DEF Cursors
    <3> QED  BY <1>6, <2>1, <3>1
  <2> QED  BY <1>2, <2>2 DEF BegunInv
<1> QED
  BY <1>9, <1>10, <1>12, <1>13, <1>14, <1>15, <1>16 DEF ChannelInv

-----------------------------------------------------------------------------
(* The turns. *)

(* A step of a turn: the worker and the connection stay as they are, save  *)
(* for a question sent.                                                    *)
TurnFrame ==
    UNCHANGED <<event, confirmed, pushed, link, wire, queue, acked, step, cursor, turn,
                settled, strayed, begun>>

LEMMA TurnQuiet ==
  ASSUME ChannelInv, TurnFrame, rpc' \in [Callers -> RpcStates], rpc'[Worker] = rpc[Worker],
         JobsTyped', taken' \subseteq Request, \A r \in taken' : r.cursor <= Len(event),
         \A r \in taken' : r.method = "ack" => r \in taken
  PROVE  /\ PlatformTyped' /\ LinkTyped' /\ WorkerTyped' /\ DoneInv' /\ OrderInv' /\ BegunInv'
         /\ Told' = Told /\ Thin(0)
<1>1. Typed /\ Invs /\ LinkTyped /\ PlatformTyped /\ WorkerTyped  BY InvParts DEF Typed
<1>2. UNCHANGED <<event, confirmed, pushed, link, wire, queue, acked, step, cursor, turn,
                  settled, strayed, begun>>
  BY DEF TurnFrame
<1>3. Told' = Told  BY <1>2 DEF Told
<1>4. Lasting /\ HandledLasts  BY <1>1, <1>2, <1>3, HandledSame
<1>5. PlatformTyped'  BY <1>1, <1>2 DEF PlatformTyped
<1>6. LinkTyped'  BY <1>1, <1>2 DEF LinkTyped
<1>7. WorkerTyped'  BY <1>1, <1>2 DEF WorkerTyped
<1>8. Thin(0)  BY <1>1, <1>2, SameLink
<1>9. DoneInv'  BY <1>1, <1>2, <1>4, DoneQuiet DEF Invs
<1>10. OrderInv'  BY <1>1, <1>2, <1>4, <1>5, <1>6, <1>8, OrderQuiet DEF Invs
<1>11. BegunInv'  BY <1>1, <1>2 DEF Invs, BegunInv
<1> QED  BY <1>3, <1>5, <1>6, <1>7, <1>8, <1>9, <1>10, <1>11

LEMMA AskGood ==
  ASSUME ChannelInv, NEW j \in Jobs, Ask(j)
  PROVE  ChannelInv'
<1>1. Typed /\ Invs /\ LinkTyped /\ PlatformTyped /\ WorkerTyped /\ JobsTyped
  BY InvParts DEF Typed
<1>2. PICK n, m : /\ n = job[turn].cursor
                  /\ m = IF n = job[j].cursor THEN "question" ELSE "stray"
  OBVIOUS
<1>3. /\ job[j].step = "running" /\ turn # NoJob
      /\ job' = [job EXCEPT ![j].step = "asking", ![j].into = turn]
      /\ Call(j, m, n) /\ TurnFrame
  BY <1>2 DEF Ask, TurnFrame, platformVars, workerVars, ghostVars
<1>4. UNCHANGED <<event, wire, step, cursor, turn>>  BY <1>3 DEF TurnFrame
<1>5. turn \in Jobs /\ n = cursor /\ step \in Working \cup {"ack"}
  BY <1>1, <1>2, <1>3 DEF Invs, TurnInv
<1>6. n \in 1..Len(event) /\ n \in Cursors
  <2>1. cursor \in 0..Len(event) /\ cursor # 0  BY <1>1, <1>5 DEF WorkerTyped, Working
  <2>2. Len(event) \in Nat /\ Len(event) <= MaxEvents  BY <1>1 DEF PlatformTyped
  <2> QED  BY <1>5, <2>1, <2>2, BoundsType DEF Cursors
<1>7. m \in Question /\ m \in Method /\ m # "ack"  BY <1>2 DEF Question, Method
<1>8. j \in Callers /\ j # Worker  BY Apart
<1>9. /\ taken' \subseteq Request
      /\ \A r \in taken' : r \in taken \/ (r.method = m /\ r.cursor = n)
      /\ \A r \in taken' : r.cursor <= Len(event)
      /\ rpc' \in [Callers -> RpcStates] /\ rpc'[j] \in {"sent", "failed"}
      /\ \A d \in Callers : d # j => rpc'[d] = rpc[d]
  BY <1>1, <1>3, <1>6, <1>7, <1>8, CallFacts
<1>10. rpc'[Worker] = rpc[Worker]  BY <1>8, <1>9, Apart
<1>11. /\ JobsTyped' /\ job'[j].step = "asking" /\ job'[j].into = turn
       /\ \A i \in Jobs : i # j => job'[i] = job[i]
       /\ \A i \in Jobs : /\ job'[i].cursor = job[i].cursor
                          /\ job'[i].sentChoice = job[i].sentChoice
  <2>1. job \in [Jobs -> Turn]  BY <1>1 DEF JobsTyped
  <2> DEFINE t == [job[j] EXCEPT !.step = "asking", !.into = turn]
  <2>2. job[j] \in Turn  BY <2>1
  <2>3. /\ t \in Turn /\ t.step = "asking" /\ t.into = turn
        /\ t.cursor = job[j].cursor /\ t.sentChoice = job[j].sentChoice
    BY <1>5, <2>2 DEF Turn
  <2>4. job' = [job EXCEPT ![j] = t]  BY <1>3, <2>1
  <2> HIDE DEF t
  <2> QED  BY <2>1, <2>3, <2>4 DEF JobsTyped
<1>12. rpc[j] = "none"  BY <1>1, <1>3 DEF Invs, TurnInv
<1>13. \A i \in Jobs : job[i].step = "asking" =>
          job[i].into \in Jobs /\ job[job[i].into].cursor \in Cursors /\ i # j
  BY <1>1, <1>3 DEF Invs, TurnInv
<1>14. TurnInv'
  <2>1. /\ step' \in Working => turn' # NoJob
        /\ turn' # NoJob => /\ turn' \in Jobs /\ job'[turn'].cursor = cursor'
                            /\ step' \in Working \cup {"ack"}
    BY <1>1, <1>4, <1>5, <1>11 DEF Invs, TurnInv
  <2>2. \A i \in Jobs : i # j => rpc'[i] = rpc[i]  BY <1>9, Apart
  <2>3. ASSUME NEW i \in Jobs
        PROVE  IF job'[i].step = "asking"
               THEN job'[i].into \in Jobs /\ job'[job'[i].into].cursor \in Cursors
               ELSE job'[i].into = NoJob /\ rpc'[i] = "none"
    <3>1. CASE i = j
      <4>1. job'[turn].cursor = n  BY <1>2, <1>5, <1>11
      <4> QED  BY <1>5, <1>6, <1>11, <3>1, <4>1
    <3>2. CASE i # j
      <4>1. job'[i] = job[i] /\ rpc'[i] = rpc[i]  BY <1>11, <2>2, <3>2
      <4>2. CASE job[i].step = "asking"  BY <1>11, <1>13, <4>1, <4>2
      <4>3. CASE job[i].step # "asking"  BY <1>1, <4>1, <4>3 DEF Invs, TurnInv
      <4> QED  BY <4>2, <4>3
    <3> QED  BY <3>1, <3>2
  <2> QED  BY <2>1, <2>3 DEF TurnInv
<1>15. \A r \in taken' : r.method = "ack" => r \in taken  BY <1>7, <1>9
<1>16. /\ PlatformTyped' /\ LinkTyped' /\ WorkerTyped' /\ DoneInv' /\ OrderInv' /\ BegunInv'
       /\ Told' = Told /\ Thin(0)
  BY <1>3, <1>9, <1>10, <1>11, <1>15, TurnQuiet
<1>17. FlightInv'
  <2>1. \A d \in Callers \ {j} : Keeps(d)
    BY <1>4, <1>11, <1>13, Apart DEF Keeps
  <2>2. job'[j].step = "asking" /\ m \in Question /\ n = job'[job'[j].into].cursor
    BY <1>2, <1>5, <1>7, <1>11
  <2> QED  BY <1>1, <1>3, <1>4, <1>7, <1>8, <1>12, <1>16, <2>1, <2>2, FlightCalls DEF Invs
<1>18. AnswerInv'
  <2>1. \A i \in Jobs :
            /\ job'[i].step = "asking" /\ rpc'[i] = "ok" =>
                  /\ job[i].step = "asking" /\ rpc[i] = "ok"
                  /\ job'[job'[i].into].cursor = job[job[i].into].cursor
            /\ job'[i].sentChoice => job[i].sentChoice /\ job'[i].cursor = job[i].cursor
    <3>1. \A i \in Jobs : i # j => rpc'[i] = rpc[i]  BY <1>9, Apart
    <3> QED  BY <1>9, <1>11, <1>13, <3>1
  <2>2. 0 \in Nat  OBVIOUS
  <2> QED  BY <1>1, <1>4, <1>10, <1>16, <2>1, <2>2, AnswersQuiet DEF Invs
<1> QED
  BY <1>11, <1>14, <1>16, <1>17, <1>18 DEF ChannelInv


(* The question was shown, or not; the turn it went into remembers.        *)
LEMMA AskedGood ==
  ASSUME ChannelInv, NEW j \in Jobs, Asked(j)
  PROVE  ChannelInv'
<1>1. Typed /\ Invs /\ LinkTyped /\ PlatformTyped /\ WorkerTyped /\ JobsTyped
  BY InvParts DEF Typed
<1>2. /\ job[j].step = "asking" /\ rpc[j] # "sent"
      /\ job' = [i \in Jobs |->
                 [job[i] EXCEPT !.sentChoice = @ \/ (Ok(j) /\ i = job[j].into),
                                !.step = IF i = j THEN "asked" ELSE @,
                                !.into = IF i = j THEN NoJob ELSE @]]
      /\ rpc' = [rpc EXCEPT ![j] = "none"]
      /\ TurnFrame /\ UNCHANGED taken
  BY DEF Asked, Waits, TurnFrame, platformVars, linkVars, workerVars, ghostVars
<1>3. UNCHANGED <<event, wire, step, cursor, turn, taken>>  BY <1>2 DEF TurnFrame
<1>4. j \in Callers /\ j # Worker  BY Apart
<1>5. /\ rpc' \in [Callers -> RpcStates] /\ rpc'[j] = "none"
      /\ \A d \in Callers : d # j => rpc'[d] = rpc[d]
  <2>1. rpc \in [Callers -> RpcStates]  BY <1>1 DEF WorkerTyped
  <2> QED  BY <1>2, <1>4, <2>1 DEF RpcStates
<1>6. rpc'[Worker] = rpc[Worker]  BY <1>4, <1>5, Apart
<1>7. \A i \in Jobs : job[i] \in Turn  BY <1>1 DEF JobsTyped
<1>8. ASSUME NEW i \in Jobs
      PROVE  /\ job'[i] \in Turn /\ job'[i].cursor = job[i].cursor
             /\ job'[i].step = IF i = j THEN "asked" ELSE job[i].step
             /\ job'[i].into = IF i = j THEN NoJob ELSE job[i].into
             /\ job'[i].sentChoice => job[i].sentChoice \/ (rpc[j] = "ok" /\ i = job[j].into)
  <2>1. job[i] \in Turn /\ NoJob \in Jobs \cup {NoJob}  BY <1>7
  <2>2. (job[i].sentChoice \/ (Ok(j) /\ i = job[j].into)) \in BOOLEAN
    BY <2>1 DEF Turn
  <2>3. PICK b \in BOOLEAN : b = (job[i].sentChoice \/ (Ok(j) /\ i = job[j].into))
    BY <2>2
  <2>4. job'[i] = [job[i] EXCEPT !.sentChoice = b,
                                 !.step = IF i = j THEN "asked" ELSE job[i].step,
                                 !.into = IF i = j THEN NoJob ELSE job[i].into]
    BY <1>2, <2>3
  <2>5. /\ job'[i] \in Turn /\ job'[i].cursor = job[i].cursor /\ job'[i].sentChoice = b
        /\ job'[i].step = IF i = j THEN "asked" ELSE job[i].step
        /\ job'[i].into = IF i = j THEN NoJob ELSE job[i].into
    <3>1. CASE i = j
      <4>1. job'[i] = [job[i] EXCEPT !.sentChoice = b, !.step = "asked", !.into = NoJob]
        BY <2>4, <3>1
      <4> QED  BY <2>1, <3>1, <4>1 DEF Turn
    <3>2. CASE i # j
      <4>1. job'[i] = [job[i] EXCEPT !.sentChoice = b, !.step = job[i].step,
                                     !.into = job[i].into]
        BY <2>4, <3>2
      <4> QED  BY <2>1, <3>2, <4>1 DEF Turn
    <3> QED  BY <3>1, <3>2
  <2> QED  BY <2>3, <2>5 DEF Ok
<1>9. JobsTyped'  BY <1>2, <1>8 DEF JobsTyped
<1>10. \A r \in taken' : r.method = "ack" => r \in taken  BY <1>3
<1>11. taken' \subseteq Request /\ \A r \in taken' : r.cursor <= Len(event)
  BY <1>1, <1>3 DEF LinkTyped
<1>12. /\ PlatformTyped' /\ LinkTyped' /\ WorkerTyped' /\ DoneInv' /\ OrderInv' /\ BegunInv'
       /\ Told' = Told /\ Thin(0)
  BY <1>2, <1>5, <1>6, <1>9, <1>10, <1>11, TurnQuiet
<1>13. \A i \in Jobs : IF job[i].step = "asking"
                       THEN job[i].into \in Jobs /\ job[job[i].into].cursor \in Cursors
                       ELSE job[i].into = NoJob /\ rpc[i] = "none"
  BY <1>1 DEF Invs, TurnInv
<1>14. \A i \in Jobs : i # j => rpc'[i] = rpc[i]  BY <1>5, Apart
<1>15. TurnInv'
  <2>1. /\ step' \in Working => turn' # NoJob
        /\ turn' # NoJob => /\ turn' \in Jobs /\ job'[turn'].cursor = cursor'
                            /\ step' \in Working \cup {"ack"}
    BY <1>1, <1>3, <1>8 DEF Invs, TurnInv
  <2>2. \A i \in Jobs : IF job'[i].step = "asking"
                        THEN job'[i].into \in Jobs /\ job'[job'[i].into].cursor \in Cursors
                        ELSE job'[i].into = NoJob /\ rpc'[i] = "none"
    BY <1>5, <1>8, <1>13, <1>14
  <2> QED  BY <2>1, <2>2 DEF TurnInv
<1>16. FlightInv'
  <2>1. ASSUME NEW c \in Callers, rpc[c] = "sent"
        PROVE  (rpc'[c] = "sent" /\ Keeps(c)) \/ Absent(c)'
    <3>1. c # j /\ rpc'[c] = "sent"  BY <1>2, <1>5, <2>1
    <3>2. Keeps(c)  BY <1>3, <1>8, <1>13, <3>1, Apart DEF Keeps
    <3> QED  BY <3>1, <3>2
  <2>2. \A r \in taken : r \in taken'  BY <1>3
  <2>3. Fewer /\ 0 \in Nat  BY <1>3 DEF Fewer
  <2> QED  BY <1>1, <1>12, <2>1, <2>3, FlightThins DEF Invs
<1>17. AnswerInv'
  <2>1. \A i \in DOMAIN wire' : wire'[i].method \in Tells /\ wire'[i].ok
           => wire'[i].cursor \in Told'
    BY <1>1, <1>3, <1>12 DEF Invs, AnswerInv
  <2>2. step' = "answer" /\ rpc'[Worker] = "ok" => cursor' \in Told'
    BY <1>1, <1>3, <1>6, <1>12 DEF Invs, AnswerInv
  <2>3. ASSUME NEW i \in Jobs, job'[i].step = "asking", rpc'[i] = "ok"
        PROVE  job'[job'[i].into].cursor \in Told'
    <3>1. /\ i # j /\ job[i].step = "asking" /\ rpc[i] = "ok" /\ job'[i].into = job[i].into
      BY <1>5, <1>8, <1>14, <2>3
    <3>2. job[job[i].into].cursor \in Told /\ job[i].into \in Jobs
      BY <1>1, <1>13, <3>1 DEF Invs, AnswerInv
    <3> QED  BY <1>8, <1>12, <3>1, <3>2
  <2>4. ASSUME NEW i \in Jobs, job'[i].sentChoice PROVE job'[i].cursor \in Told'
    <3>1. job[i].sentChoice \/ (rpc[j] = "ok" /\ i = job[j].into)  BY <1>8, <2>4
    <3>2. job[i].cursor \in Told  BY <1>1, <1>2, <3>1 DEF Invs, AnswerInv
    <3> QED  BY <1>8, <1>12, <3>2
  <2> QED  BY <2>1, <2>2, <2>3, <2>4 DEF AnswerInv
<1> QED
  BY <1>9, <1>12, <1>15, <1>16, <1>17 DEF ChannelInv

LEMMA EndTurnGood ==
  ASSUME ChannelInv, NEW j \in Jobs, NEW outcome \in Outcome, EndTurn(j, outcome)
  PROVE  ChannelInv'
<1>1. Typed /\ Invs /\ LinkTyped /\ PlatformTyped /\ WorkerTyped /\ JobsTyped
  BY InvParts DEF Typed
<1>2. PICK t \in Outcome \cup {"idle"} : t = IF turn = j THEN outcome ELSE "idle"  OBVIOUS
<1>3. /\ job[j].step \in {"running", "asked"} /\ job' = [job EXCEPT ![j].step = t]
      /\ TurnFrame /\ UNCHANGED <<rpc, taken>>
  BY <1>2 DEF EndTurn, TurnFrame, platformVars, linkVars, workerVars, ghostVars
<1>4. UNCHANGED <<event, wire, step, cursor, turn, taken, rpc>>  BY <1>3 DEF TurnFrame
<1>5. job \in [Jobs -> Turn]  BY <1>1 DEF JobsTyped
<1>6. /\ [job[j] EXCEPT !.step = t] \in Turn
      /\ [job[j] EXCEPT !.step = t].step = t
      /\ [job[j] EXCEPT !.step = t].cursor = job[j].cursor
      /\ [job[j] EXCEPT !.step = t].into = job[j].into
      /\ [job[j] EXCEPT !.step = t].sentChoice = job[j].sentChoice
  <2>1. job[j] \in Turn  BY <1>5
  <2> QED  BY <2>1 DEF Turn
<1>7. /\ JobsTyped'
      /\ \A i \in Jobs : /\ job'[i].cursor = job[i].cursor /\ job'[i].into = job[i].into
                         /\ job'[i].sentChoice = job[i].sentChoice
                         /\ job'[i].step = "asking" <=> job[i].step = "asking"
  <2>1. job' = [job EXCEPT ![j] = [job[j] EXCEPT !.step = t]]  BY <1>3, <1>5
  <2>2. t # "asking" /\ job[j].step # "asking"  BY <1>3 DEF Outcome
  <2> QED  BY <1>5, <1>6, <2>1, <2>2 DEF JobsTyped
<1>8. \A r \in taken' : r.method = "ack" => r \in taken  BY <1>4
<1>9. /\ taken' \subseteq Request /\ \A r \in taken' : r.cursor <= Len(event)
      /\ rpc' \in [Callers -> RpcStates] /\ rpc'[Worker] = rpc[Worker]
  BY <1>1, <1>4 DEF LinkTyped, WorkerTyped
<1>10. /\ PlatformTyped' /\ LinkTyped' /\ WorkerTyped' /\ DoneInv' /\ OrderInv' /\ BegunInv'
       /\ Told' = Told /\ Thin(0)
  BY <1>3, <1>7, <1>8, <1>9, TurnQuiet
<1>11. \A i \in Jobs : IF job[i].step = "asking"
                       THEN job[i].into \in Jobs /\ job[job[i].into].cursor \in Cursors
                       ELSE job[i].into = NoJob /\ rpc[i] = "none"
  BY <1>1 DEF Invs, TurnInv
<1>12. TurnInv'
  <2>1. /\ step' \in Working => turn' # NoJob
        /\ turn' # NoJob => /\ turn' \in Jobs /\ job'[turn'].cursor = cursor'
                            /\ step' \in Working \cup {"ack"}
    BY <1>1, <1>4, <1>7 DEF Invs, TurnInv
  <2>2. \A i \in Jobs : IF job'[i].step = "asking"
                        THEN job'[i].into \in Jobs /\ job'[job'[i].into].cursor \in Cursors
                        ELSE job'[i].into = NoJob /\ rpc'[i] = "none"
    BY <1>4, <1>7, <1>11
  <2> QED  BY <2>1, <2>2 DEF TurnInv
<1>13. FlightInv'
  <2>1. \A c \in Callers : Keeps(c)  BY <1>4, <1>7, <1>11, Apart DEF Keeps
  <2>2. Fewer /\ 0 \in Nat  BY <1>4 DEF Fewer
  <2> QED  BY <1>1, <1>4, <1>10, <2>1, <2>2, FlightThins DEF Invs
<1>14. AnswerInv'
  <2>1. \A i \in Jobs :
            /\ job'[i].step = "asking" /\ rpc'[i] = "ok" =>
                  /\ job[i].step = "asking" /\ rpc[i] = "ok"
                  /\ job'[job'[i].into].cursor = job[job[i].into].cursor
            /\ job'[i].sentChoice => job[i].sentChoice /\ job'[i].cursor = job[i].cursor
    BY <1>4, <1>7, <1>11
  <2>2. 0 \in Nat  OBVIOUS
  <2> QED  BY <1>1, <1>4, <1>10, <2>1, <2>2, AnswersQuiet DEF Invs
<1> QED
  BY <1>7, <1>10, <1>12, <1>13, <1>14 DEF ChannelInv

-----------------------------------------------------------------------------
(* The inductive invariant. *)

LEMMA ChannelInvInit ==
  ASSUME JiyingInit
  PROVE  ChannelInv
<1>1. /\ event = <<>> /\ confirmed = 0 /\ pushed = 0 /\ taken = {}
      /\ link = "down" /\ wire = <<>> /\ queue = <<>>
      /\ acked = 0 /\ step = "off" /\ cursor = 0 /\ turn = NoJob
      /\ rpc = [c \in Callers |-> "none"] /\ job = [j \in Jobs |-> Idle]
      /\ settled = {} /\ strayed = {} /\ begun = {}
  BY DEF JiyingInit
<1>2. /\ event \in Seq(Kind) /\ wire \in Seq(Frame) /\ queue \in Seq(Cursors) /\ Len(event) = 0
      /\ DOMAIN wire = {} /\ DOMAIN queue = {}
  BY <1>1
<1>3. /\ rpc \in [Callers -> RpcStates] /\ \A c \in Callers : rpc[c] = "none"
  BY <1>1 DEF RpcStates
<1>4. /\ Idle \in Turn /\ Idle.step = "idle" /\ Idle.into = NoJob /\ Idle.sentChoice = FALSE
  BY BoundsType DEF Idle, Turn
<1>5. rpc[Worker] = "none" /\ \A j \in Jobs : rpc[j] = "none"  BY <1>3, Apart
<1>6. PlatformTyped  BY <1>1, <1>2, BoundsType DEF PlatformTyped
<1>7. LinkTyped  BY <1>1, <1>2 DEF LinkTyped
<1>8. WorkerTyped  BY <1>1, <1>2, <1>3, <1>5 DEF WorkerTyped, Steps
<1>9. JobsTyped /\ \A j \in Jobs : job[j] = Idle  BY <1>1, <1>4 DEF JobsTyped
<1>10. TurnInv  BY <1>1, <1>4, <1>5, <1>9 DEF TurnInv, Working
<1>11. FlightInv  BY <1>1, <1>2 DEF FlightInv
<1>12. AnswerInv  BY <1>1, <1>2, <1>4, <1>9 DEF AnswerInv
<1>13. DoneInv  BY <1>1 DEF DoneInv
<1>14. OrderInv  BY <1>1, <1>2 DEF OrderInv
<1>15. BegunInv  BY <1>1 DEF BegunInv
<1> QED
  BY <1>6, <1>7, <1>8, <1>9, <1>10, <1>11, <1>12, <1>13, <1>14, <1>15 DEF ChannelInv

LEMMA WorkerGood ==
  ASSUME ChannelInv, WorkerStep \/ SendReceipt
  PROVE  ChannelInv'
<1>1. CASE Connect  BY <1>1, ConnectGood
<1>2. CASE ReadError  BY <1>2, GiveUpGood DEF ReadError
<1>3. CASE TakeEvent  BY <1>3, TakeGood
<1>4. CASE TopicMade  BY <1>4, TopicGood
<1>5. CASE ReceiptSent  BY <1>5, ReceiptSentGood
<1>6. CASE FinishTurn  BY <1>6, FinishGood
<1>7. CASE ReplySent  BY <1>7, ReplySentGood
<1>8. CASE Acknowledged  BY <1>8, AcknowledgedGood
<1>9. CASE RequestFails  BY <1>9, GiveUpGood DEF RequestFails
<1>10. CASE SendReceipt  BY <1>10, SendReceiptGood
<1>11. CASE TakeMalformed  BY <1>11, GiveUpGood DEF TakeMalformed
<1> QED
  BY <1>1, <1>2, <1>3, <1>4, <1>5, <1>6, <1>7, <1>8, <1>9, <1>10, <1>11 DEF WorkerStep

LEMMA StillGood ==
  ASSUME ChannelInv, UNCHANGED vars
  PROVE  ChannelInv'
<1>1. UNCHANGED <<event, confirmed, pushed, link, wire, taken, queue, acked, step, cursor, turn,
                  rpc, job, mishaps, settled, strayed, begun>>
  BY DEF vars, platformVars, linkVars, workerVars, ghostVars
<1>2. Typed /\ Invs  BY InvParts
<1>3. Typed'
  BY <1>1, <1>2 DEF Typed, PlatformTyped, LinkTyped, WorkerTyped, JobsTyped
<1>4. TurnInv' /\ BegunInv'  BY <1>1, <1>2 DEF Invs, TurnInv, BegunInv
<1>5. FlightInv'  BY <1>1, <1>2 DEF Invs, FlightInv, Matches
<1>6. AnswerInv'  BY <1>1, <1>2 DEF Invs, AnswerInv, Told
<1>7. DoneInv'  BY <1>1, <1>2 DEF Invs, DoneInv, Done, Told
<1>8. OrderInv'  BY <1>1, <1>2 DEF Invs, OrderInv, Handled, Done, Told, Queued, Wired
<1> QED  BY <1>3, <1>4, <1>5, <1>6, <1>7, <1>8 DEF ChannelInv, Typed

LEMMA ChannelInvStep ==
  ASSUME ChannelInv, [JiyingNext]_vars
  PROVE  ChannelInv'
<1>1. ASSUME NEW k \in Kind, Issue(k) PROVE ChannelInv'  BY <1>1, IssueGood
<1>2. CASE Push \/ \E n \in 1..MaxEvents : Redeliver(n)
  BY <1>2, PushGood DEF PushAndRedeliver
<1>3. ASSUME NEW r \in taken, Serve(r) \/ Lose(r) \/ Refuse(r) PROVE ChannelInv'
  BY <1>3, ServeGood, LoseGood
<1>4. ASSUME NEW n \in 0..Len(wire), Break(n) PROVE ChannelInv'  BY <1>4, BreakGood
<1>5. CASE Read  BY <1>5, ReadGood
<1>6. ASSUME NEW c \in Callers, TimeOut(c) \/ TooLate(c) PROVE ChannelInv'
  <2>1. rpc[c] = "sent" /\ Expire(c)  BY <1>6 DEF TimeOut, TooLate, Overdue, Waits
  <2> QED  BY <2>1, ExpireGood
<1>7. CASE WorkerStep \/ SendReceipt  BY <1>7, WorkerGood
<1>8. ASSUME NEW j \in Jobs, Ask(j) \/ TurnStep(j) PROVE ChannelInv'
  BY <1>8, AskGood, AskedGood, EndTurnGood DEF TurnStep
<1>9. CASE Crash  BY <1>9, CrashGood
<1>10. CASE UNCHANGED vars  BY <1>10, StillGood
<1>11. CASE Quiet  BY <1>11, QuietGood
<1> QED
  BY <1>1, <1>2, <1>3, <1>4, <1>5, <1>6, <1>7, <1>8, <1>9, <1>10, <1>11 DEF JiyingNext

(* In every behaviour of the adapter, whatever its bounds: the connection, *)
(* the worker and the turns are in step, and what is acknowledged is done. *)
LEMMA ChannelInvariant == JiyingSpec => []ChannelInv
<1>1. JiyingInit => ChannelInv  BY ChannelInvInit
<1>2. ChannelInv /\ [JiyingNext]_vars => ChannelInv'  BY ChannelInvStep
<1> QED  BY <1>1, <1>2, PTL DEF JiyingSpec

(* Of every event the platform need not send again, the user was told      *)
(* something, unless the turn had nothing to say or the event called for   *)
(* nothing (finishTurn, which acknowledges after the reply, and ack).      *)
THEOREM AcknowledgedIsAnswered == JiyingSpec => []AckedWasAnswered
<1>1. ChannelInv => AckedWasAnswered
  BY DEF ChannelInv, DoneInv, Done, Told, AckedWasAnswered
<1> QED  BY <1>1, ChannelInvariant, PTL


-----------------------------------------------------------------------------
(* A turn is begun in two of the worker's steps, and in none of the others. *)

BeginsNew == \A n \in begun : step # "turn" /\ step' = "turn" => cursor' # n

LEMMA OnlyTwoBegin ==
  ASSUME [JiyingNext]_vars, step # "turn", step' = "turn"
  PROVE  TakeEvent \/ TopicMade
<1>1. ASSUME UNCHANGED step PROVE FALSE  BY <1>1
<1>2. ASSUME UNCHANGED workerVars PROVE FALSE  BY <1>1, <1>2 DEF workerVars
<1>3. ASSUME NEW k \in Kind, Issue(k) PROVE FALSE  BY <1>2, <1>3 DEF Issue
<1>4. ASSUME Push \/ \E n \in 1..MaxEvents : Redeliver(n) PROVE FALSE
  BY <1>2, <1>4 DEF Push, Redeliver
<1>5. ASSUME NEW r \in taken, Serve(r) \/ Lose(r) \/ Refuse(r) PROVE FALSE
  BY <1>2, <1>5 DEF Serve, Lose, Refuse
<1>6. ASSUME NEW n \in 0..Len(wire), Break(n) PROVE FALSE  BY <1>2, <1>6 DEF Break
<1>7. ASSUME Read PROVE FALSE  BY <1>1, <1>7 DEF Read
<1>8. ASSUME NEW c \in Callers, TimeOut(c) \/ TooLate(c) PROVE FALSE
  BY <1>2, <1>8 DEF TimeOut, TooLate, Expire
<1>9. ASSUME Connect \/ ReadError \/ TakeMalformed \/ RequestFails \/ Crash PROVE FALSE
  BY <1>9 DEF Connect, ReadError, TakeMalformed, RequestFails, GiveUp, Hang, Crash
<1>10. ASSUME SendReceipt \/ ReceiptSent \/ FinishTurn \/ ReplySent \/ Acknowledged PROVE FALSE
  BY <1>10 DEF SendReceipt, ReceiptSent, FinishTurn, ReplySent, Acknowledged, Acknowledge
<1>11. ASSUME NEW j \in Jobs, Ask(j) \/ TurnStep(j) PROVE FALSE
  BY <1>2, <1>11 DEF Ask, TurnStep, Asked, EndTurn
<1>12. ASSUME UNCHANGED vars PROVE FALSE  BY <1>2, <1>12 DEF vars
<1>13. ASSUME Quiet PROVE FALSE  BY <1>2, <1>13 DEF Quiet
<1> QED
  BY <1>3, <1>4, <1>5, <1>6, <1>7, <1>8, <1>9, <1>10, <1>11, <1>12, <1>13
  DEF JiyingNext, WorkerStep

LEMMA BeginsNewStep ==
  ASSUME ChannelInv, [JiyingNext]_vars
  PROVE  BeginsNew
<1> SUFFICES ASSUME step # "turn", step' = "turn" PROVE cursor' \notin begun
  BY DEF BeginsNew
<1>1. Typed /\ Invs /\ LinkTyped /\ PlatformTyped /\ WorkerTyped  BY InvParts DEF Typed
<1>2. CASE TakeEvent
  <2>1. PICK n : n = Head(queue)  OBVIOUS
  <2>2. step = "select" /\ queue # <<>> /\ HandleEvent(n)  BY <1>2, <2>1 DEF TakeEvent
  <2>3. /\ queue \in Seq(Cursors) /\ \A i \in DOMAIN queue : queue[i] \in 1..Len(event)
        /\ DOMAIN queue = 1..Len(queue) /\ Len(queue) \in Nat /\ Len(event) \in Nat
    BY <1>1, WireFacts
  <2>4. n \in Nat /\ n >= 1
    <3>1. n = queue[1] /\ 1 \in DOMAIN queue  BY <2>1, <2>2, <2>3
    <3>2. n \in 1..Len(event)  BY <2>3, <3>1
    <3> QED  BY <2>3, <3>2
  <2>5. ~IsDuplicate(n) /\ cursor' = n
    BY <2>2 DEF HandleEvent, Acknowledge, BeginTurn
  <2>6. acked \in Nat /\ acked < n
    <3>1. acked \in Nat  BY <1>1, <2>3 DEF WorkerTyped
    <3> QED  BY <2>4, <2>5, <3>1 DEF IsDuplicate
  <2>7. cursor = 0  BY <1>1, <2>2 DEF WorkerTyped
  <2>8. \A k \in begun \ {cursor} : k <= acked  BY <1>1, <2>2 DEF Invs, BegunInv
  <2> QED  BY <2>4, <2>5, <2>6, <2>7, <2>8
<1>3. CASE TopicMade
  BY <1>1, <1>3 DEF TopicMade, BeginTurn, Invs, BegunInv
<1> QED  BY <1>2, <1>3, OnlyTwoBegin

(* An event that the platform delivers twice on one connection is put to   *)
(* the agent once, however the worker, the reader and the turns interleave *)
(* (IsDuplicate in handleEvent).                                           *)
THEOREM OneTurnEach == JiyingSpec => OneTurnPerConnection
<1>1. ChannelInv /\ [JiyingNext]_vars => [BeginsNew]_vars  BY BeginsNewStep
<1>2. JiyingSpec => [][BeginsNew]_vars  BY <1>1, ChannelInvariant, PTL DEF JiyingSpec
<1>3. [][BeginsNew]_vars <=> OneTurnPerConnection  BY PTL DEF BeginsNew, OneTurnPerConnection
<1> QED  BY <1>2, <1>3

-----------------------------------------------------------------------------
(* The refinement.  A step of the adapter tells one user at most, and      *)
(* whatever is on its way to be told is of an event before which all are   *)
(* done.                                                                   *)

ToldInOrder == \A r \in taken : \A n \in 1..(r.cursor - 1) : Done(n)

(* Requests come from what the worker has in its hands.                    *)
FromTheHands ==
    \A r \in taken' : (\E o \in taken : o.cursor = r.cursor) \/ r.cursor = cursor'

LEMMA CallFromTheHands ==
  ASSUME NEW c, NEW m, NEW n, Call(c, m, n), n = cursor'
  PROVE  FromTheHands
<1> DEFINE q == [by |-> IF link = "open" THEN c ELSE Nobody, method |-> m, cursor |-> n]
<1>1. taken' = taken \/ taken' = taken \cup {q}  BY DEF Call
<1>2. q.cursor = n  OBVIOUS
<1> HIDE DEF q
<1> QED  BY <1>1, <1>2 DEF FromTheHands

LEMMA ThinnedFromTheHands ==
  ASSUME Typed, taken' \subseteq taken \/ taken' = Abandoned
  PROVE  FromTheHands
<1>1. taken' = Abandoned => Fewer  BY AbandonedFacts
<1> QED  BY <1>1 DEF FromTheHands, Fewer

LEMMA RequestsFromTheHands ==
  ASSUME ChannelInv, [JiyingNext]_vars
  PROVE  FromTheHands
<1>1. Typed /\ Invs  BY InvParts
<1>2. ASSUME taken' \subseteq taken \/ taken' = Abandoned PROVE FromTheHands
  BY <1>1, <1>2, ThinnedFromTheHands
<1>3. ASSUME NEW k \in Kind, Issue(k) PROVE FromTheHands  BY <1>2, <1>3 DEF Issue, linkVars
<1>4. ASSUME Push \/ \E n \in 1..MaxEvents : Redeliver(n) PROVE FromTheHands
  BY <1>2, <1>4 DEF Push, Redeliver
<1>5. ASSUME NEW r \in taken, Serve(r) \/ Lose(r) \/ Refuse(r) PROVE FromTheHands
  BY <1>2, <1>5 DEF Serve, Lose, Refuse
<1>6. ASSUME NEW n \in 0..Len(wire), Break(n) PROVE FromTheHands  BY <1>2, <1>6 DEF Break
<1>16. CASE Quiet  BY <1>2, <1>16 DEF Quiet
<1>7. ASSUME Read PROVE FromTheHands  BY <1>2, <1>7 DEF Read
<1>8. ASSUME NEW c \in Callers, TimeOut(c) \/ TooLate(c) PROVE FromTheHands
  <2>1. taken' = {IF r.by = c THEN [r EXCEPT !.by = Nobody] ELSE r : r \in taken}
    BY <1>8 DEF TimeOut, TooLate, Expire
  <2>2. \A r \in taken : [r EXCEPT !.by = Nobody].cursor = r.cursor
    <3>1. \A r \in taken : r \in Request  BY <1>1 DEF Typed, LinkTyped
    <3> QED  BY <3>1 DEF Request
  <2> QED  BY <2>1, <2>2 DEF FromTheHands
<1>9. CASE ReadError \/ TakeMalformed \/ RequestFails \/ Crash
  BY <1>2, <1>9 DEF ReadError, TakeMalformed, RequestFails, GiveUp, Hang, Crash
<1>10. CASE Connect \/ TopicMade \/ ReceiptSent \/ Acknowledged
  BY <1>2, <1>10 DEF Connect, TopicMade, ReceiptSent, Acknowledged, linkVars
<1>11. CASE TakeEvent
  <2>1. PICK n : n = Head(queue)  OBVIOUS
  <2>2. HandleEvent(n)  BY <1>11, <2>1 DEF TakeEvent
  <2>3. CASE taken' = taken  BY <1>2, <2>3
  <2>4. CASE cursor' = n /\ \E m \in {"ack", "topic"} : Call(Worker, m, n)
    BY <2>4, CallFromTheHands
  <2> QED  BY <2>2, <2>3, <2>4 DEF HandleEvent, Acknowledge
<1>12. CASE SendReceipt \/ FinishTurn \/ ReplySent
  <2>1. cursor' = cursor /\ \E m \in {"receipt", "answer", "ack"} : Call(Worker, m, cursor)
    BY <1>12 DEF SendReceipt, FinishTurn, ReplySent, Acknowledge
  <2> QED  BY <2>1, CallFromTheHands
<1>13. ASSUME NEW j \in Jobs, Ask(j) PROVE FromTheHands
  <2>1. job[turn].cursor = cursor
    BY <1>1, <1>13 DEF Ask, Invs, TurnInv
  <2>2. cursor' = cursor /\ \E m : Call(j, m, cursor)
    BY <1>13, <2>1 DEF Ask, workerVars
  <2> QED  BY <2>2, CallFromTheHands
<1>14. ASSUME NEW j \in Jobs, TurnStep(j) PROVE FromTheHands
  BY <1>2, <1>14 DEF TurnStep, Asked, EndTurn, linkVars
<1>15. CASE UNCHANGED vars  BY <1>2, <1>15 DEF vars, linkVars
<1> QED
  BY <1>3, <1>4, <1>5, <1>6, <1>7, <1>8, <1>9, <1>10, <1>11, <1>12, <1>13, <1>14, <1>15,
     <1>16
  DEF JiyingNext, WorkerStep

(* Each step is one of the inbox's, or a stutter. *)
TellsOne == \E n \in 1..Len(event) :
    /\ Told' = Told \cup {n} /\ UNCHANGED <<event, confirmed>>
    /\ n = cursor \/ \E r \in taken : r.cursor = n
Forgets == \E r \in taken :
    /\ r.method = "ack" /\ confirmed < r.cursor /\ confirmed' = r.cursor
    /\ UNCHANGED <<event, settled, strayed>>
Arrives == \E k \in Kind : event' = Append(event, k) /\ UNCHANGED <<confirmed, settled, strayed>>

InboxStep == TellsOne \/ Forgets \/ Arrives \/ UNCHANGED <<event, confirmed, settled, strayed>>

LEMMA WhatTheUserSees ==
  ASSUME ChannelInv, [JiyingNext]_vars
  PROVE  InboxStep
<1>1. Typed /\ Invs /\ PlatformTyped /\ LinkTyped /\ WorkerTyped  BY InvParts DEF Typed
<1>2. ASSUME UNCHANGED <<event, confirmed>>, UNCHANGED <<settled, strayed>> PROVE InboxStep
  BY <1>2 DEF InboxStep
<1>3. ASSUME NEW k \in Kind, Issue(k) PROVE InboxStep
  BY <1>3 DEF Issue, ghostVars, Arrives, InboxStep
<1>4. ASSUME NEW r \in taken, Serve(r) PROVE InboxStep
  <2>1. /\ confirmed' = IF r.method = "ack" THEN Larger(confirmed, r.cursor) ELSE confirmed
        /\ settled' = IF r.method \in {"answer", "question"} THEN settled \cup {r.cursor} ELSE settled
        /\ strayed' = IF r.method = "stray" THEN strayed \cup {r.cursor} ELSE strayed
        /\ event' = event
    BY <1>4 DEF Serve, Show
  <2>2. r.cursor \in 1..Len(event)
    <3>1. r.cursor \in Cursors /\ r.cursor <= Len(event) /\ Len(event) \in Nat
      BY <1>1, CallersOf DEF LinkTyped, PlatformTyped
    <3> QED  BY <3>1 DEF Cursors
  <2>3. CASE r.method = "ack"
    <3>1. confirmed' = Larger(confirmed, r.cursor) /\ UNCHANGED <<event, settled, strayed>>
      BY <2>1, <2>3
    <3>2. CASE confirmed' = confirmed  BY <1>2, <3>1, <3>2
    <3>3. CASE confirmed' # confirmed
      <4>1. confirmed' = r.cursor /\ ~ (confirmed > r.cursor)  BY <3>1, <3>3 DEF Larger
      <4>2. confirmed \in Nat /\ r.cursor \in Nat /\ Len(event) \in Nat
        <5>1. Len(event) \in Nat /\ confirmed \in 0..Len(event)  BY <1>1 DEF PlatformTyped
        <5> QED  BY <2>2, <5>1
      <4>3. confirmed < r.cursor  BY <3>3, <4>1, <4>2
      <4> QED  BY <2>3, <3>1, <4>1, <4>3 DEF Forgets, InboxStep
    <3> QED  BY <3>2, <3>3
  <2>4. CASE r.method \in {"answer", "question", "stray"}
    <3>1. Told' = Told \cup {r.cursor} /\ UNCHANGED <<event, confirmed>>
      BY <2>1, <2>4 DEF Told
    <3> QED  BY <2>2, <3>1 DEF TellsOne, InboxStep
  <2>5. CASE r.method \notin {"ack", "answer", "question", "stray"}
    BY <1>2, <2>1, <2>5
  <2> QED  BY <2>3, <2>4, <2>5
<1>5. CASE FinishTurn
  <2>1. /\ UNCHANGED <<event, confirmed, strayed>>
        /\ settled' = settled \/ settled' = settled \cup {cursor}
        /\ step \in {"turn", "waiting"}
    BY <1>5 DEF FinishTurn, platformVars
  <2>2. cursor \in 1..Len(event)
    <3>1. cursor \in 0..Len(event) /\ cursor # 0 /\ Len(event) \in Nat
      BY <1>1, <2>1 DEF WorkerTyped, PlatformTyped
    <3> QED  BY <3>1
  <2>3. CASE settled' = settled  BY <1>2, <2>1, <2>3
  <2>4. CASE settled' = settled \cup {cursor}
    <3>1. Told' = Told \cup {cursor}  BY <2>1, <2>4 DEF Told
    <3> QED  BY <2>1, <2>2, <3>1 DEF TellsOne, InboxStep
  <2> QED  BY <2>1, <2>3, <2>4
<1>6. ASSUME Push \/ \E n \in 1..MaxEvents : Redeliver(n) PROVE InboxStep
  BY <1>2, <1>6 DEF Push, Redeliver, platformVars, ghostVars
<1>7. ASSUME NEW r \in taken, Lose(r) \/ Refuse(r) PROVE InboxStep
  BY <1>2, <1>7 DEF Lose, Refuse, platformVars, ghostVars
<1>8. ASSUME NEW n \in 0..Len(wire), Break(n) PROVE InboxStep
  BY <1>2, <1>8 DEF Break, platformVars, ghostVars
<1>15. CASE Quiet  BY <1>2, <1>15 DEF Quiet, platformVars, ghostVars
<1>9. CASE Read  BY <1>2, <1>9 DEF Read, platformVars, ghostVars
<1>10. ASSUME NEW c \in Callers, TimeOut(c) \/ TooLate(c) PROVE InboxStep
  BY <1>2, <1>10 DEF TimeOut, TooLate, Expire, platformVars, ghostVars
<1>11. CASE WorkerStep \/ SendReceipt
  BY <1>2, <1>5, <1>11 DEF WorkerStep, Connect, ReadError, TakeEvent, TakeMalformed, TopicMade,
     ReceiptSent, ReplySent, Acknowledged, RequestFails, SendReceipt, GiveUp, Hang, platformVars, ghostVars
<1>12. ASSUME NEW j \in Jobs, Ask(j) \/ TurnStep(j) PROVE InboxStep
  BY <1>2, <1>12 DEF Ask, TurnStep, Asked, EndTurn, platformVars, ghostVars
<1>13. CASE Crash  BY <1>2, <1>13 DEF Crash, platformVars, ghostVars
<1>14. CASE UNCHANGED vars  BY <1>2, <1>14 DEF vars, platformVars, ghostVars
<1> QED
  BY <1>3, <1>4, <1>6, <1>7, <1>8, <1>9, <1>10, <1>11, <1>12, <1>13, <1>14, <1>15
  DEF JiyingNext

(* Nothing that is done is undone. *)
LEMMA NothingIsTakenBack ==
  ASSUME ChannelInv, [JiyingNext]_vars
  PROVE  Lasting /\ Len(event) \in Nat
<1>1. PlatformTyped  BY DEF ChannelInv
<1>2. Told \subseteq Told' /\ (event' = event \/ \E k \in Kind : event' = Append(event, k))
  BY WhatTheUserSees DEF InboxStep, TellsOne, Forgets, Arrives, Told
<1> QED  BY <1>1, <1>2, TellingLasts DEF PlatformTyped

LEMMA ToldInOrderStep ==
  ASSUME ChannelInv, ChannelInv', ToldInOrder, [JiyingNext]_vars
  PROVE  ToldInOrder'
<1>1. Lasting /\ FromTheHands /\ Len(event) \in Nat
  BY NothingIsTakenBack, RequestsFromTheHands
<1>2. \A o \in taken : o.cursor \in 1..Len(event)
  <2>1. \A o \in taken : o.cursor \in Cursors /\ o.cursor <= Len(event)
    BY CallersOf DEF ChannelInv, LinkTyped
  <2> QED  BY <1>1, <2>1 DEF Cursors
<1>3. ASSUME NEW r \in taken' PROVE \A n \in 1..(r.cursor - 1) : Done(n)'
  <2>1. CASE \E o \in taken : o.cursor = r.cursor
    <3>1. r.cursor \in 1..Len(event) /\ \A n \in 1..(r.cursor - 1) : Done(n)
      BY <1>2, <2>1 DEF ToldInOrder
    <3>2. \A n \in 1..(r.cursor - 1) : n \in 1..Len(event)  BY <1>1, <3>1
    <3> QED  BY <1>1, <3>1, <3>2 DEF Lasting
  <2>2. CASE r.cursor = cursor'
    BY <2>2 DEF ChannelInv, DoneInv
  <2> QED  BY <1>1, <1>3, <2>1, <2>2 DEF FromTheHands
<1> QED  BY <1>3 DEF ToldInOrder

(* The adapter implements OrderedInbox, for any number of events, turns,   *)
(* breaks, crashes, refusals, repeats and late answers: users are answered *)
(* in the order of their events, and the platform forgets an event only    *)
(* when it and all before it are settled (finishTurn; ack, which confirms  *)
(* the earlier events as well).                                            *)
THEOREM RepliesInOrder == JiyingSpec => AnswersInOrder
<1>1. JiyingInit => Inbox!Init /\ ToldInOrder
  BY DEF JiyingInit, Inbox!Init, ToldInOrder
<1>2. ASSUME ChannelInv, ToldInOrder, [JiyingNext]_vars
      PROVE  [Inbox!Next]_(Inbox!inboxVars)
  <2>1. \A n : Inbox!Settled(n) <=> Done(n)  BY DEF Inbox!Settled, Done, Told
  <2>2. CASE TellsOne
    <3>1. PICK n \in 1..Len(event) : /\ Told' = Told \cup {n} /\ UNCHANGED <<event, confirmed>>
                                     /\ n = cursor \/ \E r \in taken : r.cursor = n
      BY <2>2 DEF TellsOne
    <3>2. \A m \in 1..(n - 1) : Done(m)
      BY <1>2, <3>1 DEF ToldInOrder, ChannelInv, DoneInv
    <3>3. Inbox!Tell(n)  BY <2>1, <3>1, <3>2 DEF Inbox!Tell, Told
    <3> QED  BY <3>1, <3>3 DEF Inbox!Next
  <2>3. CASE Forgets
    <3>1. PICK r \in taken : /\ r.method = "ack" /\ confirmed < r.cursor /\ confirmed' = r.cursor
                             /\ UNCHANGED <<event, settled, strayed>>
      BY <2>3 DEF Forgets
    <3>2. \A m \in 1..r.cursor : Done(m)  BY <1>2, <3>1 DEF ChannelInv, DoneInv
    <3>3. r.cursor \in 1..Len(event)
      <4>1. r.cursor \in Cursors /\ r.cursor <= Len(event) /\ Len(event) \in Nat
        BY <1>2, CallersOf DEF ChannelInv, LinkTyped, PlatformTyped
      <4> QED  BY <4>1 DEF Cursors
    <3>4. Inbox!Forget(r.cursor)  BY <2>1, <3>1, <3>2 DEF Inbox!Forget
    <3> QED  BY <3>3, <3>4 DEF Inbox!Next
  <2>4. CASE Arrives
    BY <2>4 DEF Arrives, Inbox!Next, Inbox!Arrive
  <2>5. CASE UNCHANGED <<event, confirmed, settled, strayed>>
    BY <2>5 DEF Inbox!inboxVars
  <2> QED  BY <1>2, <2>2, <2>3, <2>4, <2>5, WhatTheUserSees DEF InboxStep
<1>3. ChannelInv /\ ChannelInv' /\ ToldInOrder /\ [JiyingNext]_vars => ToldInOrder'
  BY ToldInOrderStep
<1>4. ChannelInv /\ ToldInOrder /\ [JiyingNext]_vars => [Inbox!Next]_(Inbox!inboxVars)
  BY <1>2
<1> QED  BY <1>1, <1>3, <1>4, ChannelInvariant, PTL DEF JiyingSpec, AnswersInOrder, Inbox!Spec

=============================================================================
