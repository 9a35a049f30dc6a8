------------------------- MODULE SessionStreamProofs -------------------------
(***************************************************************************)
(* What a tab is shown, for any number of sessions, tabs, Runs and         *)
(* connections, of edits and reloads, and every capacity of the buffer and *)
(* of a smaller channel: events only forward (the refinement of            *)
(* LossyFeed), and all of them unless a mishap the model names took one.   *)
(***************************************************************************)
EXTENDS SessionStream, RunManagerProofs, FiniteSetTheorems

-----------------------------------------------------------------------------
(* The replay. *)

(* Picking the end of a sequence.                                          *)
LEMMA PickedEnd ==
    ASSUME NEW s \in Seq(Event), NEW m \in 0 .. Len(s)
    PROVE  LET p == Picked(s, m + 1 .. Len(s))
           IN  /\ p \in Seq(Event) /\ Len(p) = Len(s) - m
               /\ \A j \in 1 .. Len(p) : p[j] = s[m + j]
<1> DEFINE kept == m + 1 .. Len(s)
           n == Len(s) - m
           Place(j) == CHOOSE i \in kept : Cardinality({h \in kept : h <= i}) = j
<1>1. Len(s) \in Nat /\ m \in Nat /\ n \in Nat
  OBVIOUS
<1>2. Cardinality(kept) = n
  <2>1. m + 1 \in Int /\ Len(s) \in Int
    BY <1>1
  <2>2. Cardinality(kept) = IF m + 1 > Len(s) THEN 0 ELSE Len(s) - (m + 1) + 1
    BY <2>1, FS_Interval
  <2> QED  BY <1>1, <2>2
<1>3. ASSUME NEW i \in kept PROVE Cardinality({h \in kept : h <= i}) = i - m
  <2>1. {h \in kept : h <= i} = m + 1 .. i
    BY <1>1
  <2>2. m + 1 \in Int /\ i \in Int
    BY <1>1
  <2>3. Cardinality(m + 1 .. i) = IF m + 1 > i THEN 0 ELSE i - (m + 1) + 1
    BY <2>2, FS_Interval
  <2>4. i \in Nat /\ m + 1 <= i
    BY <1>1
  <2>5. Cardinality(m + 1 .. i) = i - m
    BY <1>1, <2>3, <2>4
  <2> HIDE DEF kept
  <2> QED  BY <2>1, <2>5
<1>4. ASSUME NEW j \in 1 .. n PROVE Place(j) = m + j
  <2>1. m + j \in kept /\ Cardinality({h \in kept : h <= m + j}) = j
    <3>1. m + j \in kept
      BY <1>1
    <3>2. Cardinality({h \in kept : h <= m + j}) = (m + j) - m
      BY <1>3, <3>1
    <3> QED  BY <1>1, <3>1, <3>2
  <2>2. \A i \in kept : Cardinality({h \in kept : h <= i}) = j => i = m + j
    BY <1>1, <1>3
  <2> HIDE DEF kept
  <2> QED  BY <2>1, <2>2
<1>5. Picked(s, kept) = [j \in 1 .. n |-> s[Place(j)]]
  BY <1>2 DEF Picked, RankIn
<1>6. \A j \in 1 .. n : s[Place(j)] = s[m + j] /\ s[m + j] \in Event
  <2> TAKE j \in 1 .. n
  <2>1. m + j \in 1 .. Len(s)
    BY <1>1
  <2>2. Place(j) = m + j
    BY <1>4
  <2> HIDE DEF Place
  <2> QED  BY <2>1, <2>2
<1> HIDE DEF kept, n, Place
<1>7. Picked(s, kept) = [j \in 1 .. n |-> s[m + j]]
  <2>1. \A j \in 1 .. n : s[Place(j)] = s[m + j]
    BY <1>6
  <2>2. [j \in 1 .. n |-> s[Place(j)]] = [j \in 1 .. n |-> s[m + j]]
    BY <2>1, Zenon
  <2> QED  BY <1>5, <2>2
<1> DEFINE f == [j \in 1 .. n |-> s[m + j]]
<1>8. f \in Seq(Event) /\ Len(f) = n /\ \A j \in 1 .. n : f[j] = s[m + j]
  BY <1>1, <1>6
<1>9. Picked(s, kept) = f
  BY <1>7
<1> HIDE DEF f
<1>10. Picked(s, m + 1 .. Len(s)) = f
  BY <1>9 DEF kept
<1>11. Len(f) = Len(s) - m
  BY <1>8 DEF n
<1> QED  BY <1>8, <1>10, <1>11

(* What passes a bound on consecutive numbers is the end of them.          *)
LEMMA EndOfInterval ==
    ASSUME NEW l \in Nat, NEW z \in Nat, NEW since \in Nat
    PROVE  \E m \in 0 .. l :
               /\ {i \in 1 .. l : z + i > since + l} = m + 1 .. l
               /\ since <= z /\ z <= since + l => m + z = since + l
<1> DEFINE kept == {i \in 1 .. l : z + i > since + l}
<1>0. \A i \in 1 .. l : i \in kept <=> z + i > since + l
  OBVIOUS
<1>00. kept \subseteq 1 .. l
  OBVIOUS
<1> SUFFICES \E m \in 0 .. l : /\ kept = m + 1 .. l
                               /\ since <= z /\ z <= since + l => m + z = since + l
  OBVIOUS
<1> HIDE DEF kept
<1>1. ASSUME NEW m \in 0 .. l, NEW i \in 1 .. l, i \in kept <=> i > m
      PROVE  i \in kept <=> i \in m + 1 .. l
  BY <1>1
<1>2. ASSUME NEW m \in 0 .. l, \A i \in 1 .. l : i \in kept <=> i > m
      PROVE  kept = m + 1 .. l
  <2>1. \A i \in 1 .. l : i \in kept <=> i \in m + 1 .. l
    BY <1>1, <1>2
  <2>2. m + 1 .. l \subseteq 1 .. l
    OBVIOUS
  <2> QED  BY <1>00, <2>1, <2>2
<1>3. CASE since + l <= z
  <2>1. ASSUME NEW i \in 1 .. l PROVE i \in kept <=> i > 0
    <3>1. z + i > since + l
      BY <1>3
    <3> QED  BY <1>0, <3>1
  <2>2. 0 \in 0 .. l
    OBVIOUS
  <2>3. kept = 0 + 1 .. l
    BY <1>2, <2>1, <2>2
  <2>4. since <= z /\ z <= since + l => 0 + z = since + l
    BY <1>3
  <2> QED  BY <2>2, <2>3, <2>4
<1>4. CASE since + l > z /\ since <= z
  <2> DEFINE m == since + l - z
  <2>1. m \in 0 .. l /\ m + z = since + l
    BY <1>4
  <2>2. ASSUME NEW i \in 1 .. l PROVE i \in kept <=> i > m
    <3>1. z + i > since + l <=> i > m
      BY <1>4
    <3> QED  BY <1>0, <3>1
  <2> HIDE DEF m
  <2>3. kept = m + 1 .. l
    BY <1>2, <2>1, <2>2
  <2> QED  BY <2>1, <2>3
<1>5. CASE since > z
  <2>1. ASSUME NEW i \in 1 .. l PROVE i \in kept <=> i > l
    <3>1. ~ (z + i > since + l) /\ ~ (i > l)
      BY <1>5
    <3> QED  BY <1>0, <3>1
  <2>2. l \in 0 .. l
    OBVIOUS
  <2>3. kept = l + 1 .. l
    BY <1>2, <2>1, <2>2
  <2> QED  BY <1>5, <2>2, <2>3
<1> QED  BY <1>3, <1>4, <1>5

(* What is replayed from a cursor: events of the buffer, numbered without  *)
(* a gap up to the counter, all of them if the buffer reaches back to the  *)
(* cursor.                                                                 *)
LEMMA Replay ==
    ASSUME TypeOK, BufferIsLatest, NEW k \in Keys, NEW since \in Nat
    PROVE  LET p == EventsAfter(k, since)
           IN  /\ p \in Seq(Event)
               /\ \A j \in 1 .. Len(p) :
                      /\ p[j].seq + Len(p) = lastSeq[k] + j
                      /\ p[j].seq > since
                      /\ \E i \in 1 .. Len(buffer[k]) : p[j] = buffer[k][i]
               /\ since <= lastSeq[k] /\ lastSeq[k] <= since + Len(buffer[k])
                      => since + Len(p) = lastSeq[k]
<1> DEFINE s == buffer[k]
           l == Len(s)
           z == lastSeq[k]
           kept == {i \in 1 .. l : s[i].seq > since}
           p == EventsAfter(k, since)
<1>1. s \in Seq(Event) /\ l \in Nat /\ z \in Nat
  BY DEF TypeOK
<1>2. \A i \in 1 .. l : s[i] \in Event /\ s[i].seq \in Nat /\ s[i].seq + l = z + i
  <2>1. \A i \in 1 .. l : s[i].seq + l = z + i
    BY DEF BufferIsLatest
  <2> HIDE DEF s
  <2>2. \A i \in 1 .. l : s[i] \in Event
    BY <1>1
  <2> QED  BY <2>1, <2>2 DEF Event
<1>3. \A i \in 1 .. l : i \in kept <=> z + i > since + l
  <2> TAKE i \in 1 .. l
  <2> DEFINE q == s[i].seq
  <2>1. q \in Nat /\ q + l = z + i
    BY <1>2
  <2>2. i \in kept <=> q > since
    OBVIOUS
  <2> HIDE DEF q, kept, s, l, z
  <2>3. q > since <=> z + i > since + l
    BY <1>1, <2>1
  <2> QED  BY <2>2, <2>3
<1>4. kept = {i \in 1 .. l : z + i > since + l}
  BY <1>3
<1>5. PICK m \in 0 .. l :
         /\ {i \in 1 .. l : z + i > since + l} = m + 1 .. l
         /\ since <= z /\ z <= since + l => m + z = since + l
  <2> HIDE DEF s, l, z
  <2> QED  BY <1>1, EndOfInterval
<1>6. kept = m + 1 .. l
  <2> HIDE DEF kept
  <2> QED  BY <1>4, <1>5
<1>7. p = Picked(s, m + 1 .. Len(s))
  <2>1. p = Picked(s, kept)
    BY DEF EventsAfter
  <2> HIDE DEF p, kept
  <2> QED  BY <1>6, <2>1, Zenon
<1>8. p \in Seq(Event) /\ Len(p) = l - m /\ \A j \in 1 .. Len(p) : p[j] = s[m + j]
  <2> DEFINE q == Picked(s, m + 1 .. Len(s))
  <2>1. q \in Seq(Event) /\ Len(q) = l - m /\ \A j \in 1 .. Len(q) : q[j] = s[m + j]
    <3> HIDE DEF s
    <3> QED  BY <1>1, PickedEnd
  <2> HIDE DEF p
  <2>2. p = q
    BY <1>7
  <2> HIDE DEF q, s
  <2> QED  BY <2>1, <2>2
<1> HIDE DEF p
<1>9. ASSUME NEW j \in 1 .. Len(p)
       PROVE  /\ p[j].seq + Len(p) = z + j
              /\ p[j].seq > since
              /\ \E i \in 1 .. l : p[j] = s[i]
  <2>1. m + j \in 1 .. l /\ m + j > m
    <3> HIDE DEF s, l, z, kept
    <3> QED  BY <1>1, <1>8
  <2>2. m + j \in kept
    <3> HIDE DEF s, l, z, kept
    <3> QED  BY <1>6, <2>1
  <2>3. p[j] = s[m + j] /\ s[m + j].seq \in Nat /\ s[m + j].seq + l = z + (m + j)
    BY <1>2, <1>8, <2>1
  <2> DEFINE q == s[m + j].seq
  <2>4. q > since
    BY <2>2
  <2>5. q \in Nat /\ q + l = z + (m + j)
    BY <2>3
  <2> HIDE DEF q, kept, s, l, z
  <2>6. q + Len(p) = z + j
    BY <1>1, <1>8, <2>5
  <2> QED  BY <2>1, <2>3, <2>4, <2>6 DEF q
<1>10. since <= z /\ z <= since + l => since + Len(p) = z
  <2> HIDE DEF s, l, z, kept
  <2> QED  BY <1>1, <1>5, <1>8
<1> QED  BY <1>8, <1>9, <1>10 DEF p

-----------------------------------------------------------------------------
(* The registry under the stream's own steps. *)

RegInv == TypeOK /\ Placed /\ WriterInv /\ BufferIsLatest /\ ChannelInv

(* Every step of the stream is a step of the registry or leaves it alone.  *)
LEMMA StreamUsesTheRegistry == [StreamNext]_allVars => [Next]_vars
<1> SUFFICES ASSUME [StreamNext]_allVars PROVE [Next]_vars
  OBVIOUS
<1>1. ASSUME NEW r \in Runs, StreamRunStep(r) PROVE [Next]_vars
  BY <1>1 DEF StreamRunStep, Next, RunStep
<1>2. ASSUME NEW r \in Runs, NEW c \in Chans, StreamOffer(r, c) PROVE [Next]_vars
  BY <1>2 DEF StreamOffer, Next, RunStep
<1>3. ASSUME NEW r \in Runs, NEW k \in Keys, StreamStart(r, k) PROVE [Next]_vars
  BY <1>3 DEF StreamStart, Next
<1>4. ASSUME NEW c \in Chans, HandlerStep(c) PROVE [Next]_vars
  BY <1>4 DEF HandlerStep, WriteOwed, Replayed, Live, RunOver, TailWritten,
              Disconnected, Leave, Next
<1>5. ASSUME NEW t \in Tabs, NEW c \in Chans, Open(t, c) PROVE [Next]_vars
  <2>1. TabKey[t] \in Keys
    BY TabKeyType
  <2> QED  BY <1>5, <2>1 DEF Open, Next
<1>6. ASSUME NEW t \in Tabs, Detach(t) \/ Reload(t) PROVE [Next]_vars
  BY <1>6 DEF Detach, Reload
<1>7. ASSUME NEW k \in Keys, EditCheck(k) \/ EditDrop(k) PROVE [Next]_vars
  BY <1>7 DEF EditCheck, EditDrop, Next
<1>8. CASE UNCHANGED allVars
  BY <1>8 DEF allVars
<1> QED  BY <1>1, <1>2, <1>3, <1>4, <1>5, <1>6, <1>7, <1>8 DEF StreamNext

(* What is proved of the registry alone holds under the stream.            *)
LEMMA RegistryHolds == StreamSpec => []RegInv
<1>1. StreamSpec => Spec
  <2>1. StreamInit => Init
    BY DEF StreamInit
  <2> QED  BY <2>1, StreamUsesTheRegistry, PTL DEF StreamSpec, Spec
<1> QED
  BY <1>1, TypeCorrect, WriterInvariant, BufferHasNoGap, ChannelInvariant, PTL DEF RegInv

-----------------------------------------------------------------------------
(* The log.  A session's counter restarts when its buffer is dropped; the  *)
(* event numbered q since then is at Base + q.                             *)

Base(k) == Len(log[k]) - lastSeq[k]

Located(entries, b, e) ==
    /\ e.seq >= 1 /\ b + e.seq <= Len(entries)
    /\ entries[b + e.seq] = Entry(e)

(* A Run numbers its events, so no two entries of a log are equal, and the *)
(* buffer holds the latest.                                                *)

NumberedByRun ==
    \A k \in Keys : \A i \in 1 .. Len(log[k]) :
        log[k][i].n <= event[log[k][i].run].n

EntriesDiffer ==
    \A k \in Keys : \A i, j \in 1 .. Len(log[k]) : i < j => log[k][i] # log[k][j]

BufferIsLogged ==
    \A k \in Keys :
        /\ lastSeq[k] <= Len(log[k])
        /\ \A i \in 1 .. Len(buffer[k]) : Located(log[k], Base(k), buffer[k][i])

BufferIsFull ==
    \A k \in Keys : Len(buffer[k]) = lastSeq[k] \/ Len(buffer[k]) = EventCap

EmitsBounded ==
    \A r \in Runs : pc[r] \in {"unborn", "body", "panicked"} => event[r].n <= MaxEmits

LogInv == NumberedByRun /\ EntriesDiffer /\ BufferIsLogged /\ BufferIsFull /\ EmitsBounded

LogEntry == [run : Runs, n : Nat]

LogType == log \in [Keys -> Seq(LogEntry)]

(* What a Run that publishes e to the session k changes. *)
Published(r, k, e) ==
    /\ k = runKey[r] /\ active[k] = r
    /\ e \in Event /\ e.seq = lastSeq[k] + 1 /\ e.run = r /\ e.n = event[r].n + 1
    /\ \A q \in Keys :
           /\ lastSeq'[q] = IF q = k THEN lastSeq[k] + 1 ELSE lastSeq[q]
           /\ buffer'[q] = IF q = k THEN Trim(Append(buffer[k], e)) ELSE buffer[q]
           /\ log'[q] = IF q = k THEN Append(log[k], Entry(e)) ELSE log[q]
    /\ \A q \in Runs :
           /\ event'[q] = IF q = r THEN e ELSE event[q]
           /\ todo'[q] = IF q = r THEN subs[k] ELSE todo[q]
    /\ todo[r] = {}
    /\ UNCHANGED <<active, subs, chan, chanKey, runKey>>

LEMMA Publishes ==
    ASSUME RegInv, LogType, NEW r \in Runs, Emit(r) \/ Recover(r), Record(r)
    PROVE  \E k \in Keys, e \in Event : Published(r, k, e)
<1> DEFINE k == runKey[r]
           e == [seq |-> lastSeq[k] + 1, run |-> r, n |-> event[r].n + 1]
<1>1. pc[r] \in {"body", "panicked"} /\ Publish(r)
  BY DEF Emit, Recover
<1>2. /\ k \in Keys /\ e \in Event
      /\ lastSeq' = [lastSeq EXCEPT ![k] = @ + 1]
      /\ buffer'  = [buffer EXCEPT ![k] = Trim(Append(buffer[k], e))]
      /\ event'   = [event EXCEPT ![r] = e]
      /\ todo'    = [todo EXCEPT ![r] = subs[k]]
  BY <1>1, PublishFacts DEF RegInv
<1>3. active[k] = r
  BY <1>1, <1>2 DEF RegInv, WriterInv, RegistryNamesTheWriter, Registered
<1>4. e.seq = lastSeq[k] + 1 /\ e.run = r /\ e.n = event[r].n + 1
  OBVIOUS
<1>5. todo[r] = {} /\ UNCHANGED <<active, subs, chan, chanKey, runKey>>
  BY <1>1 DEF Publish, Sent, chanVars
<1>6. log' = [log EXCEPT ![k] = Append(@, Entry(event'[r]))]
  BY DEF Record
<1> HIDE DEF e, k
<1>7. event'[r] = e
  BY <1>2 DEF RegInv, TypeOK
<1>8. \A q \in Keys :
           /\ lastSeq'[q] = IF q = k THEN lastSeq[k] + 1 ELSE lastSeq[q]
           /\ buffer'[q] = IF q = k THEN Trim(Append(buffer[k], e)) ELSE buffer[q]
  BY <1>2 DEF RegInv, TypeOK
<1>9. \A q \in Keys : log'[q] = IF q = k THEN Append(log[k], Entry(e)) ELSE log[q]
  BY <1>2, <1>6, <1>7 DEF LogType
<1>10. \A q \in Runs :
           /\ event'[q] = IF q = r THEN e ELSE event[q]
           /\ todo'[q] = IF q = r THEN subs[k] ELSE todo[q]
  BY <1>2 DEF RegInv, TypeOK
<1>11. k = runKey[r]
  BY DEF k
<1>12. Published(r, k, e)
  BY <1>2, <1>3, <1>4, <1>5, <1>8, <1>9, <1>10, <1>11 DEF Published
<1> QED  BY <1>2, <1>12

(* What is at its place in a log stays there when the log grows.           *)
LEMMA LocatedGrows ==
    ASSUME NEW S, NEW entries \in Seq(S), NEW x \in S, NEW b \in Nat, NEW e,
           e.seq \in Nat, Located(entries, b, e)
    PROVE  Located(Append(entries, x), b, e)
<1> DEFINE i == b + e.seq
<1>1. i \in 1 .. Len(entries)
  BY DEF Located
<1>2. Len(Append(entries, x)) = Len(entries) + 1 /\ Append(entries, x)[i] = entries[i]
  BY <1>1
<1> QED  BY <1>1, <1>2 DEF Located

(* The length of a buffer after an event.                                  *)
LEMMA TrimLength ==
    ASSUME NEW buf \in Seq(Event), NEW e \in Event
    PROVE  Len(Trim(Append(buf, e))) = IF Len(buf) + 1 > EventCap THEN EventCap ELSE Len(buf) + 1
<1> DEFINE app == Append(buf, e)
<1>1. app \in Seq(Event) /\ Len(app) = Len(buf) + 1 /\ Len(buf) \in Nat
  BY AppendProperties
<1>2. EventCap \in Nat /\ EventCap >= 1
  BY CapsArePositive
<1> HIDE DEF app
<1>3. CASE Len(app) > EventCap
  <2> DEFINE first == Len(app) - EventCap + 1
  <2>1. first \in 1 .. Len(app) /\ Len(app) \in Nat
    BY <1>1, <1>2, <1>3
  <2>2. Trim(app) = SubSeq(app, first, Len(app))
    BY <1>3 DEF Trim
  <2> HIDE DEF first
  <2>3. Len(Trim(app)) = Len(app) - first + 1
    BY <1>1, <2>1, <2>2, SubSeqProperties
  <2>4. Len(Trim(app)) = EventCap
    BY <1>1, <1>2, <2>1, <2>3 DEF first
  <2> QED  BY <1>1, <1>3, <2>4 DEF app
<1>4. CASE ~ (Len(app) > EventCap)
  BY <1>1, <1>4 DEF Trim, app
<1> QED  BY <1>3, <1>4

(* Every step keeps a log free of repetitions, its entries counted by      *)
(* their Runs and its end in the buffer.                                   *)
LEMMA LogStep ==
    ASSUME RegInv, LogType, LogInv, [StreamNext]_allVars
    PROVE  LogType' /\ LogInv'
<1>0. /\ NumberedByRun /\ EntriesDiffer /\ BufferIsLogged /\ BufferIsFull /\ EmitsBounded
      /\ TypeOK /\ BufferIsLatest /\ EventCap \in Nat \ {0} /\ MaxEmits \in Nat
  BY CapsArePositive, MaxEmitsType DEF LogInv, RegInv
<1>00. /\ \A k \in Keys : /\ log[k] \in Seq(LogEntry) /\ Len(log[k]) \in Nat
                          /\ lastSeq[k] \in Nat /\ buffer[k] \in Seq(Event)
       /\ \A k \in Keys : \A i \in 1 .. Len(log[k]) : log[k][i].run \in Runs /\ log[k][i].n \in Nat
       /\ \A k \in Keys : \A i \in 1 .. Len(buffer[k]) : buffer[k][i] \in Event
       /\ \A r \in Runs : event[r] \in Event
  <2>1. \A k \in Keys : log[k] \in Seq(LogEntry)
    BY DEF LogType
  <2>2. \A k \in Keys : \A i \in 1 .. Len(log[k]) : log[k][i] \in LogEntry
    BY <2>1
  <2>3. \A k \in Keys : lastSeq[k] \in Nat /\ buffer[k] \in Seq(Event)
    BY <1>0 DEF TypeOK
  <2>4. \A r \in Runs : event[r] \in Event
    BY <1>0 DEF TypeOK
  <2>5. \A k \in Keys : \A i \in 1 .. Len(buffer[k]) : buffer[k][i] \in Event
    BY <2>3
  <2>6. \A k \in Keys : Len(log[k]) \in Nat
    BY <2>1
  <2>7. \A k \in Keys : \A i \in 1 .. Len(log[k]) : log[k][i].run \in Runs /\ log[k][i].n \in Nat
    BY <2>2 DEF LogEntry
  <2> QED  BY <2>1, <2>3, <2>4, <2>5, <2>6, <2>7
(* A Run publishes. *)
<1>1. ASSUME NEW r \in Runs, Emit(r) \/ Recover(r), Record(r) PROVE LogType' /\ LogInv'
  <2>1. PICK k \in Keys, e \in Event : Published(r, k, e)
    BY <1>1, Publishes
  <2> DEFINE x == Entry(e)
  <2>2. /\ e.seq = lastSeq[k] + 1 /\ e.run = r /\ e.n = event[r].n + 1
        /\ \A q \in Keys :
               /\ lastSeq'[q] = IF q = k THEN lastSeq[k] + 1 ELSE lastSeq[q]
               /\ buffer'[q] = IF q = k THEN Trim(Append(buffer[k], e)) ELSE buffer[q]
               /\ log'[q] = IF q = k THEN Append(log[k], x) ELSE log[q]
        /\ \A q \in Runs : event'[q] = IF q = r THEN e ELSE event[q]
    BY <2>1 DEF Published
  <2>3. x \in LogEntry /\ x.run = r /\ x.n = event[r].n + 1 /\ e.seq \in Nat
    BY <1>00, <2>2 DEF Entry, Event, LogEntry
  <2>4. LogType'
    <3>1. log' = [log EXCEPT ![k] = Append(@, Entry(event'[r]))]
      <4>1. k = runKey[r]
        BY <2>1 DEF Published
      <4> QED  BY <1>1, <4>1 DEF Record
    <3>2. event'[r] = e
      BY <2>2
    <3>3. log' = [log EXCEPT ![k] = Append(log[k], x)]
      BY <3>1, <3>2 DEF LogType
    <3>4. Append(log[k], x) \in Seq(LogEntry)
      BY <1>00, <2>3
    <3> HIDE DEF x
    <3> QED  BY <3>3, <3>4 DEF LogType
  <2> HIDE DEF x
  <2> DEFINE L == log[k]
             n == Len(L)
  <2>5. /\ L \in Seq(LogEntry) /\ n \in Nat /\ log'[k] = Append(L, x)
        /\ Len(log'[k]) = n + 1 /\ log'[k][n + 1] = x
        /\ \A i \in 1 .. n : log'[k][i] = L[i]
    <3>1. L \in Seq(LogEntry) /\ x \in LogEntry /\ log'[k] = Append(L, x)
      BY <1>00, <2>2, <2>3
    <3> DEFINE M == Append(L, x)
    <3> HIDE DEF L
    <3>2. Len(L) \in Nat /\ Len(M) = Len(L) + 1 /\ M[Len(L) + 1] = x
          /\ \A i \in 1 .. Len(L) : M[i] = L[i]
      BY <3>1, AppendProperties
    <3> HIDE DEF M
    <3>3. log'[k] = M
      BY <3>1 DEF M
    <3> QED  BY <3>1, <3>2, <3>3
  <2>6. \A q \in Keys : q # k => /\ log'[q] = log[q] /\ lastSeq'[q] = lastSeq[q]
                                 /\ buffer'[q] = buffer[q]
    BY <2>2
  <2>7. \A q \in Runs : /\ event[q].n \in Nat /\ event'[q].n \in Nat
                         /\ event'[q].n >= event[q].n
    <3>1. \A q \in Runs : event[q].n \in Nat
      BY <1>00 DEF Event
    <3> QED  BY <2>2, <3>1
  <2>8. NumberedByRun'
    <3> SUFFICES ASSUME NEW q \in Keys, NEW i \in 1 .. Len(log'[q])
                 PROVE  log'[q][i].n <= event'[log'[q][i].run].n
      BY DEF NumberedByRun
    <3>1. ASSUME i \in 1 .. Len(log[q]), log'[q][i] = log[q][i]
          PROVE  log'[q][i].n <= event'[log'[q][i].run].n
      <4>1. log[q][i].run \in Runs /\ log[q][i].n \in Nat /\ log[q][i].n <= event[log[q][i].run].n
        BY <1>0, <1>00, <3>1 DEF NumberedByRun
      <4>2. event'[log[q][i].run].n >= event[log[q][i].run].n /\ event[log[q][i].run].n \in Nat
        BY <2>7, <4>1
      <4>3. event'[log[q][i].run].n \in Nat
        BY <2>7, <4>1
      <4> DEFINE a == log[q][i].n
                 d == event[log[q][i].run].n
                 f == event'[log[q][i].run].n
      <4>4. a \in Nat /\ d \in Nat /\ f \in Nat /\ a <= d /\ d <= f
        BY <4>1, <4>2, <4>3
      <4> HIDE DEF a, d, f
      <4>5. a <= f
        BY <4>4
      <4> QED  BY <3>1, <4>5 DEF a, f
    <3>2. CASE q # k
      BY <2>6, <3>1, <3>2
    <3>3. CASE q = k /\ i # n + 1
      <4>1. i \in 1 .. n
        BY <2>5, <3>3
      <4> QED  BY <2>5, <3>1, <3>3, <4>1
    <3>4. CASE q = k /\ i = n + 1
      <4>1. log'[q][i] = x /\ event'[r].n = e.n
        BY <2>2, <2>5, <3>4
      <4> QED  BY <2>2, <2>3, <2>7, <4>1
    <3> QED  BY <3>2, <3>3, <3>4
  <2>9. EntriesDiffer'
    <3> SUFFICES ASSUME NEW q \in Keys, NEW i \in 1 .. Len(log'[q]),
                        NEW j \in 1 .. Len(log'[q]), i < j
                 PROVE  log'[q][i] # log'[q][j]
      BY DEF EntriesDiffer
    <3>1. CASE q # k
      BY <1>0, <2>6, <3>1 DEF EntriesDiffer
    <3>2. CASE q = k /\ j # n + 1
      <4>1. i \in 1 .. n /\ j \in 1 .. n
        BY <2>5, <3>2
      <4>2. log'[q][i] = L[i] /\ log'[q][j] = L[j]
        BY <2>5, <3>2, <4>1
      <4>3. L[i] # L[j]
        BY <1>0, <4>1 DEF EntriesDiffer
      <4> QED  BY <4>2, <4>3
    <3>3. CASE q = k /\ j = n + 1
      <4>1. i \in 1 .. n /\ log'[q][i] = L[i] /\ log'[q][j] = x
        BY <2>5, <3>3
      <4>2. L[i].n <= event[L[i].run].n
        BY <1>0, <4>1 DEF NumberedByRun
      <4>3. ASSUME L[i] = x PROVE FALSE
        <5>1. event[r].n + 1 <= event[r].n
          BY <2>3, <4>2, <4>3
        <5> QED  BY <2>7, <5>1
      <4> QED  BY <4>1, <4>3
    <3> QED  BY <3>1, <3>2, <3>3
  <2>10. Base(k)' = Base(k) /\ Base(k) \in Nat /\ lastSeq'[k] = lastSeq[k] + 1
    <3>1. lastSeq[k] <= n
      BY <1>0 DEF BufferIsLogged
    <3>2. Len(log'[k]) = n + 1 /\ lastSeq'[k] = lastSeq[k] + 1
      BY <2>2, <2>5
    <3>3. n \in Nat /\ lastSeq[k] \in Nat
      BY <1>00
    <3>4. Base(k) = n - lastSeq[k] /\ Base(k)' = Len(log'[k]) - lastSeq'[k]
      BY DEF Base
    <3> HIDE DEF n, L
    <3> QED  BY <3>1, <3>2, <3>3, <3>4
  <2>11. BufferIsLogged'
    <3>1. lastSeq'[k] <= Len(log'[k])
      BY <1>0, <1>00, <2>5, <2>10 DEF BufferIsLogged
    <3>2. ASSUME NEW i \in 1 .. Len(buffer'[k]) PROVE Located(log'[k], Base(k), buffer'[k][i])
      <4>1. buffer'[k] = Trim(Append(buffer[k], e)) /\ buffer[k] \in Seq(Event)
        BY <1>00, <2>2
      <4>2. buffer'[k][i] = e \/ \E j \in 1 .. Len(buffer[k]) : buffer'[k][i] = buffer[k][j]
        BY <4>1, TrimElements
      <4>3. CASE buffer'[k][i] = e
        <5>1. Base(k) + e.seq = n + 1 /\ e.seq >= 1
          BY <1>00, <2>2, <2>10 DEF Base
        <5>2. Located(log'[k], Base(k), e)
          BY <2>5, <5>1 DEF Located, x
        <5> QED  BY <4>3, <5>2
      <4>4. CASE \E j \in 1 .. Len(buffer[k]) : buffer'[k][i] = buffer[k][j]
        <5>1. PICK j \in 1 .. Len(buffer[k]) : buffer'[k][i] = buffer[k][j]
          BY <4>4
        <5>2. Located(L, Base(k), buffer[k][j]) /\ buffer[k][j].seq \in Nat
          BY <1>0, <1>00 DEF BufferIsLogged, Event
        <5> DEFINE f == buffer[k][j]
        <5> HIDE DEF f, L
        <5>3. Located(Append(L, x), Base(k), f)
          BY <2>3, <2>5, <2>10, <5>2, LocatedGrows DEF f
        <5> QED  BY <2>5, <5>1, <5>3 DEF f
      <4> QED  BY <4>2, <4>3, <4>4
    <3>3. ASSUME NEW q \in Keys, q # k
          PROVE  /\ lastSeq'[q] <= Len(log'[q])
                 /\ \A i \in 1 .. Len(buffer'[q]) : Located(log'[q], Base(q)', buffer'[q][i])
      <4>1. Base(q)' = Base(q)
        BY <2>6, <3>3 DEF Base
      <4> QED  BY <1>0, <2>6, <3>3, <4>1 DEF BufferIsLogged
    <3>4. \A i \in 1 .. Len(buffer'[k]) : Located(log'[k], Base(k)', buffer'[k][i])
      BY <2>10, <3>2
    <3> QED  BY <3>1, <3>3, <3>4 DEF BufferIsLogged
  <2>12. BufferIsFull'
    <3>1. Len(buffer'[k]) = lastSeq'[k] \/ Len(buffer'[k]) = EventCap
      <4>1. buffer'[k] = Trim(Append(buffer[k], e)) /\ buffer[k] \in Seq(Event)
        BY <1>00, <2>2
      <4>2. Len(buffer'[k]) = IF Len(buffer[k]) + 1 > EventCap THEN EventCap ELSE Len(buffer[k]) + 1
        BY <4>1, TrimLength
      <4>3. Len(buffer[k]) = lastSeq[k] \/ Len(buffer[k]) = EventCap
        BY <1>0 DEF BufferIsFull
      <4> QED  BY <1>0, <1>00, <2>10, <4>2, <4>3
    <3> QED  BY <1>0, <2>6, <3>1 DEF BufferIsFull
  <2>13. EmitsBounded'
    <3>1. pc \in [Runs -> PC]
      BY <1>0 DEF TypeOK
    <3>2. CASE Emit(r)
      <4>1. event[r].n < MaxEmits /\ pc' = pc
        BY <3>2 DEF Emit
      <4>2. event'[r].n <= MaxEmits
        BY <1>0, <2>2, <2>7, <4>1
      <4>3. \A q \in Runs : q # r => event'[q] = event[q]
        BY <2>2
      <4> QED  BY <1>0, <4>1, <4>2, <4>3 DEF EmitsBounded
    <3>3. CASE Recover(r)
      <4>1. pc'[r] = "returned" /\ \A q \in Runs : q # r => pc'[q] = pc[q] /\ event'[q] = event[q]
        BY <2>2, <3>1, <3>3 DEF Recover
      <4> QED  BY <1>0, <4>1 DEF EmitsBounded
    <3> QED  BY <1>1, <3>2, <3>3
  <2> QED  BY <2>4, <2>8, <2>9, <2>11, <2>12, <2>13 DEF LogInv
(* Any other step leaves log and events alone. *)
<1>2. ASSUME UNCHANGED <<log, event>>,
             \A k \in Keys : \/ buffer'[k] = buffer[k] /\ lastSeq'[k] = lastSeq[k]
                             \/ buffer'[k] = << >> /\ lastSeq'[k] = 0,
             \A r \in Runs : pc'[r] \in {"unborn", "body", "panicked"}
                                => pc[r] \in {"unborn", "body", "panicked"}
      PROVE  LogType' /\ LogInv'
  <2>1. LogType' /\ NumberedByRun' /\ EntriesDiffer' /\ EmitsBounded'
    BY <1>0, <1>2 DEF LogType, NumberedByRun, EntriesDiffer, EmitsBounded
  <2>2. BufferIsLogged' /\ BufferIsFull'
    <3> SUFFICES ASSUME NEW k \in Keys
                 PROVE  /\ lastSeq'[k] <= Len(log'[k])
                        /\ \A i \in 1 .. Len(buffer'[k]) : Located(log'[k], Base(k)', buffer'[k][i])
                        /\ Len(buffer'[k]) = lastSeq'[k] \/ Len(buffer'[k]) = EventCap
      BY DEF BufferIsLogged, BufferIsFull
    <3>1. CASE buffer'[k] = buffer[k] /\ lastSeq'[k] = lastSeq[k]
      <4>1. Base(k)' = Base(k)
        BY <1>2, <3>1 DEF Base
      <4> QED  BY <1>0, <1>2, <3>1, <4>1 DEF BufferIsLogged, BufferIsFull
    <3>2. CASE buffer'[k] = << >> /\ lastSeq'[k] = 0
      <4>1. Len(buffer'[k]) = 0
        BY <3>2
      <4> QED  BY <1>00, <1>2, <3>2, <4>1
    <3> QED  BY <1>2, <3>1, <3>2
  <2> QED  BY <2>1, <2>2 DEF LogInv
<1>3. ASSUME UNCHANGED <<log, event, buffer, lastSeq, pc>> PROVE LogType' /\ LogInv'
  BY <1>2, <1>3
<1>4. ASSUME NEW r \in Runs, Return(r) \/ Panic(r) \/ Unregister(r) \/ CloseDone(r),
             UNCHANGED streamVars
      PROVE  LogType' /\ LogInv'
  <2>1. /\ pc[r] \in {"body", "returned", "unregistered"} /\ pc[r] # "over"
        /\ \E p \in PC : pc' = [pc EXCEPT ![r] = p] /\ (p = "panicked" => pc[r] = "body")
                         /\ p \notin {"unborn", "body"}
    BY <1>4 DEF Return, Panic, Unregister, CloseDone, PC
  <2>2. UNCHANGED <<log, event, buffer, lastSeq>>
    BY <1>4 DEF Return, Panic, Unregister, CloseDone, regVars, streamVars, ghostVars
  <2>3. pc \in [Runs -> PC]
    BY <1>0 DEF TypeOK
  <2>4. \A q \in Runs : pc'[q] \in {"unborn", "body", "panicked"}
                           => pc[q] \in {"unborn", "body", "panicked"}
    BY <2>1, <2>3
  <2> QED  BY <1>2, <2>2, <2>4
<1>5. ASSUME NEW r \in Runs, StreamRunStep(r) PROVE LogType' /\ LogInv'
  BY <1>1, <1>4, <1>5 DEF StreamRunStep
<1>6. ASSUME NEW r \in Runs, NEW c \in Chans, StreamOffer(r, c) PROVE LogType' /\ LogInv'
  BY <1>3, <1>6 DEF StreamOffer, Offer, regVars
<1>7. ASSUME NEW r \in Runs, NEW k \in Keys, StreamStart(r, k) PROVE LogType' /\ LogInv'
  <2>1. pc[r] = "unborn" /\ pc' = [pc EXCEPT ![r] = "body"] /\ pc \in [Runs -> PC]
    BY <1>0, <1>7 DEF StreamStart, Start, TypeOK
  <2>2. UNCHANGED <<log, event, buffer, lastSeq>>
    BY <1>7 DEF StreamStart, Start, streamVars, ghostVars
  <2>3. \A q \in Runs : pc'[q] \in {"unborn", "body", "panicked"}
                           => pc[q] \in {"unborn", "body", "panicked"}
    BY <2>1
  <2> QED  BY <1>2, <2>2, <2>3
<1>8. ASSUME NEW c \in Chans, HandlerStep(c) PROVE LogType' /\ LogInv'
  BY <1>3, <1>8 DEF HandlerStep, WriteOwed, Replayed, Live, RunOver, TailWritten,
     Disconnected, Leave, Receive, Unsubscribe, vars, regVars, runVars, ghostVars
<1>9. ASSUME NEW t \in Tabs, NEW c \in Chans, Open(t, c) PROVE LogType' /\ LogInv'
  BY <1>3, <1>9 DEF Open, Subscribe, runVars
<1>10. ASSUME NEW t \in Tabs, Detach(t) \/ Reload(t) PROVE LogType' /\ LogInv'
  BY <1>3, <1>10 DEF Detach, Reload, vars, regVars, runVars, ghostVars
<1>11. ASSUME NEW k \in Keys, EditCheck(k) PROVE LogType' /\ LogInv'
  BY <1>3, <1>11 DEF EditCheck, vars, regVars, runVars, ghostVars
<1>12. ASSUME NEW k \in Keys, EditDrop(k) PROVE LogType' /\ LogInv'
  <2>1. UNCHANGED <<log, event, pc>>
    BY <1>12 DEF EditDrop, DropSession, runVars
  <2>2. \A q \in Keys : \/ buffer'[q] = buffer[q] /\ lastSeq'[q] = lastSeq[q]
                        \/ buffer'[q] = << >> /\ lastSeq'[q] = 0
    BY <1>12 DEF EditDrop, DropSession, Forget
  <2> QED  BY <1>2, <2>1, <2>2
<1>13. CASE UNCHANGED allVars
  BY <1>3, <1>13 DEF allVars, vars, regVars, runVars, streamVars, ghostVars
<1> QED  BY <1>5, <1>6, <1>7, <1>8, <1>9, <1>10, <1>11, <1>12, <1>13 DEF StreamNext

-----------------------------------------------------------------------------
(* Who serves whom. *)

Wired ==
    /\ \A c \in Chans : phase[c] = "none" <=> chanKey[c] = NoKey
    /\ \A c \in Chans : phase[c] \notin {"none", "closed"} =>
           tabOf[c] \in Tabs /\ chanKey[c] = TabKey[tabOf[c]]
    /\ \A c \in Chans : phase[c] \in {"live", "leaving"} => owes[c] = << >>
    /\ \A c \in Chans, t \in Tabs : attached[t] = c =>
           tabOf[c] = t /\ phase[c] \notin {"none", "closed"} /\ cursor[t] = sent[c]

Serving == {c \in Chans : phase[c] \in {"replay", "live", "tail"}}

(* All a connection carries is numbered from one restart of the session's  *)
(* counter, from the last one as long as the connection is subscribed, and *)
(* what it is still to write comes after all its tab was shown.            *)

OwesFrom(c, b) ==
    \A i \in 1 .. Len(owes[c]) :
        /\ Located(log[chanKey[c]], b, owes[c][i])
        /\ owes[c][i].seq > sent[c]
        /\ \A j \in 1 .. Len(owes[c]) : i < j => owes[c][i].seq < owes[c][j].seq

CarriesFrom(c, b) ==
    /\ c \in subs[chanKey[c]] => b = Base(chanKey[c])
    /\ \A i \in 1 .. Len(chan[c]) : Located(log[chanKey[c]], b, chan[c][i])
    /\ \A r \in Runs : c \in todo[r] => Located(log[chanKey[c]], b, event[r])

ShownBelow(c, b) ==
    \A t \in Tabs : attached[t] = c =>
        \A j \in 1 .. Len(got[t]) : got[t][j] <= b + sent[c]

ServedFrom(c, b) ==
    /\ b <= Base(chanKey[c])
    /\ OwesFrom(c, b)
    /\ ShownBelow(c, b)
    /\ phase[c] # "tail" => CarriesFrom(c, b)

EpochInv == \A c \in Serving : \E b \in Nat : ServedFrom(c, b)

ForwardInv ==
    \A t \in Tabs :
        /\ \A i \in 1 .. Len(got[t]) :
               /\ got[t][i] \in 1 .. Len(log[TabKey[t]])
               /\ got[t][i] <= Base(TabKey[t]) + cursor[t]
        /\ \A i, j \in 1 .. Len(got[t]) : i < j => got[t][i] < got[t][j]

StreamInv == RegInv /\ StreamTypeOK /\ LogInv /\ Wired /\ EpochInv /\ ForwardInv

(* The position the view records is the one the event was published at.    *)
LEMMA PositionIs ==
    ASSUME LogType, EntriesDiffer, NEW k \in Keys, NEW b \in Nat, NEW e \in Event,
           Located(log[k], b, e)
    PROVE  Position(k, e) = b + e.seq /\ b + e.seq \in 1 .. Len(log[k])
<1> DEFINE i == b + e.seq
<1>1. e.seq \in Nat /\ log[k] \in Seq(LogEntry)
  BY DEF Event, LogType
<1>2. i \in 1 .. Len(log[k]) /\ log[k][i] = Entry(e)
  BY <1>1 DEF Located
<1>3. \A j \in 1 .. Len(log[k]) : log[k][j] = Entry(e) => j = i
  <2> SUFFICES ASSUME NEW j \in 1 .. Len(log[k]), log[k][j] = Entry(e), j # i PROVE FALSE
    OBVIOUS
  <2>1. j < i \/ i < j
    BY <1>2
  <2> HIDE DEF i
  <2> QED  BY <1>2, <2>1 DEF EntriesDiffer
<1> HIDE DEF i
<1>4. Position(k, e) = i
  BY <1>2, <1>3 DEF Position
<1> QED  BY <1>2, <1>4 DEF i

(* What the write of event e, published at b + e.seq, changes. *)
Delivered(c, b, e) ==
    /\ c \in Serving /\ tabOf[c] \in Tabs /\ chanKey[c] = TabKey[tabOf[c]]
    /\ Located(log[chanKey[c]], b, e) /\ e.seq > sent[c]
    /\ b + e.seq \in 1 .. Len(log[chanKey[c]])
    /\ sent' \in [Chans -> Nat] /\ cursor' \in [Tabs -> Nat] /\ got' \in [Tabs -> Seq(Nat)]
    /\ \A d \in Chans : sent'[d] = IF d = c THEN e.seq ELSE sent[d]
    /\ \A t \in Tabs :
           /\ cursor'[t] = IF attached[t] = c THEN e.seq ELSE cursor[t]
           /\ got'[t] = IF attached[t] = c THEN Append(got[t], b + e.seq) ELSE got[t]
    /\ UNCHANGED <<phase, tabOf, ended, attached, editVars, log, owed, mishap>>
    /\ UNCHANGED <<regVars, chanKey, runVars>>

LEMMA Writes ==
    ASSUME StreamInv, NEW c \in Serving, NEW b \in Nat, NEW e \in Event,
           Located(log[chanKey[c]], b, e), e.seq > sent[c], Write(c, e),
           UNCHANGED <<phase, tabOf, ended, attached, editVars, log, owed, mishap>>,
           UNCHANGED <<regVars, chanKey, runVars>>
    PROVE  Delivered(c, b, e)
<1> DEFINE t == tabOf[c]
<1>1. /\ c \in Chans /\ t \in Tabs /\ chanKey[c] = TabKey[t] /\ TabKey[t] \in Keys
      /\ \A u \in Tabs : attached[u] = c => u = t
  BY TabKeyType DEF Serving, StreamInv, Wired
<1>2. /\ LogType /\ EntriesDiffer
      /\ sent \in [Chans -> Nat] /\ cursor \in [Tabs -> Nat] /\ got \in [Tabs -> Seq(Nat)]
  BY DEF StreamInv, StreamTypeOK, LogInv, LogType, LogEntry
<1>3. Position(TabKey[t], e) = b + e.seq /\ b + e.seq \in 1 .. Len(log[chanKey[c]])
  BY <1>1, <1>2, PositionIs
<1>4. e.seq \in Nat /\ b + e.seq \in Nat
  BY <1>3 DEF Event
<1>5. /\ sent' = [sent EXCEPT ![c] = e.seq]
      /\ IF attached[t] = c
         THEN /\ cursor' = [cursor EXCEPT ![t] = e.seq]
              /\ got' = [got EXCEPT ![t] = Append(got[t], b + e.seq)]
         ELSE UNCHANGED <<cursor, got>>
  BY <1>1, <1>2, <1>3 DEF Write
<1>6. Append(got[t], b + e.seq) \in Seq(Nat)
  BY <1>1, <1>2, <1>4
<1> HIDE DEF t
<1>7. sent' \in [Chans -> Nat] /\ \A d \in Chans : sent'[d] = IF d = c THEN e.seq ELSE sent[d]
  BY <1>1, <1>2, <1>4, <1>5
<1>8. /\ cursor' \in [Tabs -> Nat] /\ got' \in [Tabs -> Seq(Nat)]
      /\ \A u \in Tabs :
             /\ cursor'[u] = IF attached[u] = c THEN e.seq ELSE cursor[u]
             /\ got'[u] = IF attached[u] = c THEN Append(got[u], b + e.seq) ELSE got[u]
  BY <1>1, <1>2, <1>4, <1>5, <1>6
<1> QED  BY <1>1, <1>3, <1>7, <1>8 DEF Delivered, t

(* A connection that writes, writes an event it carried.                   *)
LEMMA Deliveries ==
    ASSUME StreamInv, NEW c \in Chans
    PROVE  /\ WriteOwed(c) => /\ phase[c] \in {"replay", "tail"} /\ owes[c] # << >>
                              /\ \E b \in Nat : ServedFrom(c, b) /\ Delivered(c, b, Head(owes[c]))
           /\ Live(c) /\ Head(chan[c]).seq > sent[c] =>
                  \E b \in Nat : ServedFrom(c, b) /\ Delivered(c, b, Head(chan[c]))
<1>0. /\ owes[c] \in Seq(Event) /\ chan[c] \in Seq(Event)
      /\ c \in Serving => \E b \in Nat : ServedFrom(c, b)
  BY DEF StreamInv, StreamTypeOK, TypeOK, EpochInv
<1>1. ASSUME WriteOwed(c)
      PROVE  /\ phase[c] \in {"replay", "tail"} /\ owes[c] # << >>
             /\ \E b \in Nat : ServedFrom(c, b) /\ Delivered(c, b, Head(owes[c]))
  <2>1. phase[c] \in {"replay", "tail"} /\ owes[c] # << >> /\ c \in Serving
    BY <1>1 DEF WriteOwed, Serving
  <2>2. PICK b \in Nat : ServedFrom(c, b)
    BY <1>0, <2>1
  <2>3. Head(owes[c]) = owes[c][1] /\ 1 \in 1 .. Len(owes[c]) /\ Head(owes[c]) \in Event
    BY <1>0, <2>1
  <2>4. Located(log[chanKey[c]], b, Head(owes[c])) /\ Head(owes[c]).seq > sent[c]
    BY <2>2, <2>3 DEF ServedFrom, OwesFrom
  <2>5. /\ Write(c, Head(owes[c]))
        /\ UNCHANGED <<phase, tabOf, ended, attached, editVars, log, owed, mishap>>
        /\ UNCHANGED <<regVars, chanKey, runVars>>
    BY <1>1 DEF WriteOwed, vars, chanVars
  <2>6. Delivered(c, b, Head(owes[c]))
    BY <2>1, <2>3, <2>4, <2>5, Writes
  <2> QED  BY <2>1, <2>2, <2>6
<1>2. ASSUME Live(c), Head(chan[c]).seq > sent[c]
      PROVE  \E b \in Nat : ServedFrom(c, b) /\ Delivered(c, b, Head(chan[c]))
  <2>1. phase[c] = "live" /\ chan[c] # << >> /\ c \in Serving
    BY <1>2 DEF Live, Receive, Serving
  <2>2. PICK b \in Nat : ServedFrom(c, b)
    BY <1>0, <2>1
  <2>3. Head(chan[c]) = chan[c][1] /\ 1 \in 1 .. Len(chan[c]) /\ Head(chan[c]) \in Event
    BY <1>0, <2>1
  <2>4. Located(log[chanKey[c]], b, Head(chan[c]))
    BY <2>1, <2>2, <2>3 DEF ServedFrom, CarriesFrom
  <2>5. /\ Write(c, Head(chan[c]))
        /\ UNCHANGED <<phase, tabOf, ended, attached, editVars, log, owed, mishap>>
        /\ UNCHANGED <<regVars, chanKey, runVars>>
    BY <1>2 DEF Live, Receive
  <2>6. Delivered(c, b, Head(chan[c]))
    BY <1>2, <2>1, <2>3, <2>4, <2>5, Writes
  <2> QED  BY <2>2, <2>6
<1> QED  BY <1>1, <1>2

-----------------------------------------------------------------------------
(* Types and wiring. *)

ViewType ==
    /\ phase    \in [Chans -> Phases]
    /\ tabOf    \in [Chans -> Tabs \cup {NoTab}]
    /\ ended    \in [Chans -> Runs \cup {NoRun}]
    /\ sent     \in [Chans -> Nat]
    /\ owes     \in [Chans -> Seq(Event)]
    /\ attached \in [Tabs -> Chans \cup {NoConn}]
    /\ cursor   \in [Tabs -> Nat]
    /\ editing  \in [Keys -> BOOLEAN]
    /\ edits    \in 0 .. MaxEdits
    /\ got      \in [Tabs -> Seq(Nat)]
    /\ owed     \in [Chans -> SUBSET Nat]
    /\ mishap   \in [Tabs -> SUBSET Mishaps]

(* The stream's steps keep its types.                                      *)
LEMMA ViewStep == ASSUME StreamInv, [StreamNext]_allVars PROVE ViewType'
<1>0. ViewType /\ TypeOK /\ BufferIsLatest /\ LogType /\ BufferIsLogged /\ MaxEdits \in Nat
  BY MaxEditsType DEF StreamInv, StreamTypeOK, ViewType, RegInv, LogInv, LogType, LogEntry
<1>1. ASSUME UNCHANGED streamVars PROVE ViewType'
  BY <1>0, <1>1 DEF ViewType, streamVars, handlerVars, clientVars, editVars, ghostVars
<1>2. ASSUME NEW r \in Runs, StreamRunStep(r) PROVE ViewType'
  <2>1. CASE Emit(r) \/ Recover(r)
    BY <1>0, <1>1, <1>2, <2>1 DEF StreamRunStep, ViewType, streamVars, handlerVars,
       clientVars, editVars, ghostVars
  <2> QED  BY <1>1, <1>2, <2>1 DEF StreamRunStep
<1>3. ASSUME NEW r \in Runs, NEW c \in Chans, StreamOffer(r, c) PROVE ViewType'
  <2>1. mishap' \in [Tabs -> SUBSET Mishaps]
    BY <1>0, <1>3 DEF StreamOffer, ViewType, Mishaps
  <2> QED  BY <1>0, <1>3, <2>1 DEF StreamOffer, ViewType, handlerVars, clientVars, editVars
<1>4. ASSUME NEW r \in Runs, NEW k \in Keys, StreamStart(r, k) PROVE ViewType'
  BY <1>1, <1>4 DEF StreamStart
<1>5. ASSUME NEW c \in Chans, HandlerStep(c) PROVE ViewType'
  <2>1. ASSUME NEW b \in Nat, NEW e, Delivered(c, b, e), owes' = owes \/ owes' = [owes EXCEPT ![c] = Tail(@)],
               owes' # owes => owes[c] # << >>
        PROVE  ViewType'
    <3>1. owes' \in [Chans -> Seq(Event)]
      <4>1. owes[c] \in Seq(Event) /\ (owes[c] # << >> => Tail(owes[c]) \in Seq(Event))
        BY <1>0 DEF ViewType
      <4> QED  BY <1>0, <2>1, <4>1 DEF ViewType
    <3> QED  BY <1>0, <2>1, <3>1 DEF ViewType, Delivered, editVars
  <2>2. CASE WriteOwed(c)
    <3>1. owes' = [owes EXCEPT ![c] = Tail(@)] /\ owes[c] # << >>
      BY <2>2 DEF WriteOwed
    <3>2. PICK b \in Nat : Delivered(c, b, Head(owes[c]))
      BY <2>2, Deliveries
    <3> QED  BY <2>1, <3>1, <3>2
  <2>3. CASE Live(c) /\ Head(chan[c]).seq > sent[c]
    <3>1. owes' = owes
      BY <2>3 DEF Live
    <3>2. PICK b \in Nat : Delivered(c, b, Head(chan[c]))
      BY <2>3, Deliveries
    <3> QED  BY <2>1, <3>1, <3>2
  <2>4. CASE Live(c) /\ ~ (Head(chan[c]).seq > sent[c])
    BY <1>0, <2>4 DEF Live, ViewType, editVars
  <2>5. CASE Replayed(c) \/ TailWritten(c) \/ Disconnected(c)
    <3>1. phase' \in [Chans -> Phases]
      BY <1>0, <2>5 DEF Replayed, TailWritten, Disconnected, ViewType, Phases
    <3> QED  BY <1>0, <2>5, <3>1 DEF Replayed, TailWritten, Disconnected, ViewType,
             clientVars, editVars, ghostVars
  <2>6. CASE RunOver(c)
    <3>1. phase' \in [Chans -> Phases]
      BY <1>0, <2>6 DEF RunOver, ViewType, Phases
    <3>2. chanKey[c] \in Keys /\ sent[c] \in Nat
      <4>1. phase[c] = "live"
        BY <2>6 DEF RunOver
      <4>2. tabOf[c] \in Tabs /\ chanKey[c] = TabKey[tabOf[c]]
        BY <1>0, <4>1 DEF StreamInv, Wired
      <4>3. sent[c] \in Nat
        BY <1>0 DEF ViewType
      <4> QED  BY <4>2, <4>3, TabKeyType
    <3>3. EventsAfter(chanKey[c], sent[c]) \in Seq(Event)
      <4>1. PICK k \in Keys, since \in Nat : k = chanKey[c] /\ since = sent[c]
        BY <3>2
      <4> DEFINE q == EventsAfter(k, since)
      <4>2. q \in Seq(Event)
        BY <1>0, <4>1, Replay
      <4> HIDE DEF q
      <4>3. EventsAfter(chanKey[c], sent[c]) = q
        BY <4>1 DEF q
      <4> QED  BY <4>2, <4>3
    <3>4. owes' \in [Chans -> Seq(Event)]
      BY <1>0, <2>6, <3>3 DEF RunOver, ViewType
    <3> QED  BY <1>0, <2>6, <3>1, <3>4 DEF RunOver, ViewType, clientVars, editVars, ghostVars
  <2>7. CASE Leave(c)
    <3>1. /\ phase' \in [Chans -> Phases] /\ tabOf' \in [Chans -> Tabs \cup {NoTab}]
          /\ ended' \in [Chans -> Runs \cup {NoRun}] /\ sent' \in [Chans -> Nat]
          /\ owed' \in [Chans -> SUBSET Nat] /\ attached' \in [Tabs -> Chans \cup {NoConn}]
      BY <1>0, <2>7 DEF Leave, ViewType, Phases
    <3> QED  BY <1>0, <2>7, <3>1 DEF Leave, ViewType, editVars
  <2> QED  BY <1>5, <2>2, <2>3, <2>4, <2>5, <2>6, <2>7 DEF HandlerStep
<1>6. ASSUME NEW t \in Tabs, NEW c \in Chans, Open(t, c) PROVE ViewType'
  <2>1. TabKey[t] \in Keys /\ cursor[t] \in Nat
    BY <1>0, TabKeyType DEF ViewType
  <2>2. EventsAfter(TabKey[t], cursor[t]) \in Seq(Event)
    BY <1>0, <2>1, Replay
  <2>3. Len(log[TabKey[t]]) - lastSeq[TabKey[t]] + 1 .. Len(log[TabKey[t]]) \in SUBSET Nat
    <3>1. Len(log[TabKey[t]]) \in Nat /\ lastSeq[TabKey[t]] \in Nat /\ lastSeq[TabKey[t]] <= Len(log[TabKey[t]])
      BY <1>0, <2>1 DEF LogType, BufferIsLogged, TypeOK
    <3> QED  BY <3>1
  <2>4. active[TabKey[t]] \in Runs \cup {NoRun}
    BY <1>0, <2>1 DEF TypeOK
  <2>5. /\ attached' \in [Tabs -> Chans \cup {NoConn}] /\ phase' \in [Chans -> Phases]
        /\ tabOf' \in [Chans -> Tabs \cup {NoTab}] /\ sent' \in [Chans -> Nat]
    BY <1>0, <1>6, <2>1 DEF Open, ViewType, Phases
  <2>6. ended' \in [Chans -> Runs \cup {NoRun}] /\ owes' \in [Chans -> Seq(Event)]
    BY <1>0, <1>6, <2>2, <2>4 DEF Open, ViewType
  <2>7. owed' \in [Chans -> SUBSET Nat]
    BY <1>0, <1>6, <2>3 DEF Open, ViewType
  <2>8. mishap' \in [Tabs -> SUBSET Mishaps]
    BY <1>0, <1>6 DEF Open, ViewType, Mishaps
  <2> QED  BY <1>0, <1>6, <2>5, <2>6, <2>7, <2>8 DEF Open, ViewType, editVars
<1>7. ASSUME NEW t \in Tabs, Detach(t) PROVE ViewType'
  BY <1>0, <1>7 DEF Detach, ViewType, handlerVars, editVars, ghostVars
<1>8. ASSUME NEW t \in Tabs, Reload(t) PROVE ViewType'
  <2>1. << >> \in Seq(Nat)
    OBVIOUS
  <2>2. /\ attached' \in [Tabs -> Chans \cup {NoConn}] /\ cursor' \in [Tabs -> Nat]
        /\ got' \in [Tabs -> Seq(Nat)] /\ mishap' \in [Tabs -> SUBSET Mishaps]
    BY <1>0, <1>8, <2>1 DEF Reload, ViewType
  <2> QED  BY <1>0, <1>8, <2>2 DEF Reload, ViewType, handlerVars, editVars
<1>9. ASSUME NEW k \in Keys, EditCheck(k) PROVE ViewType'
  <2>1. editing' \in [Keys -> BOOLEAN] /\ edits' \in 0 .. MaxEdits
    BY <1>0, <1>9 DEF EditCheck, ViewType
  <2> QED  BY <1>0, <1>9, <2>1 DEF EditCheck, ViewType, handlerVars, clientVars, ghostVars
<1>10. ASSUME NEW k \in Keys, EditDrop(k) PROVE ViewType'
  <2>1. editing' \in [Keys -> BOOLEAN] /\ mishap' \in [Tabs -> SUBSET Mishaps]
    BY <1>0, <1>10 DEF EditDrop, ViewType, Mishaps
  <2> QED  BY <1>0, <1>10, <2>1 DEF EditDrop, ViewType, handlerVars, clientVars
<1>11. CASE UNCHANGED allVars
  BY <1>1, <1>11 DEF allVars
<1> QED  BY <1>2, <1>3, <1>4, <1>5, <1>6, <1>7, <1>8, <1>9, <1>10, <1>11 DEF StreamNext

(* A connection serves the tab that opened it, from the tab's cursor, until *)
(* it is closed.                                                            *)
LEMMA WiredStep == ASSUME StreamInv, [StreamNext]_allVars PROVE Wired'
<1>0. ViewType /\ TypeOK /\ Wired
  BY DEF StreamInv, StreamTypeOK, ViewType, RegInv
<1>1. ASSUME UNCHANGED <<chanKey, phase, tabOf, sent, owes, attached, cursor>> PROVE Wired'
  BY <1>0, <1>1 DEF Wired
<1>2. ASSUME NEW r \in Runs, StreamRunStep(r) PROVE Wired'
  <2>1. UNCHANGED <<chanKey, phase, tabOf, sent, owes, attached, cursor>>
    BY <1>2 DEF StreamRunStep, Emit, Recover, Return, Panic, Unregister, CloseDone, Publish,
                chanVars, streamVars, handlerVars, clientVars
  <2> QED  BY <1>1, <2>1
<1>3. ASSUME NEW r \in Runs, NEW c \in Chans, StreamOffer(r, c) PROVE Wired'
  BY <1>1, <1>3 DEF StreamOffer, Offer, handlerVars, clientVars
<1>4. ASSUME NEW r \in Runs, NEW k \in Keys, StreamStart(r, k) PROVE Wired'
  BY <1>1, <1>4 DEF StreamStart, Start, chanVars, streamVars, handlerVars, clientVars
<1>5. ASSUME NEW c \in Chans, HandlerStep(c) PROVE Wired'
  <2>1. ASSUME NEW b \in Nat, NEW e, Delivered(c, b, e),
               \/ owes' = owes
               \/ phase[c] \in {"replay", "tail"} /\ owes' = [owes EXCEPT ![c] = Tail(@)]
        PROVE  Wired'
    <3>1. UNCHANGED <<phase, tabOf, attached, chanKey>>
      BY <2>1 DEF Delivered
    <3>2. ASSUME NEW d \in Chans, NEW t \in Tabs, attached[t] = d PROVE cursor'[t] = sent'[d]
      <4>1. cursor[t] = sent[d]
        BY <1>0, <3>2 DEF Wired
      <4>2. /\ sent'[d] = IF d = c THEN e.seq ELSE sent[d]
            /\ cursor'[t] = IF attached[t] = c THEN e.seq ELSE cursor[t]
        BY <2>1 DEF Delivered
      <4> QED  BY <3>2, <4>1, <4>2
    <3>3. \A d \in Chans : phase[d] \in {"live", "leaving"} => owes'[d] = << >>
      BY <1>0, <2>1 DEF Wired, ViewType
    <3> QED  BY <1>0, <3>1, <3>2, <3>3 DEF Wired
  <2>2. CASE WriteOwed(c)
    <3>1. owes' = [owes EXCEPT ![c] = Tail(@)] /\ phase[c] \in {"replay", "tail"}
      BY <2>2 DEF WriteOwed
    <3>2. PICK b \in Nat : Delivered(c, b, Head(owes[c]))
      BY <2>2, Deliveries
    <3> QED  BY <2>1, <3>1, <3>2
  <2>3. CASE Live(c) /\ Head(chan[c]).seq > sent[c]
    <3>1. owes' = owes
      BY <2>3 DEF Live
    <3>2. PICK b \in Nat : Delivered(c, b, Head(chan[c]))
      BY <2>3, Deliveries
    <3> QED  BY <2>1, <3>1, <3>2
  <2>4. CASE Live(c) /\ ~ (Head(chan[c]).seq > sent[c])
    BY <1>1, <2>4 DEF Live, Receive
  <2>5. CASE Replayed(c) \/ TailWritten(c) \/ Disconnected(c)
    <3>1. /\ phase[c] \in {"replay", "live", "tail"} /\ owes[c] = << >>
          /\ \E p \in {"live", "leaving"} : phase' = [phase EXCEPT ![c] = p]
          /\ UNCHANGED <<chanKey, tabOf, sent, owes, attached, cursor>>
      BY <1>0, <2>5 DEF Replayed, TailWritten, Disconnected, vars, chanVars, clientVars, Wired
    <3>2. PICK p \in {"live", "leaving"} : phase' = [phase EXCEPT ![c] = p]
      BY <3>1
    <3>3. \A d \in Chans : phase'[d] = IF d = c THEN p ELSE phase[d]
      BY <1>0, <3>2 DEF ViewType
    <3> QED  BY <1>0, <3>1, <3>3 DEF Wired
  <2>6. CASE RunOver(c)
    <3>1. /\ phase[c] = "live" /\ \A d \in Chans : phase'[d] = IF d = c THEN "tail" ELSE phase[d]
          /\ \A d \in Chans : d # c => owes'[d] = owes[d]
          /\ UNCHANGED <<chanKey, tabOf, sent, attached, cursor>>
      BY <1>0, <2>6 DEF RunOver, ViewType, vars, chanVars, clientVars
    <3> QED  BY <1>0, <3>1 DEF Wired
  <2>7. CASE Leave(c)
    <3>1. /\ phase[c] = "leaving" /\ \A d \in Chans : phase'[d] = IF d = c THEN "closed" ELSE phase[d]
          /\ \A d \in Chans : d # c => tabOf'[d] = tabOf[d] /\ sent'[d] = sent[d]
          /\ \A t \in Tabs : attached'[t] = IF attached[t] = c THEN NoConn ELSE attached[t]
          /\ UNCHANGED <<chanKey, owes, cursor>>
      BY <1>0, <2>7 DEF Leave, ViewType, Unsubscribe, chanVars
    <3> QED  BY <1>0, <3>1, NoConnIsNoConn DEF Wired
  <2> QED  BY <1>5, <2>2, <2>3, <2>4, <2>5, <2>6, <2>7 DEF HandlerStep
<1>6. ASSUME NEW t \in Tabs, NEW c \in Chans, Open(t, c) PROVE Wired'
  <2>1. /\ chanKey[c] = NoKey
        /\ \A d \in Chans : /\ chanKey'[d] = IF d = c THEN TabKey[t] ELSE chanKey[d]
                            /\ phase'[d] = IF d = c THEN "replay" ELSE phase[d]
                            /\ tabOf'[d] = IF d = c THEN t ELSE tabOf[d]
                            /\ sent'[d] = IF d = c THEN cursor[t] ELSE sent[d]
                            /\ d # c => owes'[d] = owes[d]
        /\ \A u \in Tabs : attached'[u] = IF u = t THEN c ELSE attached[u]
        /\ cursor' = cursor
    BY <1>0, <1>6 DEF Open, Subscribe, ViewType, TypeOK
  <2>2. TabKey[t] \in Keys /\ TabKey[t] # NoKey
    BY TabKeyType, NoKeyIsNoKey
  <2>3. phase[c] = "none"
    BY <1>0, <2>1 DEF Wired
  <2> QED  BY <1>0, <2>1, <2>2, <2>3 DEF Wired
<1>7. ASSUME NEW t \in Tabs, Detach(t) \/ Reload(t) PROVE Wired'
  <2>1. /\ \A u \in Tabs : attached'[u] = IF u = t THEN NoConn ELSE attached[u]
        /\ \A u \in Tabs : u # t => cursor'[u] = cursor[u]
        /\ UNCHANGED <<chanKey, phase, tabOf, sent, owes>>
    BY <1>0, <1>7 DEF Detach, Reload, ViewType, vars, chanVars, handlerVars
  <2> QED  BY <1>0, <2>1, NoConnIsNoConn DEF Wired
<1>8. ASSUME NEW k \in Keys, EditCheck(k) \/ EditDrop(k) PROVE Wired'
  BY <1>1, <1>8 DEF EditCheck, EditDrop, DropSession, vars, chanVars, handlerVars, clientVars
<1>9. CASE UNCHANGED allVars
  BY <1>1, <1>9 DEF allVars, vars, chanVars, streamVars, handlerVars, clientVars
<1> QED  BY <1>2, <1>3, <1>4, <1>5, <1>6, <1>7, <1>8, <1>9 DEF StreamNext

-----------------------------------------------------------------------------
(* Forward. *)

LEMMA Facts ==
    ASSUME StreamInv
    PROVE  /\ \A k \in Keys : /\ log[k] \in Seq(LogEntry) /\ Len(log[k]) \in Nat
                              /\ lastSeq[k] \in Nat /\ lastSeq[k] <= Len(log[k])
                              /\ Base(k) \in Nat /\ Base(k) + lastSeq[k] = Len(log[k])
           /\ \A c \in Chans : /\ chan[c] \in Seq(Event) /\ owes[c] \in Seq(Event)
                               /\ sent[c] \in Nat
           /\ \A t \in Tabs : TabKey[t] \in Keys /\ cursor[t] \in Nat /\ got[t] \in Seq(Nat)
           /\ \A r \in Runs : event[r] \in Event
           /\ \A c \in Serving :
                  /\ c \in Chans /\ phase[c] \notin {"none", "closed"} /\ tabOf[c] \in Tabs
                  /\ chanKey[c] = TabKey[tabOf[c]] /\ chanKey[c] \in Keys
<1>1. TypeOK /\ StreamTypeOK /\ LogType /\ BufferIsLogged /\ Wired
  BY DEF StreamInv, RegInv, LogInv, StreamTypeOK, LogType, LogEntry
<1>2. ASSUME NEW k \in Keys
      PROVE  /\ log[k] \in Seq(LogEntry) /\ Len(log[k]) \in Nat
             /\ lastSeq[k] \in Nat /\ lastSeq[k] <= Len(log[k])
             /\ Base(k) \in Nat /\ Base(k) + lastSeq[k] = Len(log[k])
  <2>1. log[k] \in Seq(LogEntry) /\ lastSeq[k] \in Nat /\ lastSeq[k] <= Len(log[k])
    BY <1>1 DEF TypeOK, LogType, BufferIsLogged
  <2>2. Len(log[k]) \in Nat
    BY <2>1
  <2> QED  BY <2>1, <2>2 DEF Base
<1>3. \A c \in Chans : chan[c] \in Seq(Event) /\ owes[c] \in Seq(Event) /\ sent[c] \in Nat
  BY <1>1 DEF TypeOK, StreamTypeOK
<1>4. \A t \in Tabs : TabKey[t] \in Keys /\ cursor[t] \in Nat /\ got[t] \in Seq(Nat)
  BY <1>1, TabKeyType DEF StreamTypeOK
<1>5. \A r \in Runs : event[r] \in Event
  BY <1>1 DEF TypeOK
<1>6. \A c \in Serving :
          /\ c \in Chans /\ phase[c] \notin {"none", "closed"} /\ tabOf[c] \in Tabs
          /\ chanKey[c] = TabKey[tabOf[c]] /\ chanKey[c] \in Keys
  BY <1>1, <1>4 DEF Serving, Wired
<1> QED  BY <1>2, <1>3, <1>4, <1>5, <1>6

(* What moves the log and the counters.                                    *)
LEMMA LogMoves ==
    ASSUME [StreamNext]_allVars
    PROVE  \/ \E r \in Runs : (Emit(r) \/ Recover(r)) /\ Record(r)
           \/ UNCHANGED <<log, lastSeq>>
           \/ \E q \in Keys : EditDrop(q)
<1>1. ASSUME NEW r \in Runs, StreamRunStep(r)
      PROVE  ((Emit(r) \/ Recover(r)) /\ Record(r)) \/ UNCHANGED <<log, lastSeq>>
  BY <1>1 DEF StreamRunStep, Return, Panic, Unregister, CloseDone, regVars, streamVars, ghostVars
<1>2. ASSUME NEW r \in Runs, NEW c \in Chans, StreamOffer(r, c) PROVE UNCHANGED <<log, lastSeq>>
  BY <1>2 DEF StreamOffer, Offer, regVars
<1>3. ASSUME NEW r \in Runs, NEW q \in Keys, StreamStart(r, q) PROVE UNCHANGED <<log, lastSeq>>
  BY <1>3 DEF StreamStart, Start, streamVars, ghostVars
<1>4. ASSUME NEW c \in Chans, HandlerStep(c) PROVE UNCHANGED <<log, lastSeq>>
  BY <1>4 DEF HandlerStep, WriteOwed, Replayed, Live, RunOver, TailWritten, Disconnected,
     Leave, Receive, Unsubscribe, vars, regVars, ghostVars
<1>5. ASSUME NEW t \in Tabs, NEW c \in Chans, Open(t, c) PROVE UNCHANGED <<log, lastSeq>>
  BY <1>5 DEF Open, Subscribe
<1>6. ASSUME NEW t \in Tabs, Detach(t) \/ Reload(t) PROVE UNCHANGED <<log, lastSeq>>
  BY <1>6 DEF Detach, Reload, vars, regVars, ghostVars
<1>7. ASSUME NEW q \in Keys, EditCheck(q) PROVE UNCHANGED <<log, lastSeq>>
  BY <1>7 DEF EditCheck, vars, regVars, ghostVars
<1>8. CASE UNCHANGED allVars
  BY <1>8 DEF allVars, vars, regVars, streamVars, ghostVars
<1> QED  BY <1>1, <1>2, <1>3, <1>4, <1>5, <1>6, <1>7, <1>8 DEF StreamNext

(* Logs only grow, and no counter restarts below what it has counted.      *)
Grown(k) ==
    /\ Base(k)' \in Nat /\ Base(k)' >= Base(k)
    /\ Len(log'[k]) \in Nat /\ Len(log'[k]) >= Len(log[k])
    /\ \A i \in 1 .. Len(log[k]) : log'[k][i] = log[k][i]
    /\ \A i \in Len(log[k]) + 1 .. Len(log'[k]) : pc[log'[k][i].run] \in {"body", "panicked"}
    /\ \A b \in Nat, e \in Event : Located(log[k], b, e) => Located(log'[k], b, e)
    /\ EditDrop(k) \/ (Base(k)' = Base(k) /\ lastSeq'[k] >= lastSeq[k])

LEMMA LogsGrow == ASSUME StreamInv, [StreamNext]_allVars, NEW k \in Keys PROVE Grown(k)
<1>0. /\ RegInv /\ LogType /\ LogInv /\ Base(k) \in Nat /\ Base(k) + lastSeq[k] = Len(log[k])
      /\ log[k] \in Seq(LogEntry) /\ Len(log[k]) \in Nat /\ lastSeq[k] \in Nat
  <2>1. RegInv /\ LogInv /\ LogType
    BY DEF StreamInv, StreamTypeOK, LogType, LogEntry
  <2> QED  BY <2>1, Facts
<1>1. ASSUME UNCHANGED log, \/ lastSeq'[k] = lastSeq[k]
                            \/ lastSeq'[k] = 0 /\ EditDrop(k)
      PROVE  Grown(k)
  BY <1>0, <1>1 DEF Base, Grown
<1>2. ASSUME NEW r \in Runs, Emit(r) \/ Recover(r), Record(r)
      PROVE  Grown(k)
  <2>1. PICK q \in Keys, e \in Event : Published(r, q, e)
    BY <1>0, <1>2, Publishes
  <2>2. CASE q # k
    <3>1. log'[k] = log[k] /\ lastSeq'[k] = lastSeq[k]
      BY <2>1, <2>2 DEF Published
    <3> QED  BY <1>0, <3>1 DEF Base, Grown
  <2>3. CASE q = k
    <3>1. lastSeq'[k] = lastSeq[k] + 1 /\ log'[k] = Append(log[k], Entry(e)) /\ e.n = event[r].n + 1
          /\ e.run = r
      BY <2>1, <2>3 DEF Published
    <3>2. Entry(e) \in LogEntry
      BY <2>1 DEF Event, Entry, LogEntry
    <3>3. /\ Base(k)' = Base(k)
          /\ Len(log'[k]) \in Nat /\ Len(log'[k]) >= Len(log[k])
      <4>1. Len(log'[k]) = Len(log[k]) + 1
        BY <1>0, <3>1, <3>2, AppendProperties
      <4> DEFINE n == Len(log[k])
                 z == lastSeq[k]
                 m == Len(log'[k])
                 y == lastSeq'[k]
      <4>2. n \in Nat /\ z \in Nat /\ m = n + 1 /\ y = z + 1
        BY <1>0, <3>1, <4>1
      <4>3. Base(k) = n - z /\ Base(k)' = m - y
        BY DEF Base
      <4> HIDE DEF n, z, m, y
      <4>4. Base(k)' = Base(k) /\ m \in Nat /\ m >= n
        BY <4>2, <4>3
      <4> QED  BY <4>4 DEF m, n
    <3>4. ASSUME NEW b \in Nat, NEW f \in Event, Located(log[k], b, f)
          PROVE  Located(log'[k], b, f)
      <4>1. f.seq \in Nat
        BY DEF Event
      <4>2. Located(Append(log[k], Entry(e)), b, f)
        BY <1>0, <3>2, <3>4, <4>1, LocatedGrows
      <4> QED  BY <3>1, <4>2
    <3>5. lastSeq'[k] >= lastSeq[k]
      BY <1>0, <3>1
    <3>6. /\ \A i \in 1 .. Len(log[k]) : log'[k][i] = log[k][i]
          /\ \A i \in Len(log[k]) + 1 .. Len(log'[k]) : log'[k][i] = Entry(e)
      <4> DEFINE L == log[k]
                 x == Entry(e)
      <4>1. L \in Seq(LogEntry) /\ x \in LogEntry /\ log'[k] = Append(L, x) /\ Len(L) \in Nat
        BY <1>0, <3>1, <3>2
      <4> HIDE DEF L, x
      <4>2. Len(Append(L, x)) = Len(L) + 1 /\ Append(L, x)[Len(L) + 1] = x
            /\ \A i \in 1 .. Len(L) : Append(L, x)[i] = L[i]
        BY <4>1, AppendProperties
      <4>3. \A i \in Len(L) + 1 .. Len(L) + 1 : i = Len(L) + 1
        BY <4>1
      <4> QED  BY <4>1, <4>2, <4>3 DEF L, x
    <3>7. Entry(e).run = r /\ pc[r] \in {"body", "panicked"}
      BY <1>2, <3>1 DEF Entry, Emit, Recover
    <3>8. \A i \in Len(log[k]) + 1 .. Len(log'[k]) : pc[log'[k][i].run] \in {"body", "panicked"}
      BY <3>6, <3>7
    <3>9. Base(k)' \in Nat /\ Base(k)' >= Base(k)
      BY <1>0, <3>3
    <3> QED  BY <3>3, <3>4, <3>5, <3>6, <3>8, <3>9 DEF Grown
  <2> QED  BY <2>2, <2>3
<1>3. ASSUME UNCHANGED <<log, lastSeq>>
      PROVE  Grown(k)
  BY <1>1, <1>3
<1>4. ASSUME NEW q \in Keys, EditDrop(q) PROVE Grown(k)
  <2>1. /\ UNCHANGED log
        /\ lastSeq'[k] = IF k \in {q} THEN 0 ELSE lastSeq[k]
    BY <1>4 DEF EditDrop, DropSession, Forget
  <2> QED  BY <1>1, <1>4, <2>1
<1> QED  BY <1>1, <1>2, <1>3, <1>4, LogMoves

(* What keeps a connection carrying events of one numbering.               *)
LEMMA CarriesKept ==
    ASSUME NEW c \in Chans, NEW b \in Nat, NEW k \in Keys, CarriesFrom(c, b),
           chanKey[c] = k, chanKey'[c] = k,
           chan[c] \in Seq(Event), \A r \in Runs : event[r] \in Event,
           \A e \in Event : Located(log[k], b, e) => Located(log'[k], b, e),
           c \in subs'[k] => c \in subs[k] /\ Base(k)' = Base(k),
           \A i \in 1 .. Len(chan'[c]) :
               \/ \E j \in 1 .. Len(chan[c]) : chan'[c][i] = chan[c][j]
               \/ \E r \in Runs : c \in todo[r] /\ chan'[c][i] = event[r],
           \A r \in Runs : c \in todo'[r] =>
               \/ c \in todo[r] /\ event'[r] = event[r]
               \/ Located(log'[k], b, event'[r])
    PROVE  CarriesFrom(c, b)'
<1>1. c \in subs'[k] => b = Base(k)'
  BY DEF CarriesFrom
<1>2. ASSUME NEW i \in 1 .. Len(chan'[c]) PROVE Located(log'[k], b, chan'[c][i])
  <2>1. CASE \E j \in 1 .. Len(chan[c]) : chan'[c][i] = chan[c][j]
    <3>1. PICK j \in 1 .. Len(chan[c]) : chan'[c][i] = chan[c][j]
      BY <2>1
    <3>2. chan[c][j] \in Event /\ Located(log[k], b, chan[c][j])
      BY DEF CarriesFrom
    <3> QED  BY <3>1, <3>2
  <2>2. CASE \E r \in Runs : c \in todo[r] /\ chan'[c][i] = event[r]
    BY <2>2 DEF CarriesFrom
  <2> QED  BY <2>1, <2>2
<1>3. \A r \in Runs : c \in todo'[r] => Located(log'[k], b, event'[r])
  BY DEF CarriesFrom
<1> QED  BY <1>1, <1>2, <1>3 DEF CarriesFrom

(* What keeps a connection serving from that numbering.                    *)
LEMMA ServedKept ==
    ASSUME StreamInv, [StreamNext]_allVars, NEW c \in Serving, NEW b \in Nat, ServedFrom(c, b),
           chanKey'[c] = chanKey[c], owes'[c] = owes[c], sent'[c] = sent[c],
           \A t \in Tabs : attached'[t] = c => attached[t] = c /\ got'[t] = got[t],
           phase'[c] # "tail" => CarriesFrom(c, b)'
    PROVE  ServedFrom(c, b)'
<1> DEFINE k == chanKey[c]
<1>1. c \in Chans /\ k \in Keys /\ owes[c] \in Seq(Event) /\ Base(k) \in Nat
  BY Facts
<1>2. PICK q \in Keys : q = chanKey[c]
  BY <1>1
<1>3. /\ Base(q)' \in Nat /\ Base(q)' >= Base(q)
      /\ \A f \in Event : Located(log[q], b, f) => Located(log'[q], b, f)
  BY LogsGrow DEF Grown
<1>4. b <= Base(q) /\ OwesFrom(c, b) /\ ShownBelow(c, b)
  BY <1>2 DEF ServedFrom
<1>5. b <= Base(chanKey[c])'
  <2>1. b <= Base(q)'
    BY <1>1, <1>2, <1>3, <1>4
  <2> QED  BY <1>2, <2>1 DEF Base
<1>6. OwesFrom(c, b)'
  <2>1. \A i \in 1 .. Len(owes[c]) : owes[c][i] \in Event
    BY <1>1
  <2> QED  BY <1>2, <1>3, <1>4, <2>1 DEF OwesFrom
<1>7. ShownBelow(c, b)'
  BY <1>4 DEF ShownBelow
<1> QED  BY <1>5, <1>6, <1>7 DEF ServedFrom

(* A connection that writes goes on in the same numbering.                 *)
LEMMA ServedAfterWrite ==
    ASSUME StreamInv, [StreamNext]_allVars, NEW c \in Serving, NEW b \in Nat,
           NEW e \in Event, ServedFrom(c, b), Delivered(c, b, e),
           \/ phase[c] = "live" /\ UNCHANGED owes
           \/ owes[c] # << >> /\ e = Head(owes[c]) /\ owes' = [owes EXCEPT ![c] = Tail(@)],
           phase[c] # "tail" => CarriesFrom(c, b)'
    PROVE  ServedFrom(c, b)'
<1>1. c \in Chans /\ chanKey[c] \in Keys /\ Base(chanKey[c]) \in Nat /\ owes[c] \in Seq(Event)
      /\ owes \in [Chans -> Seq(Event)] /\ sent[c] \in Nat /\ e.seq \in Nat
  BY Facts DEF StreamInv, StreamTypeOK, Event
<1>2. PICK k \in Keys : k = chanKey[c]
  BY <1>1
<1>3. /\ Base(k)' >= Base(k) /\ Base(k)' \in Nat
      /\ \A f \in Event : Located(log[k], b, f) => Located(log'[k], b, f)
  BY LogsGrow DEF Grown
<1>4. b <= Base(k) /\ OwesFrom(c, b) /\ ShownBelow(c, b)
  BY <1>2 DEF ServedFrom
<1>5. phase'[c] = phase[c] /\ chanKey'[c] = chanKey[c] /\ sent'[c] = e.seq /\ e.seq > sent[c]
      /\ attached' = attached
  BY <1>1 DEF Delivered
<1>6. b <= Base(chanKey[c])'
  <2>1. b <= Base(k)'
    BY <1>1, <1>2, <1>3, <1>4
  <2> QED  BY <1>2, <1>5, <2>1 DEF Base
<1>7. OwesFrom(c, b)'
  <2>1. CASE phase[c] = "live" /\ UNCHANGED owes
    <3>1. owes[c] = << >>
      BY <1>1, <2>1 DEF StreamInv, Wired
    <3>2. owes'[c] = << >> /\ Len(owes'[c]) = 0
      BY <2>1, <3>1
    <3> QED  BY <3>2 DEF OwesFrom
  <2>2. CASE owes[c] # << >> /\ e = Head(owes[c]) /\ owes' = [owes EXCEPT ![c] = Tail(@)]
    <3> DEFINE o == owes[c]
               w == Tail(o)
    <3>1. o \in Seq(Event) /\ Len(o) >= 1 /\ e = o[1] /\ owes'[c] = w
      BY <1>1, <2>2
    <3>2. /\ \A i \in 1 .. Len(o) : Located(log[k], b, o[i])
          /\ \A i, j \in 1 .. Len(o) : i < j => o[i].seq < o[j].seq
      BY <1>2, <1>4 DEF OwesFrom
    <3> HIDE DEF o
    <3>3. Len(w) = Len(o) - 1 /\ \A i \in 1 .. Len(w) : w[i] = o[i + 1] /\ i + 1 \in 1 .. Len(o)
      BY <3>1
    <3> HIDE DEF w
    <3>4. ASSUME NEW i \in 1 .. Len(w)
          PROVE  /\ Located(log'[k], b, w[i]) /\ w[i].seq > e.seq
                 /\ \A j \in 1 .. Len(w) : i < j => w[i].seq < w[j].seq
      <4>1. w[i] = o[i + 1] /\ i + 1 \in 1 .. Len(o) /\ 1 \in 1 .. Len(o) /\ 1 < i + 1
        BY <3>1, <3>3
      <4>2. w[i] \in Event /\ Located(log[k], b, w[i])
        BY <3>1, <3>2, <4>1
      <4>3. e.seq < w[i].seq
        BY <3>1, <3>2, <4>1
      <4>4. ASSUME NEW j \in 1 .. Len(w), i < j PROVE w[i].seq < w[j].seq
        <5>1. i + 1 < j + 1 /\ w[j] = o[j + 1] /\ j + 1 \in 1 .. Len(o)
          BY <3>3, <4>4
        <5> QED  BY <3>2, <4>1, <5>1
      <4>5. w[i].seq \in Nat
        BY <4>2 DEF Event
      <4>6. w[i].seq > e.seq
        BY <1>1, <4>3, <4>5
      <4> QED  BY <1>3, <4>2, <4>4, <4>6
    <3> QED  BY <1>2, <1>5, <3>1, <3>4 DEF OwesFrom
  <2> QED  BY <2>1, <2>2
<1>8. ShownBelow(c, b)'
  <2> SUFFICES ASSUME NEW t \in Tabs, attached[t] = c, NEW j \in 1 .. Len(got'[t])
               PROVE  got'[t][j] <= b + e.seq
    BY <1>5 DEF ShownBelow
  <2> DEFINE g == got[t]
             x == b + e.seq
  <2>1. g \in Seq(Nat) /\ got'[t] = Append(g, x) /\ x \in Nat
    <3>1. g \in Seq(Nat) /\ b + e.seq \in Nat
      BY <1>1, Facts
    <3>2. got'[t] = Append(got[t], b + e.seq)
      BY DEF Delivered
    <3> QED  BY <3>1, <3>2
  <2>2. \A i \in 1 .. Len(g) : g[i] <= b + sent[c]
    BY <1>4 DEF ShownBelow
  <2>3. ASSUME NEW y \in Nat, y <= b + sent[c] PROVE y <= x
    BY <1>1, <1>5, <2>3
  <2> HIDE DEF g, x
  <2>4. \A i \in 1 .. Len(g) : g[i] <= x
    <3> TAKE i \in 1 .. Len(g)
    <3>1. g[i] \in Nat
      BY <2>1
    <3>2. g[i] <= b + sent[c]
      BY <2>2
    <3> QED  BY <2>3, <3>1, <3>2
  <2>5. (j \in 1 .. Len(g) /\ got'[t][j] = g[j]) \/ got'[t][j] = x
    BY <2>1, AppendProperties
  <2>6. x <= x
    BY <2>1
  <2>7. got'[t][j] <= x
    BY <2>4, <2>5, <2>6
  <2> QED  BY <2>7 DEF x
<1> QED  BY <1>5, <1>6, <1>7, <1>8 DEF ServedFrom

(* What the registry gives a connection whose channel and targets it left   *)
(* alone.                                                                   *)
LEMMA CarriesOn ==
    ASSUME StreamInv, [StreamNext]_allVars, NEW c \in Serving, NEW b \in Nat, CarriesFrom(c, b),
           UNCHANGED <<log, lastSeq, event>>, chanKey'[c] = chanKey[c],
           c \in subs'[chanKey[c]] => c \in subs[chanKey[c]],
           \/ chan'[c] = chan[c]
           \/ chan[c] # << >> /\ chan'[c] = Tail(chan[c])
           \/ \E r \in Runs : c \in todo[r] /\ chan'[c] = Append(chan[c], event[r]),
           \A r \in Runs : c \in todo'[r] => c \in todo[r]
    PROVE  CarriesFrom(c, b)'
<1>1. c \in Chans /\ chanKey[c] \in Keys /\ chan[c] \in Seq(Event) /\ \A r \in Runs : event[r] \in Event
  BY Facts
<1>2. PICK k \in Keys : k = chanKey[c]
  BY <1>1
<1>3. Base(k)' = Base(k)
  BY DEF Base
<1>4. ASSUME NEW i \in 1 .. Len(chan'[c])
      PROVE  \/ \E j \in 1 .. Len(chan[c]) : chan'[c][i] = chan[c][j]
             \/ \E r \in Runs : c \in todo[r] /\ chan'[c][i] = event[r]
  <2> DEFINE s == chan[c]
             w == chan'[c]
  <2>1. CASE w = s
    BY <2>1
  <2>2. CASE s # << >> /\ w = Tail(s)
    <3>1. s \in Seq(Event) /\ i \in 1 .. Len(w)
      BY <1>1
    <3> HIDE DEF s, w
    <3>2. i + 1 \in 1 .. Len(s) /\ w[i] = s[i + 1]
      BY <2>2, <3>1
    <3> QED  BY <3>2 DEF s, w
  <2>3. CASE \E r \in Runs : c \in todo[r] /\ w = Append(s, event[r])
    <3>1. PICK r \in Runs : c \in todo[r] /\ w = Append(s, event[r])
      BY <2>3
    <3>2. s \in Seq(Event) /\ i \in 1 .. Len(w) /\ event[r] \in Event
      BY <1>1
    <3> HIDE DEF s, w
    <3>3. (i \in 1 .. Len(s) /\ w[i] = s[i]) \/ w[i] = event[r]
      BY <3>1, <3>2, AppendProperties
    <3> QED  BY <3>1, <3>3 DEF s, w
  <2> QED  BY <2>1, <2>2, <2>3
<1> QED  BY <1>1, <1>2, <1>3, <1>4, CarriesKept

(* What is numbered without a gap ascends.                                 *)
LEMMA ReplayAscends ==
    ASSUME NEW l \in Nat, NEW p \in Seq(Event),
           \A j \in 1 .. Len(p) : p[j].seq + Len(p) = l + j
    PROVE  \A i, j \in 1 .. Len(p) : i < j => p[i].seq < p[j].seq
<1> SUFFICES ASSUME NEW i \in 1 .. Len(p), NEW j \in 1 .. Len(p), i < j
             PROVE  p[i].seq < p[j].seq
  OBVIOUS
<1> DEFINE x == p[i].seq
           y == p[j].seq
           n == Len(p)
<1>1. p[i] \in Event /\ p[j] \in Event /\ n \in Nat
  OBVIOUS
<1>2. x \in Nat /\ y \in Nat /\ x + n = l + i /\ y + n = l + j
  BY <1>1 DEF Event
<1> HIDE DEF x, y, n
<1>3. x < y
  BY <1>1, <1>2
<1> QED  BY <1>3 DEF x, y

(* A connection that starts to replay.                                     *)
LEMMA ServedAnew ==
    ASSUME StreamInv, NEW c \in Chans, NEW k \in Keys, NEW since \in Nat, NEW z \in Nat,
           z = Base(k), UNCHANGED <<log, lastSeq>>, chanKey'[c] = k, sent'[c] = since,
           owes'[c] = EventsAfter(k, since),
           \A t \in Tabs : attached'[t] = c =>
               \A j \in 1 .. Len(got'[t]) : got'[t][j] <= z + since,
           phase'[c] # "tail" => chan'[c] = << >> /\ \A r \in Runs : c \notin todo'[r]
    PROVE  ServedFrom(c, z)'
<1>1. TypeOK /\ BufferIsLatest /\ BufferIsLogged /\ lastSeq[k] \in Nat
  BY Facts DEF StreamInv, RegInv, LogInv
<1>2. PICK p : p = EventsAfter(k, since)
  OBVIOUS
<1>3. /\ p \in Seq(Event)
      /\ \A j \in 1 .. Len(p) :
             /\ p[j].seq + Len(p) = lastSeq[k] + j
             /\ p[j].seq > since
             /\ \E i \in 1 .. Len(buffer[k]) : p[j] = buffer[k][i]
  <2> DEFINE q == EventsAfter(k, since)
  <2>1. TypeOK /\ BufferIsLatest
    BY <1>1
  <2>2. /\ q \in Seq(Event)
        /\ \A j \in 1 .. Len(q) :
               /\ q[j].seq + Len(q) = lastSeq[k] + j
               /\ q[j].seq > since
               /\ \E i \in 1 .. Len(buffer[k]) : q[j] = buffer[k][i]
    BY <2>1, Replay
  <2> HIDE DEF q
  <2>3. p = q
    BY <1>2 DEF q
  <2> QED  BY <2>2, <2>3
<1>4. \A i \in 1 .. Len(buffer[k]) : Located(log[k], z, buffer[k][i])
  BY <1>1 DEF BufferIsLogged
<1>5. \A i \in 1 .. Len(p) :
          /\ Located(log[k], z, p[i]) /\ p[i].seq > since
          /\ \A j \in 1 .. Len(p) : i < j => p[i].seq < p[j].seq
  <2>1. \A i, j \in 1 .. Len(p) : i < j => p[i].seq < p[j].seq
    BY <1>1, <1>3, ReplayAscends
  <2> QED  BY <1>3, <1>4, <2>1
<1>6. OwesFrom(c, z)'
  BY <1>2, <1>5 DEF OwesFrom
<1>7. ShownBelow(c, z)'
  BY DEF ShownBelow
<1>8. Base(chanKey[c])' = z
  BY DEF Base
<1>9. phase'[c] # "tail" => CarriesFrom(c, z)'
  <2> SUFFICES ASSUME phase'[c] # "tail" PROVE CarriesFrom(c, z)'
    OBVIOUS
  <2>1. Len(chan'[c]) = 0
    OBVIOUS
  <2> QED  BY <1>8, <2>1 DEF CarriesFrom
<1>10. z <= Base(chanKey[c])'
  BY <1>8
<1> QED  BY <1>6, <1>7, <1>9, <1>10 DEF ServedFrom

(* All a connection is still to write comes after what its tab was shown.  *)
LEMMA EpochStep == ASSUME StreamInv, [StreamNext]_allVars PROVE EpochInv'
<1>0. /\ StreamTypeOK /\ TypeOK /\ Wired /\ EpochInv /\ ForwardInv /\ RegInv /\ LogType
      /\ LogInv /\ BufferIsLogged /\ BufferIsLatest /\ WriterInv /\ Placed
      /\ SubscribersOfTheKey /\ TargetsOfTheKey /\ FreshIsEmpty
  BY DEF StreamInv, RegInv, ChannelInv, LogInv, StreamTypeOK, LogType, LogEntry
<1>00. /\ phase \in [Chans -> Phases] /\ owes \in [Chans -> Seq(Event)] /\ sent \in [Chans -> Nat]
       /\ chan \in [Chans -> Seq(Event)] /\ chanKey \in [Chans -> Keys \cup {NoKey}]
       /\ subs \in [Keys -> SUBSET Chans] /\ todo \in [Runs -> SUBSET Chans]
       /\ \A c \in Serving : c \in Chans /\ chanKey[c] \in Keys
  BY <1>0, Facts DEF StreamTypeOK, TypeOK
(* A step of the registry. *)
<1>1. ASSUME UNCHANGED <<phase, chanKey, owes, sent>>,
             \A c \in Serving, t \in Tabs : attached'[t] = c => attached[t] = c /\ got'[t] = got[t],
             \A c \in Serving, b \in Nat : CarriesFrom(c, b) => CarriesFrom(c, b)'
      PROVE  EpochInv'
  <2>1. Serving' = Serving
    BY <1>1 DEF Serving
  <2>2. ASSUME NEW c \in Serving PROVE \E b \in Nat : ServedFrom(c, b)'
    <3>1. PICK b \in Nat : ServedFrom(c, b)
      BY <1>0 DEF EpochInv
    <3>2. phase'[c] # "tail" => CarriesFrom(c, b)'
      BY <1>1, <3>1 DEF ServedFrom
    <3>3. ServedFrom(c, b)'
      BY <1>1, <3>1, <3>2, ServedKept
    <3> QED  BY <3>3
  <2> QED  BY <2>1, <2>2 DEF EpochInv
<1>2. ASSUME UNCHANGED <<phase, chanKey, owes, sent>>,
             UNCHANGED <<log, lastSeq, event, subs, chan, todo>>,
             \A t \in Tabs : attached'[t] \in Chans => attached[t] = attached'[t] /\ got'[t] = got[t]
      PROVE  EpochInv'
  <2>1. \A c \in Serving, b \in Nat : CarriesFrom(c, b) => CarriesFrom(c, b)'
    BY <1>2 DEF CarriesFrom, Base
  <2>2. \A c \in Serving, t \in Tabs : attached'[t] = c => attached[t] = c /\ got'[t] = got[t]
    BY <1>00, <1>2
  <2> QED  BY <1>1, <1>2, <2>1, <2>2
<1>3. ASSUME NEW r \in Runs, Emit(r) \/ Recover(r), Record(r),
             UNCHANGED <<handlerVars, clientVars, got>>
      PROVE  EpochInv'
  <2>1. PICK k \in Keys, e \in Event : Published(r, k, e)
    BY <1>0, <1>3, Publishes
  <2>2. /\ k = runKey[r] /\ e.seq = lastSeq[k] + 1
        /\ log'[k] = Append(log[k], Entry(e)) /\ lastSeq'[k] = lastSeq[k] + 1
        /\ \A q \in Keys : q # k => log'[q] = log[q] /\ lastSeq'[q] = lastSeq[q]
        /\ event'[r] = e /\ todo'[r] = subs[k]
        /\ \A q \in Runs : q # r => event'[q] = event[q] /\ todo'[q] = todo[q]
        /\ UNCHANGED <<subs, chan, chanKey>>
    BY <2>1 DEF Published
  <2>3. /\ log[k] \in Seq(LogEntry) /\ Len(log[k]) \in Nat /\ lastSeq[k] \in Nat
        /\ Base(k) \in Nat /\ Base(k) + lastSeq[k] = Len(log[k]) /\ Entry(e) \in LogEntry
    BY Facts DEF Event, Entry, LogEntry
  <2>4. Len(log'[k]) = Len(log[k]) + 1 /\ log'[k][Len(log[k]) + 1] = Entry(e)
    BY <2>2, <2>3, AppendProperties
  <2>5. Base(k)' = Base(k) /\ Located(log'[k], Base(k), e)
    <3> DEFINE n == Len(log[k])
               z == lastSeq[k]
               m == Len(log'[k])
               y == lastSeq'[k]
               s == e.seq
    <3>1. n \in Nat /\ z \in Nat /\ m = n + 1 /\ y = z + 1 /\ s = z + 1
      BY <2>2, <2>3, <2>4
    <3>2. Base(k) = n - z /\ Base(k)' = m - y
      BY DEF Base
    <3> HIDE DEF n, z, m, y, s
    <3>3. Base(k)' = Base(k) /\ Base(k) + s = n + 1 /\ s >= 1 /\ n + 1 <= m
      BY <3>1, <3>2
    <3> QED  BY <2>4, <3>3 DEF Located, n, m, s
  <2>6. ASSUME NEW c \in Serving, NEW b \in Nat, CarriesFrom(c, b) PROVE CarriesFrom(c, b)'
    <3>1. PICK q \in Keys : q = chanKey[c]
      BY <1>00
    <3>2. c \in subs'[q] => c \in subs[q] /\ Base(q)' = Base(q)
      <4>1. q # k => Base(q)' = Base(q)
        BY <2>2 DEF Base
      <4> QED  BY <2>2, <2>5, <4>1
    <3>3. ASSUME NEW p \in Runs, c \in todo'[p]
          PROVE  \/ c \in todo[p] /\ event'[p] = event[p]
                 \/ Located(log'[q], b, event'[p])
      <4>1. CASE p # r
        BY <2>2, <3>3, <4>1
      <4>2. CASE p = r
        <5>1. c \in subs[k] /\ q = k
          BY <1>0, <2>2, <3>1, <3>3, <4>2 DEF SubscribersOfTheKey
        <5>2. b = Base(k)
          BY <2>6, <3>1, <5>1 DEF CarriesFrom
        <5> QED  BY <2>2, <2>5, <4>2, <5>1, <5>2
      <4> QED  BY <4>1, <4>2
    <3>4. /\ c \in Chans /\ chanKey[c] = q /\ chanKey'[c] = q /\ chan'[c] = chan[c]
          /\ chan[c] \in Seq(Event) /\ \A p \in Runs : event[p] \in Event
          /\ \A f \in Event : Located(log[q], b, f) => Located(log'[q], b, f)
      BY <1>00, <2>2, <3>1, Facts, LogsGrow DEF Grown
    <3> QED  BY <2>6, <3>2, <3>3, <3>4, CarriesKept
  <2> QED  BY <1>1, <1>3, <2>2, <2>6 DEF handlerVars, clientVars
<1>4. ASSUME NEW r \in Runs, StreamRunStep(r) PROVE EpochInv'
  <2>1. CASE (Return(r) \/ Panic(r) \/ Unregister(r) \/ CloseDone(r)) /\ UNCHANGED streamVars
    BY <1>2, <2>1 DEF Return, Panic, Unregister, CloseDone, regVars, chanVars,
             streamVars, handlerVars, clientVars, ghostVars
  <2>2. CASE (Emit(r) \/ Recover(r)) /\ Record(r) /\ UNCHANGED <<handlerVars, clientVars, got>>
    BY <1>3, <2>2
  <2> QED  BY <1>4, <2>1, <2>2 DEF StreamRunStep
<1>5. ASSUME NEW r \in Runs, NEW d \in Chans, StreamOffer(r, d) PROVE EpochInv'
  <2>1. /\ UNCHANGED <<phase, chanKey, owes, sent, attached, got>>
        /\ UNCHANGED <<log, lastSeq, event, subs>>
        /\ d \in todo[r] /\ todo' = [todo EXCEPT ![r] = @ \ {d}]
        /\ chan' = chan \/ chan' = [chan EXCEPT ![d] = Append(@, event[r])]
    BY <1>5 DEF StreamOffer, Offer, regVars, handlerVars, clientVars
  <2>2. ASSUME NEW c \in Serving, NEW b \in Nat, CarriesFrom(c, b) PROVE CarriesFrom(c, b)'
    <3>1. \A q \in Runs : c \in todo'[q] => c \in todo[q]
      BY <1>00, <2>1
    <3>2. chan'[c] = chan[c] \/ (c = d /\ chan'[c] = Append(chan[c], event[r]))
      BY <1>00, <2>1
    <3>3. chan'[c] = chan[c] \/ (\E q \in Runs : c \in todo[q] /\ chan'[c] = Append(chan[c], event[q]))
      BY <2>1, <3>2
    <3> QED  BY <2>1, <2>2, <3>1, <3>3, CarriesOn
  <2> QED  BY <1>1, <2>1, <2>2
<1>6. ASSUME NEW r \in Runs, NEW k \in Keys, StreamStart(r, k) PROVE EpochInv'
  BY <1>2, <1>6 DEF StreamStart, Start, chanVars, streamVars, handlerVars, clientVars, ghostVars
<1>7. ASSUME NEW c \in Chans, HandlerStep(c) PROVE EpochInv'
  (* What the step leaves of the other connections. *)
  <2>1. ASSUME UNCHANGED <<chanKey, log, lastSeq, event, todo>>,
               \A d \in Chans \ {c} : phase'[d] = phase[d] /\ owes'[d] = owes[d] /\ sent'[d] = sent[d]
                                      /\ chan'[d] = chan[d],
               \A k \in Keys : subs'[k] \subseteq subs[k],
               \A t \in Tabs : attached'[t] \in Chans \ {c} =>
                   attached[t] = attached'[t] /\ got'[t] = got[t],
               c \in Serving' => \E b \in Nat : ServedFrom(c, b)'
        PROVE  EpochInv'
    <3>1. ASSUME NEW d \in Serving', d # c PROVE \E b \in Nat : ServedFrom(d, b)'
      <4>1. d \in Serving
        BY <2>1, <3>1 DEF Serving
      <4>2. PICK b \in Nat : ServedFrom(d, b)
        BY <1>0, <4>1 DEF EpochInv
      <4>3. \A t \in Tabs : attached'[t] = d => attached[t] = d /\ got'[t] = got[t]
        BY <1>00, <2>1, <3>1, <4>1
      <4>4. /\ phase'[d] = phase[d] /\ owes'[d] = owes[d] /\ sent'[d] = sent[d]
            /\ chan'[d] = chan[d] /\ chanKey'[d] = chanKey[d]
        BY <1>00, <2>1, <3>1, <4>1
      <4>5. c \in Chans /\ (d \in subs'[chanKey[d]] => d \in subs[chanKey[d]])
        BY <1>00, <2>1, <4>1
      <4>6. phase'[d] # "tail" => CarriesFrom(d, b)'
        BY <2>1, <4>1, <4>2, <4>4, <4>5, CarriesOn DEF ServedFrom
      <4>7. ServedFrom(d, b)'
        BY <4>1, <4>2, <4>3, <4>4, <4>6, ServedKept
      <4> QED  BY <4>7
    <3> QED  BY <2>1, <3>1 DEF EpochInv
  <2>2. ASSUME NEW b \in Nat, NEW e \in Event, ServedFrom(c, b), Delivered(c, b, e), UNCHANGED <<todo>>,
               \/ phase[c] = "live" /\ UNCHANGED owes /\ chan' = [chan EXCEPT ![c] = Tail(@)]
                  /\ chan[c] # << >>
               \/ /\ owes[c] # << >> /\ e = Head(owes[c]) /\ owes' = [owes EXCEPT ![c] = Tail(@)]
                  /\ chan' = chan
        PROVE  EpochInv'
    <3>1. /\ UNCHANGED <<phase, chanKey, log, lastSeq, event, subs, attached>> /\ c \in Serving
          /\ \A d \in Chans : sent'[d] = IF d = c THEN e.seq ELSE sent[d]
          /\ \A t \in Tabs : got'[t] = IF attached[t] = c THEN Append(got[t], b + e.seq) ELSE got[t]
      BY <2>2 DEF Delivered, regVars, runVars
    <3>2. phase[c] # "tail" => CarriesFrom(c, b)'
      <4>1. chan'[c] = chan[c] \/ (chan[c] # << >> /\ chan'[c] = Tail(chan[c]))
        BY <1>00, <2>2
      <4> QED  BY <2>2, <3>1, <4>1, CarriesOn DEF ServedFrom
    <3>3. ServedFrom(c, b)'
      BY <2>2, <3>1, <3>2, ServedAfterWrite
    <3>4. \A d \in Chans \ {c} : owes'[d] = owes[d] /\ chan'[d] = chan[d]
      BY <1>00, <2>2
    <3> QED  BY <2>1, <2>2, <3>1, <3>3, <3>4
  <2>3. CASE WriteOwed(c)
    <3>1. /\ owes' = [owes EXCEPT ![c] = Tail(@)] /\ owes[c] # << >>
          /\ Head(owes[c]) \in Event /\ UNCHANGED <<chan, todo>>
      BY <1>00, <2>3 DEF WriteOwed, vars, chanVars, runVars
    <3>2. PICK b \in Nat : ServedFrom(c, b) /\ Delivered(c, b, Head(owes[c]))
      BY <2>3, Deliveries
    <3> QED  BY <2>2, <3>1, <3>2
  <2>4. CASE Live(c) /\ Head(chan[c]).seq > sent[c]
    <3>1. /\ phase[c] = "live" /\ UNCHANGED owes /\ chan' = [chan EXCEPT ![c] = Tail(@)]
          /\ chan[c] # << >> /\ Head(chan[c]) \in Event /\ UNCHANGED todo
      BY <1>00, <2>4 DEF Live, Receive, runVars
    <3>2. PICK b \in Nat : ServedFrom(c, b) /\ Delivered(c, b, Head(chan[c]))
      BY <2>4, Deliveries
    <3> QED  BY <2>2, <3>1, <3>2
  <2>5. CASE Live(c) /\ ~ (Head(chan[c]).seq > sent[c])
    <3>1. /\ UNCHANGED <<phase, chanKey, owes, sent, attached, got, log, lastSeq, event, subs, todo>>
          /\ chan[c] # << >> /\ chan' = [chan EXCEPT ![c] = Tail(@)]
      BY <2>5 DEF Live, Receive, regVars, runVars
    <3>2. ASSUME NEW d \in Serving, NEW b \in Nat, CarriesFrom(d, b) PROVE CarriesFrom(d, b)'
      <4>1. chan'[d] = chan[d] \/ (chan[d] # << >> /\ chan'[d] = Tail(chan[d]))
        BY <1>00, <3>1
      <4> QED  BY <3>1, <3>2, <4>1, CarriesOn
    <3> QED  BY <1>1, <3>1, <3>2
  <2>6. CASE Replayed(c) \/ TailWritten(c) \/ Disconnected(c)
    <3>1. /\ UNCHANGED <<chanKey, owes, sent, attached, got, log, lastSeq, event, subs, todo, chan>>
          /\ phase[c] \in {"replay", "live", "tail"}
          /\ \E p \in {"live", "leaving"} : phase' = [phase EXCEPT ![c] = p]
                                            /\ (p = "live" => phase[c] = "replay")
      BY <2>6 DEF Replayed, TailWritten, Disconnected, vars, regVars, chanVars, runVars, clientVars,
                  ghostVars
    <3>2. PICK p \in {"live", "leaving"} : phase' = [phase EXCEPT ![c] = p]
                                           /\ (p = "live" => phase[c] = "replay")
      BY <3>1
    <3>3. phase'[c] = p /\ \A d \in Chans \ {c} : phase'[d] = phase[d]
      BY <1>00, <3>2
    <3>4. ASSUME c \in Serving' PROVE \E b \in Nat : ServedFrom(c, b)'
      <4>1. p = "live" /\ phase[c] = "replay" /\ c \in Serving
        BY <3>2, <3>3, <3>4 DEF Serving
      <4>2. PICK b \in Nat : ServedFrom(c, b)
        BY <1>0, <4>1 DEF EpochInv
      <4>3. CarriesFrom(c, b)'
        BY <3>1, <4>1, <4>2 DEF ServedFrom, CarriesFrom, Base
      <4>4. ServedFrom(c, b)'
        BY <3>1, <4>1, <4>2, <4>3, ServedKept
      <4> QED  BY <4>4
    <3> QED  BY <2>1, <3>1, <3>3, <3>4
  <2>7. CASE RunOver(c)
    <3>1. /\ UNCHANGED <<chanKey, sent, attached, got, log, lastSeq, event, subs, todo, chan>>
          /\ phase[c] = "live" /\ phase' = [phase EXCEPT ![c] = "tail"]
          /\ owes' = [owes EXCEPT ![c] = EventsAfter(chanKey[c], sent[c])]
      BY <2>7 DEF RunOver, vars, regVars, chanVars, runVars, clientVars, ghostVars
    <3>2. /\ phase'[c] = "tail" /\ \A d \in Chans \ {c} : phase'[d] = phase[d] /\ owes'[d] = owes[d]
          /\ owes'[c] = EventsAfter(chanKey[c], sent[c])
      BY <1>00, <3>1
    <3>3. c \in Serving /\ chanKey[c] \in Keys /\ sent[c] \in Nat
      BY <1>00, <3>1 DEF Serving
    <3>4. PICK k \in Keys : k = chanKey[c]
      BY <3>3
    <3>5. PICK b \in Nat : ServedFrom(c, b)
      BY <1>0, <3>3 DEF EpochInv
    <3>6. PICK z \in Nat : z = Base(k)
      BY <3>4, Facts
    <3>7. PICK since \in Nat : since = sent[c]
      BY <3>3
    <3>8. ASSUME NEW t \in Tabs, attached[t] = c, NEW j \in 1 .. Len(got[t])
          PROVE  got[t][j] <= z + since
      <4>1. got[t][j] <= b + since /\ got[t][j] \in Nat /\ b <= z
        BY <3>4, <3>5, <3>6, <3>7, <3>8, Facts DEF ServedFrom, ShownBelow
      <4> QED  BY <4>1
    <3>9. ServedFrom(c, z)'
      BY <3>1, <3>2, <3>4, <3>6, <3>7, <3>8, ServedAnew
    <3> QED  BY <2>1, <3>1, <3>2, <3>9
  <2>8. CASE Leave(c)
    <3>1. /\ UNCHANGED <<chanKey, owes, got, log, lastSeq, event, todo, chan>>
          /\ phase' = [phase EXCEPT ![c] = "closed"] /\ sent' = [sent EXCEPT ![c] = 0]
          /\ chanKey[c] # NoKey /\ subs' = [subs EXCEPT ![chanKey[c]] = @ \ {c}]
          /\ attached' = [t \in Tabs |-> IF attached[t] = c THEN NoConn ELSE attached[t]]
      BY <2>8 DEF Leave, Unsubscribe, chanVars, runVars
    <3>2. /\ phase'[c] = "closed"
          /\ \A d \in Chans \ {c} : phase'[d] = phase[d] /\ sent'[d] = sent[d]
          /\ \A k \in Keys : subs'[k] \subseteq subs[k]
      BY <1>00, <3>1
    <3>3. c \notin Serving'
      BY <3>2 DEF Serving
    <3>4. \A t \in Tabs : attached'[t] \in Chans \ {c} => attached[t] = attached'[t]
      BY <3>1, NoConnIsNoConn
    <3> QED  BY <2>1, <3>1, <3>2, <3>3, <3>4
  <2> QED  BY <1>7, <2>3, <2>4, <2>5, <2>6, <2>7, <2>8 DEF HandlerStep
<1>8. ASSUME NEW t \in Tabs, NEW c \in Chans, Open(t, c) PROVE EpochInv'
  <2> DEFINE k == TabKey[t]
  <2>1. k \in Keys /\ cursor[t] \in Nat /\ Base(k) \in Nat
    BY Facts
  <2>0. PICK since \in Nat : since = cursor[t]
    BY <2>1
  <2>4. PICK z \in Nat : z = Base(k)
    BY <2>1
  <2>2. /\ chanKey[c] = NoKey /\ phase[c] = "none" /\ chan[c] = << >>
        /\ \A r \in Runs : c \notin todo[r]
    <3>1. chanKey[c] = NoKey
      BY <1>8 DEF Open, Subscribe
    <3>2. ASSUME NEW r \in Runs, c \in todo[r] PROVE FALSE
      <4>1. runKey[r] = NoKey /\ Registered(r)
        BY <1>0, <3>1, <3>2 DEF TargetsOfTheKey, WriterInv, Fanning
      <4> QED  BY <1>0, <4>1 DEF Placed, Registered
    <3> QED  BY <1>0, <3>1, <3>2 DEF Wired, FreshIsEmpty
  <2>3. /\ UNCHANGED <<log, lastSeq, event, todo, chan, got>>
        /\ \A d \in Chans : /\ chanKey'[d] = IF d = c THEN k ELSE chanKey[d]
                            /\ phase'[d] = IF d = c THEN "replay" ELSE phase[d]
                            /\ sent'[d] = IF d = c THEN since ELSE sent[d]
                            /\ owes'[d] = IF d = c THEN EventsAfter(k, since) ELSE owes[d]
        /\ \A q \in Keys : subs'[q] = IF q = k THEN subs[q] \cup {c} ELSE subs[q]
        /\ \A u \in Tabs : attached'[u] = IF u = t THEN c ELSE attached[u]
    <3>1. attached \in [Tabs -> Chans \cup {NoConn}]
      BY <1>0 DEF StreamTypeOK
    <3> QED  BY <1>8, <1>00, <2>0, <3>1 DEF Open, Subscribe, runVars
  <2>6. \A j \in 1 .. Len(got[t]) : got[t][j] <= z + since
    BY <1>0, <2>0, <2>4 DEF ForwardInv
  <2>7. \A u \in Tabs : attached'[u] = c => u = t
    BY <1>0, <2>2, <2>3 DEF Wired
  <2>8. ASSUME NEW d \in Serving', d # c PROVE \E b \in Nat : ServedFrom(d, b)'
    <3>1. d \in Serving /\ d \in Chans /\ chanKey[d] \in Keys
      BY <1>00, <2>3, <2>8 DEF Serving
    <3>2. PICK b \in Nat : ServedFrom(d, b)
      BY <1>0, <3>1 DEF EpochInv
    <3>3. \A u \in Tabs : attached'[u] = d => attached[u] = d /\ got'[u] = got[u]
      BY <2>3, <2>8
    <3>4. /\ phase'[d] = phase[d] /\ owes'[d] = owes[d] /\ sent'[d] = sent[d]
          /\ chan'[d] = chan[d] /\ chanKey'[d] = chanKey[d]
          /\ (d \in subs'[chanKey[d]] => d \in subs[chanKey[d]])
      <4>1. d \in subs'[chanKey[d]] => d \in subs[chanKey[d]]
        <5>1. \A q \in Keys : subs'[q] = subs[q] \/ subs'[q] = subs[q] \cup {c}
          BY <2>3
        <5>2. subs'[chanKey[d]] = subs[chanKey[d]] \/ subs'[chanKey[d]] = subs[chanKey[d]] \cup {c}
          BY <3>1, <5>1
        <5> QED  BY <2>8, <5>2
      <4>2. chan'[d] = chan[d]
        BY <2>3
      <4> HIDE DEF k
      <4> QED  BY <2>3, <2>8, <3>1, <4>1, <4>2
    <3>5. phase'[d] # "tail" => CarriesFrom(d, b)'
      BY <2>3, <3>1, <3>2, <3>4, CarriesOn DEF ServedFrom
    <3>6. ServedFrom(d, b)'
      BY <3>1, <3>2, <3>3, <3>4, <3>5, ServedKept
    <3> QED  BY <3>6
  <2>9. ServedFrom(c, z)'
    <3>1. PICK key \in Keys : key = k
      BY <2>1
    <3>2. z = Base(key) /\ UNCHANGED <<log, lastSeq>>
      BY <2>3, <2>4, <3>1
    <3>3. chanKey'[c] = key /\ sent'[c] = since /\ owes'[c] = EventsAfter(key, since)
      <4> HIDE DEF k
      <4> QED  BY <2>3, <3>1
    <3>4. chan'[c] = << >> /\ \A r \in Runs : c \notin todo'[r]
      BY <2>2, <2>3
    <3>5. \A u \in Tabs : attached'[u] = c => \A j \in 1 .. Len(got'[u]) : got'[u][j] <= z + since
      BY <2>3, <2>6, <2>7
    <3> HIDE DEF k
    <3> QED  BY <1>0, <3>2, <3>3, <3>4, <3>5, ServedAnew
  <2> QED  BY <2>8, <2>9 DEF EpochInv
<1>9. ASSUME NEW t \in Tabs, Detach(t) \/ Reload(t) PROVE EpochInv'
  <2>1. \A u \in Tabs : attached'[u] \in Chans => attached[u] = attached'[u] /\ got'[u] = got[u]
    <3>1. attached \in [Tabs -> Chans \cup {NoConn}] /\ got \in [Tabs -> Seq(Nat)]
      BY <1>0 DEF StreamTypeOK
    <3> QED  BY <1>9, <3>1, NoConnIsNoConn DEF Detach, Reload, ghostVars
  <2> QED  BY <1>2, <1>9, <2>1 DEF Detach, Reload, vars, regVars, chanVars, runVars, handlerVars, ghostVars
<1>10. ASSUME NEW k \in Keys, EditCheck(k) PROVE EpochInv'
  BY <1>2, <1>10 DEF EditCheck, vars, regVars, chanVars, runVars, handlerVars, clientVars, ghostVars
<1>11. ASSUME NEW k \in Keys, EditDrop(k) PROVE EpochInv'
  <2>1. /\ UNCHANGED <<phase, chanKey, owes, sent, attached, got, log, event, todo, chan>>
        /\ subs' = [q \in Keys |-> IF q \in {k} THEN {} ELSE subs[q]]
        /\ lastSeq' = [q \in Keys |-> IF q \in {k} THEN 0 ELSE lastSeq[q]]
    BY <1>11 DEF EditDrop, DropSession, Forget, chanVars, runVars, handlerVars, clientVars
  <2>2. ASSUME NEW c \in Serving, NEW b \in Nat, CarriesFrom(c, b) PROVE CarriesFrom(c, b)'
    <3>1. PICK q \in Keys : q = chanKey[c]
      BY <1>00
    <3>2. c \in subs'[q] => c \in subs[q] /\ Base(q)' = Base(q)
      BY <2>1 DEF Base
    <3>3. /\ c \in Chans /\ chanKey[c] = q /\ chanKey'[c] = q /\ chan'[c] = chan[c]
          /\ chan[c] \in Seq(Event) /\ \A p \in Runs : event[p] \in Event
          /\ \A f \in Event : Located(log[q], b, f) => Located(log'[q], b, f)
      BY <1>00, <2>1, <3>1, Facts, LogsGrow DEF Grown
    <3> QED  BY <2>1, <2>2, <3>2, <3>3, CarriesKept
  <2> QED  BY <1>1, <2>1, <2>2
<1>12. CASE UNCHANGED allVars
  BY <1>2, <1>12 DEF allVars, vars, regVars, chanVars, runVars, streamVars, handlerVars, clientVars, ghostVars
<1> QED  BY <1>4, <1>5, <1>6, <1>7, <1>8, <1>9, <1>10, <1>11, <1>12 DEF StreamNext

(* The next event of a connection: of the replay or the tail, or live.     *)
NextOf(c, e) ==
    \/ owes[c] # << >> /\ e = Head(owes[c])
    \/ phase[c] = "live" /\ chan[c] # << >> /\ e = Head(chan[c])

(* What moves the log, the views and the cursors.                          *)
LEMMA FeedMoves ==
    ASSUME StreamInv, [StreamNext]_allVars
    PROVE  \/ \E r \in Runs : (Emit(r) \/ Recover(r)) /\ Record(r) /\ UNCHANGED <<got, cursor>>
           \/ \E c \in Chans, b \in Nat, e \in Event :
                  ServedFrom(c, b) /\ Delivered(c, b, e) /\ NextOf(c, e)
           \/ \E t \in Tabs : Reload(t)
           \/ UNCHANGED <<log, got, cursor>>
<1>1. ASSUME NEW r \in Runs, StreamRunStep(r)
      PROVE  \/ (Emit(r) \/ Recover(r)) /\ Record(r) /\ UNCHANGED <<got, cursor>>
             \/ UNCHANGED <<log, got, cursor>>
  BY <1>1 DEF StreamRunStep, streamVars, clientVars, ghostVars
<1>2. ASSUME NEW r \in Runs, NEW c \in Chans, StreamOffer(r, c) PROVE UNCHANGED <<log, got, cursor>>
  BY <1>2 DEF StreamOffer, clientVars
<1>3. ASSUME NEW r \in Runs, NEW k \in Keys, StreamStart(r, k) PROVE UNCHANGED <<log, got, cursor>>
  BY <1>3 DEF StreamStart, streamVars, clientVars, ghostVars
<1>4. ASSUME NEW c \in Chans, HandlerStep(c)
      PROVE  \/ \E b \in Nat, e \in Event : ServedFrom(c, b) /\ Delivered(c, b, e) /\ NextOf(c, e)
             \/ UNCHANGED <<log, got, cursor>>
  <2>1. owes[c] \in Seq(Event) /\ chan[c] \in Seq(Event)
    BY Facts
  <2>2. CASE WriteOwed(c)
    <3>1. Head(owes[c]) \in Event /\ NextOf(c, Head(owes[c]))
      BY <2>1, <2>2 DEF WriteOwed, NextOf
    <3> QED  BY <2>2, <3>1, Deliveries
  <2>3. CASE Live(c) /\ Head(chan[c]).seq > sent[c]
    <3>1. Head(chan[c]) \in Event /\ NextOf(c, Head(chan[c]))
      BY <2>1, <2>3 DEF Live, Receive, NextOf
    <3> QED  BY <2>3, <3>1, Deliveries
  <2>4. CASE Live(c) /\ ~ (Head(chan[c]).seq > sent[c])
    BY <2>4 DEF Live
  <2>5. CASE Replayed(c) \/ RunOver(c) \/ TailWritten(c) \/ Disconnected(c) \/ Leave(c)
    BY <2>5 DEF Replayed, RunOver, TailWritten, Disconnected, Leave, clientVars, ghostVars
  <2> QED  BY <1>4, <2>2, <2>3, <2>4, <2>5 DEF HandlerStep
<1>5. ASSUME NEW t \in Tabs, NEW c \in Chans, Open(t, c) PROVE UNCHANGED <<log, got, cursor>>
  BY <1>5 DEF Open
<1>6. ASSUME NEW t \in Tabs, Detach(t) PROVE UNCHANGED <<log, got, cursor>>
  BY <1>6 DEF Detach, ghostVars
<1>7. ASSUME NEW k \in Keys, EditCheck(k) \/ EditDrop(k) PROVE UNCHANGED <<log, got, cursor>>
  BY <1>7 DEF EditCheck, EditDrop, clientVars, ghostVars
<1>8. CASE UNCHANGED allVars
  BY <1>8 DEF allVars, streamVars, clientVars, ghostVars
<1> QED  BY <1>1, <1>2, <1>3, <1>4, <1>5, <1>6, <1>7, <1>8 DEF StreamNext

(* The tab a delivery is shown to.                                         *)
LEMMA OneReader ==
    ASSUME StreamInv, NEW c \in Chans, NEW b \in Nat, NEW e \in Event,
           ServedFrom(c, b), Delivered(c, b, e), NEW t \in Tabs, attached[t] = c
    PROVE  /\ t = tabOf[c] /\ chanKey[c] = TabKey[t] /\ cursor'[t] = e.seq
           /\ got'[t] = Append(got[t], b + e.seq)
           /\ b + e.seq \in 1 .. Len(log[TabKey[t]])
           /\ b + e.seq <= Base(TabKey[t]) + e.seq
           /\ \A j \in 1 .. Len(got[t]) : got[t][j] < b + e.seq
<1>1. /\ t = tabOf[c] /\ chanKey[c] = TabKey[t] /\ TabKey[t] \in Keys /\ sent[c] \in Nat
      /\ got[t] \in Seq(Nat) /\ Base(TabKey[t]) \in Nat /\ e.seq \in Nat
  BY Facts DEF StreamInv, Wired, Delivered, Event
<1>2. /\ cursor'[t] = e.seq /\ got'[t] = Append(got[t], b + e.seq) /\ e.seq > sent[c]
      /\ b + e.seq \in 1 .. Len(log[TabKey[t]])
  BY <1>1 DEF Delivered
<1>3. b <= Base(TabKey[t]) /\ \A j \in 1 .. Len(got[t]) : got[t][j] <= b + sent[c]
  BY <1>1 DEF ServedFrom, ShownBelow
<1>4. ASSUME NEW j \in 1 .. Len(got[t]) PROVE got[t][j] < b + e.seq
  <2> DEFINE x == got[t][j]
             y == sent[c]
             s == e.seq
  <2>0. x \in Nat /\ y \in Nat /\ s \in Nat /\ s > y
    <3>1. \A g \in Seq(Nat) : \A i \in 1 .. Len(g) : g[i] \in Nat
      OBVIOUS
    <3>2. x \in Nat
      BY <1>1, <3>1
    <3> HIDE DEF x
    <3> QED  BY <1>1, <1>2, <3>2
  <2>1. x <= b + y
    BY <1>3
  <2> HIDE DEF x, y, s
  <2>2. x < b + s
    BY <2>0, <2>1
  <2> QED  BY <2>2 DEF x, s
<1> QED  BY <1>1, <1>2, <1>3, <1>4

(* A view ascends, and holds nothing from beyond its cursor.               *)
LEMMA ForwardStep == ASSUME StreamInv, [StreamNext]_allVars PROVE ForwardInv'
<1>0. ForwardInv
  BY DEF StreamInv
<1> SUFFICES ASSUME NEW t \in Tabs
             PROVE  /\ \A i \in 1 .. Len(got'[t]) :
                           /\ got'[t][i] \in 1 .. Len(log'[TabKey[t]])
                           /\ got'[t][i] <= Base(TabKey[t])' + cursor'[t]
                    /\ \A i, j \in 1 .. Len(got'[t]) : i < j => got'[t][i] < got'[t][j]
  BY DEF ForwardInv
<1> DEFINE k == TabKey[t]
           n == Len(log[k])
           m == Len(log'[k])
           z == Base(k)
           y == Base(k)'
<1>1. /\ got[t] \in Seq(Nat) /\ cursor[t] \in Nat /\ n \in Nat /\ z \in Nat /\ k \in Keys
  BY Facts
<1>2. m \in Nat /\ m >= n /\ y \in Nat /\ y >= z
  BY <1>1, LogsGrow DEF Grown
<1>3. /\ \A i \in 1 .. Len(got[t]) : got[t][i] \in 1 .. n /\ got[t][i] <= z + cursor[t]
      /\ \A i, j \in 1 .. Len(got[t]) : i < j => got[t][i] < got[t][j]
  BY <1>0 DEF ForwardInv
<1> HIDE DEF n, m, z, y
<1>4. CASE got'[t] = got[t] /\ cursor'[t] = cursor[t]
  <2>1. ASSUME NEW i \in 1 .. Len(got[t]) PROVE got[t][i] \in 1 .. m /\ got[t][i] <= y + cursor[t]
    <3> DEFINE x == got[t][i]
               s == cursor[t]
    <3>1. x \in 1 .. n /\ x <= z + s /\ s \in Nat
      BY <1>1, <1>3
    <3> HIDE DEF x, s
    <3>2. x \in 1 .. m /\ x <= y + s
      BY <1>1, <1>2, <3>1
    <3> QED  BY <3>2 DEF x, s
  <2> QED  BY <1>3, <1>4, <2>1 DEF m, y
<1>5. CASE got'[t] = << >>
  <2>1. Len(got'[t]) = 0
    BY <1>5
  <2> QED  BY <2>1
<1>6. ASSUME NEW c \in Chans, NEW b \in Nat, NEW e \in Event,
             ServedFrom(c, b), Delivered(c, b, e), attached[t] = c
      PROVE  /\ \A i \in 1 .. Len(got'[t]) :
                    /\ got'[t][i] \in 1 .. Len(log'[TabKey[t]])
                    /\ got'[t][i] <= Base(TabKey[t])' + cursor'[t]
             /\ \A i, j \in 1 .. Len(got'[t]) : i < j => got'[t][i] < got'[t][j]
  <2> DEFINE g == got[t]
             x == b + e.seq
             w == got'[t]
             s == e.seq
  <2>1. /\ cursor'[t] = s /\ w = Append(g, x) /\ x \in 1 .. n /\ x <= z + s
        /\ \A j \in 1 .. Len(g) : g[j] < x
    BY <1>6, OneReader DEF n, z
  <2>2. g \in Seq(Nat) /\ x \in Nat /\ s \in Nat
    BY <1>1 DEF Event
  <2>3. \A i \in 1 .. Len(g) : g[i] \in 1 .. n
    BY <1>3
  <2>4. \A i, j \in 1 .. Len(g) : i < j => g[i] < g[j]
    BY <1>3
  <2> HIDE DEF g, x, w, s
  <2>5. Len(w) = Len(g) + 1 /\ w[Len(g) + 1] = x /\ \A i \in 1 .. Len(g) : w[i] = g[i]
    BY <2>1, <2>2, AppendProperties
  <2>6. ASSUME NEW i \in 1 .. Len(w) PROVE w[i] \in 1 .. m /\ w[i] <= y + s
    <3>1. CASE i \in 1 .. Len(g)
      BY <1>1, <1>2, <2>1, <2>2, <2>3, <2>5, <3>1
    <3>2. CASE i = Len(g) + 1
      BY <1>1, <1>2, <2>1, <2>2, <2>5, <3>2
    <3> QED  BY <2>2, <2>5, <3>1, <3>2
  <2>7. ASSUME NEW i \in 1 .. Len(w), NEW j \in 1 .. Len(w), i < j PROVE w[i] < w[j]
    <3>1. i \in 1 .. Len(g) /\ w[i] = g[i]
      BY <2>2, <2>5, <2>7
    <3>2. CASE j \in 1 .. Len(g)
      BY <2>4, <2>5, <2>7, <3>1, <3>2
    <3>3. CASE j = Len(g) + 1
      BY <2>1, <2>5, <3>1, <3>3
    <3> QED  BY <2>2, <2>5, <3>2, <3>3
  <2> QED  BY <2>1, <2>6, <2>7 DEF w, m, y
<1>7. ASSUME NEW u \in Tabs, Reload(u) PROVE got'[t] = << >> \/ (got'[t] = got[t] /\ cursor'[t] = cursor[t])
  <2>1. got \in [Tabs -> Seq(Nat)] /\ cursor \in [Tabs -> Nat]
    BY DEF StreamInv, StreamTypeOK
  <2> QED  BY <1>7, <2>1 DEF Reload
<1>8. ASSUME NEW c \in Chans, NEW b \in Nat, NEW e \in Event, Delivered(c, b, e), attached[t] # c
      PROVE  got'[t] = got[t] /\ cursor'[t] = cursor[t]
  BY <1>8 DEF Delivered
<1> QED  BY <1>4, <1>5, <1>6, <1>7, <1>8, FeedMoves

LEMMA StreamInvariant == StreamSpec => []StreamInv
<1>1. StreamInit /\ RegInv => StreamTypeOK /\ LogInv /\ Wired /\ EpochInv /\ ForwardInv
  <2> SUFFICES ASSUME StreamInit, RegInv PROVE StreamTypeOK /\ LogInv /\ Wired /\ EpochInv /\ ForwardInv
    OBVIOUS
  <2>1. TypeOK
    BY DEF RegInv
  <2>2. StreamTypeOK
    BY <2>1, MaxEditsType DEF StreamInit, StreamTypeOK, Phases, Mishaps
  <2>3. \A k \in Keys : Len(log[k]) = 0 /\ lastSeq[k] = 0 /\ buffer[k] = << >> /\ Len(buffer[k]) = 0
    BY DEF StreamInit, Init
  <2>4. \A r \in Runs : event[r].n <= MaxEmits
    BY MaxEmitsType DEF StreamInit, Init
  <2>5. LogInv
    BY <2>3, <2>4 DEF LogInv, NumberedByRun, EntriesDiffer, BufferIsLogged, BufferIsFull, EmitsBounded
  <2>6. Wired /\ EpochInv
    BY NoConnIsNoConn DEF StreamInit, Init, Wired, EpochInv, Serving
  <2>7. \A t \in Tabs : Len(got[t]) = 0
    BY DEF StreamInit
  <2> QED  BY <2>2, <2>5, <2>6, <2>7 DEF ForwardInv
<1>2. StreamInv /\ [StreamNext]_allVars /\ RegInv' =>
          (StreamTypeOK /\ LogInv /\ Wired /\ EpochInv /\ ForwardInv)'
  <2> SUFFICES ASSUME StreamInv, [StreamNext]_allVars, RegInv'
               PROVE  (StreamTypeOK /\ LogInv /\ Wired /\ EpochInv /\ ForwardInv)'
    OBVIOUS
  <2>1. RegInv /\ LogType /\ LogInv
    BY DEF StreamInv, StreamTypeOK, LogType, LogEntry
  <2>2. LogType' /\ LogInv'
    BY <2>1, LogStep
  <2>3. TypeOK'
    BY DEF RegInv
  <2>4. StreamTypeOK'
    BY <2>2, <2>3, ViewStep DEF ViewType, StreamTypeOK, LogType, LogEntry
  <2> QED  BY <2>2, <2>4, WiredStep, EpochStep, ForwardStep
<1> QED  BY <1>1, <1>2, RegistryHolds, PTL DEF StreamSpec, StreamInv

(* The variables of the stream keep their types: what a view holds are     *)
(* positions of its session's log, and an edit is counted once.            *)
THEOREM StreamTypesCorrect == StreamSpec => []StreamTypeOK
<1>1. StreamInv => StreamTypeOK
  BY DEF StreamInv
<1> QED  BY <1>1, StreamInvariant, PTL

(* A tab is shown a session's events strictly forward, none twice and none *)
(* after a later one: whatever reconnections, reloads, Runs in turn and    *)
(* restarts of the counter (truncate, delete) come in between, the handler *)
(* and the client's cursor implement LossyFeed.                            *)
THEOREM TabsReadForward == StreamSpec => ShowsForward
<1>1. StreamInit => Feed!Init
  BY DEF StreamInit, Feed!Init
<1>2. ASSUME StreamInv, [StreamNext]_allVars PROVE [Feed!Next]_(Feed!feedVars)
  <2>0. RegInv /\ LogType /\ EmitsBounded /\ LogInv /\ TypeOK
        /\ got \in [Tabs -> Seq(Nat)] /\ MaxEmits \in Nat
    BY <1>2, MaxEmitsType DEF StreamInv, RegInv, StreamTypeOK, LogInv, LogType, LogEntry
  <2>1. ASSUME NEW r \in Runs, Emit(r) \/ Recover(r), Record(r), UNCHANGED got
        PROVE  Feed!Next
    <3>1. PICK k \in Keys, e \in Event : Published(r, k, e)
      BY <2>0, <2>1, Publishes
    <3>2. k = runKey[r] /\ event'[r] = e /\ e.run = r /\ e.n = event[r].n + 1
      BY <3>1 DEF Published
    <3>3. log' = [log EXCEPT ![k] = Append(@, Entry(e))]
      BY <2>1, <3>2 DEF Record
    <3>4. event[r].n \in Nat /\ event[r].n <= MaxEmits
      <4>1. pc[r] \in {"body", "panicked"}
        BY <2>1 DEF Emit, Recover
      <4> QED  BY <2>0, <4>1 DEF EmitsBounded, TypeOK, Event
    <3>5. Entry(e) \in [run : Runs, n : 1 .. MaxEmits + 1]
      BY <2>0, <3>2, <3>4 DEF Entry
    <3> QED  BY <2>1, <3>3, <3>5 DEF Feed!Next, Feed!Publish
  <2>2. ASSUME NEW c \in Chans, NEW b \in Nat, NEW e \in Event, ServedFrom(c, b), Delivered(c, b, e)
        PROVE  [Feed!Next]_(Feed!feedVars)
    <3>1. /\ got' \in [Tabs -> Seq(Nat)] /\ log' = log
          /\ \A u \in Tabs : attached[u] # c => got'[u] = got[u]
      BY <2>2 DEF Delivered
    <3>2. CASE \A u \in Tabs : attached[u] # c
      <4>1. got' = got
        BY <2>0, <3>1, <3>2
      <4> QED  BY <3>1, <4>1 DEF Feed!feedVars
    <3>3. ASSUME NEW t \in Tabs, attached[t] = c PROVE Feed!Next
      <4>1. /\ got'[t] = Append(got[t], b + e.seq)
            /\ b + e.seq \in 1 .. Len(log[TabKey[t]])
            /\ \A j \in 1 .. Len(got[t]) : got[t][j] < b + e.seq
            /\ \A u \in Tabs : attached[u] = c => u = t
        BY <1>2, <2>2, <3>3, OneReader
      <4>2. got' = [got EXCEPT ![t] = Append(@, b + e.seq)]
        BY <2>0, <3>1, <4>1
      <4> QED  BY <3>1, <4>1, <4>2 DEF Feed!Next, Feed!Show
    <3> QED  BY <3>2, <3>3
  <2>3. ASSUME NEW t \in Tabs, Reload(t) PROVE Feed!Next
    BY <2>3 DEF Reload, Feed!Next, Feed!StartOver
  <2> QED  BY <1>2, <2>1, <2>2, <2>3, FeedMoves DEF Feed!feedVars
<1> QED  BY <1>1, <1>2, StreamInvariant, PTL DEF StreamSpec, ShowsForward, Feed!Spec

-----------------------------------------------------------------------------
(* Complete.  The argument is about the connections an undisturbed tab      *)
(* reads; Due is how far into the log such a connection is or has still to *)
(* write before it turns to its channel.                                   *)

UnbornSilent ==
    \A r \in Runs : pc[r] = "unborn" =>
        \A k \in Keys : \A i \in 1 .. Len(log[k]) : log[k][i].run # r

(* A tab was shown all its cursor has passed since the counter's restart.  *)
SeenInv ==
    \A t \in Tabs : mishap[t] = {} =>
        /\ cursor[t] <= lastSeq[TabKey[t]]
        /\ \A i \in Base(TabKey[t]) + 1 .. Base(TabKey[t]) + cursor[t] : i \in Shown(t)

(* The Run registered for a session published after that restart.          *)
YoungRuns ==
    \A t \in Tabs, r \in Runs :
        "struck" \notin mishap[t] /\ Registered(r) /\ runKey[r] = TabKey[t] =>
            \A i \in 1 .. Len(log[TabKey[t]]) :
                log[TabKey[t]][i].run = r => i > Base(TabKey[t])

Undisturbed(c) ==
    /\ phase[c] \notin {"none", "closed"}
    /\ attached[tabOf[c]] = c /\ mishap[tabOf[c]] = {}

(* An event of the connection's Run on its way to the channel. *)
Pending(c) == IF \E r \in Runs : c \in todo[r] THEN 1 ELSE 0

Due(c) == Base(chanKey[c]) + sent[c] + Len(owes[c])

OwedInv(c) == \A i \in owed[c] : Base(chanKey[c]) < i /\ i <= Due(c)

EndedInv(c) ==
    /\ \A i \in 1 .. Len(log[chanKey[c]]) : log[chanKey[c]][i].run = ended[c] =>
           /\ i > Base(chanKey[c])
           /\ phase[c] \in {"tail", "leaving"} => i <= Due(c)
    /\ phase[c] \in {"tail", "leaving"} => ended[c] = NoRun \/ DoneClosed(ended[c])

OwesInv(c) ==
    \A i \in 1 .. Len(owes[c]) :
        /\ owes[c][i].seq = sent[c] + i
        /\ Located(log[chanKey[c]], Base(chanKey[c]), owes[c][i])

CarriedInv(c) ==
    phase[c] \in {"replay", "live"} =>
        /\ c \in subs[chanKey[c]]
        /\ lastSeq[chanKey[c]] = sent[c] + Len(owes[c]) + Len(chan[c]) + Pending(c)
        /\ \A i \in 1 .. Len(chan[c]) : chan[c][i].seq = sent[c] + Len(owes[c]) + i
        /\ \A r \in Runs : c \in todo[r] => event[r].seq = lastSeq[chanKey[c]]

NothingLost(c) == OwedInv(c) /\ EndedInv(c) /\ OwesInv(c) /\ CarriedInv(c)

CompleteInv ==
    /\ UnbornSilent
    /\ SeenInv
    /\ YoungRuns
    /\ \A c \in Chans : Undisturbed(c) => NothingLost(c)

(* A Run starts once and is over once.                                     *)
LEMMA RunMoves ==
    ASSUME StreamInv, [StreamNext]_allVars, NEW r \in Runs
    PROVE  /\ pc'[r] = "unborn" => pc[r] = "unborn"
           /\ pc[r] = "over" => pc'[r] = "over"
           /\ pc[r] # "unborn" => /\ runKey'[r] = runKey[r]
                                  /\ Registered(r)' => Registered(r)
<1>0. TypeOK /\ [Next]_vars /\ pc \in [Runs -> PC] /\ runKey \in [Runs -> Keys \cup {NoKey}]
  BY StreamUsesTheRegistry DEF StreamInv, RegInv, TypeOK
<1>1. ASSUME UNCHANGED <<pc, runKey>>
      PROVE  /\ pc'[r] = "unborn" => pc[r] = "unborn"
             /\ pc[r] = "over" => pc'[r] = "over"
             /\ pc[r] # "unborn" => runKey'[r] = runKey[r] /\ (Registered(r)' => Registered(r))
  BY <1>1 DEF Registered
<1>2. ASSUME NEW q \in Runs, RunStep(q)
      PROVE  /\ pc'[r] = "unborn" => pc[r] = "unborn"
             /\ pc[r] = "over" => pc'[r] = "over"
             /\ pc[r] # "unborn" => runKey'[r] = runKey[r] /\ (Registered(r)' => Registered(r))
  <2>1. CASE Emit(q) \/ \E c \in Chans : Offer(q, c)
    BY <1>1, <2>1 DEF Emit, Publish, Offer
  <2>2. CASE Return(q) \/ Panic(q) \/ Recover(q) \/ Unregister(q) \/ CloseDone(q)
    <3>1. /\ runKey' = runKey /\ pc[q] \notin {"unborn", "over"}
          /\ \E p \in PC : /\ pc' = [pc EXCEPT ![q] = p] /\ p # "unborn"
                           /\ p \in {"body", "panicked", "returned"} =>
                                  pc[q] \in {"body", "panicked", "returned"}
      BY <2>2 DEF Return, Panic, Recover, Unregister, CloseDone, Publish, PC
    <3> QED  BY <1>0, <3>1 DEF Registered
  <2> QED  BY <1>2, <2>1, <2>2 DEF RunStep
<1>3. ASSUME NEW q \in Runs, NEW k \in Keys, Start(q, k)
      PROVE  /\ pc'[r] = "unborn" => pc[r] = "unborn"
             /\ pc[r] = "over" => pc'[r] = "over"
             /\ pc[r] # "unborn" => runKey'[r] = runKey[r] /\ (Registered(r)' => Registered(r))
  <2>1. /\ pc[q] = "unborn" /\ pc' = [pc EXCEPT ![q] = "body"]
        /\ runKey' = [runKey EXCEPT ![q] = k]
    BY <1>3 DEF Start
  <2> QED  BY <1>0, <2>1 DEF Registered
<1>4. ASSUME NEW c \in Chans, NEW k \in Keys, Subscribe(c, k) PROVE UNCHANGED <<pc, runKey>>
  BY <1>4 DEF Subscribe, runVars
<1>5. ASSUME NEW c \in Chans, Receive(c) \/ Unsubscribe(c) PROVE UNCHANGED <<pc, runKey>>
  BY <1>5 DEF Receive, Unsubscribe, runVars
<1>6. ASSUME NEW k \in Keys, Cancel(k) \/ DropSession(k) PROVE UNCHANGED <<pc, runKey>>
  BY <1>6 DEF Cancel, CancelRuns, DropSession, runVars
<1>7. ASSUME NEW t \in Tenants, NEW u \in Users, DropTenant(t) \/ CancelTenantUser(t, u) \/ CancelUser(u)
      PROVE  UNCHANGED <<pc, runKey>>
  BY <1>7 DEF DropTenant, CancelTenantUser, CancelUser, CancelRuns
<1>8. CASE UNCHANGED vars
  BY <1>1, <1>8 DEF vars, runVars
<1>9. (\E t \in Tenants : DropTenant(t)) => UNCHANGED <<pc, runKey>>
  BY DEF DropTenant, CancelRuns
<1>10. (\E u \in Users : CancelUser(u)) => UNCHANGED <<pc, runKey>>
  BY DEF CancelUser, CancelRuns
<1> QED  BY <1>0, <1>1, <1>2, <1>3, <1>4, <1>5, <1>6, <1>7, <1>8, <1>9, <1>10 DEF Next

LEMMA UnbornStep == ASSUME StreamInv, UnbornSilent, [StreamNext]_allVars PROVE UnbornSilent'
<1> SUFFICES ASSUME NEW r \in Runs, pc'[r] = "unborn",
                    NEW k \in Keys, NEW i \in 1 .. Len(log'[k]), log'[k][i].run = r
             PROVE  FALSE
  BY DEF UnbornSilent
<1>1. pc[r] = "unborn"
  BY RunMoves
<1>2. Grown(k) /\ Len(log[k]) \in Nat
  BY Facts, LogsGrow
<1>3. CASE i \in 1 .. Len(log[k])
  BY <1>1, <1>2, <1>3 DEF Grown, UnbornSilent
<1>4. CASE i \in Len(log[k]) + 1 .. Len(log'[k])
  BY <1>1, <1>2, <1>4 DEF Grown
<1>5. i \in 1 .. Len(log[k]) \/ i \in Len(log[k]) + 1 .. Len(log'[k])
  BY <1>2
<1> QED  BY <1>3, <1>4, <1>5

(* A mishap is forgotten only when the tab starts over.                    *)
LEMMA MishapsStay ==
    ASSUME StreamInv, [StreamNext]_allVars, NEW t \in Tabs
    PROVE  \/ mishap[t] \subseteq mishap'[t]
           \/ Reload(t) /\ ("struck" \notin mishap'[t] => "struck" \notin mishap[t])
<1>0. mishap \in [Tabs -> SUBSET Mishaps]
  BY DEF StreamInv, StreamTypeOK
<1>1. ASSUME NEW r \in Runs, StreamRunStep(r) PROVE UNCHANGED mishap
  BY <1>1 DEF StreamRunStep, streamVars, ghostVars
<1>2. ASSUME NEW r \in Runs, NEW c \in Chans, StreamOffer(r, c) PROVE mishap[t] \subseteq mishap'[t]
  BY <1>2 DEF StreamOffer
<1>3. ASSUME NEW r \in Runs, NEW k \in Keys, StreamStart(r, k) PROVE UNCHANGED mishap
  BY <1>3 DEF StreamStart, streamVars, ghostVars
<1>4. ASSUME NEW c \in Chans, HandlerStep(c) PROVE UNCHANGED mishap
  BY <1>4 DEF HandlerStep, WriteOwed, Replayed, Live, RunOver, TailWritten, Disconnected, Leave, ghostVars
<1>5. ASSUME NEW u \in Tabs, NEW c \in Chans, Open(u, c) PROVE mishap[t] \subseteq mishap'[t]
  BY <1>0, <1>5 DEF Open
<1>6. ASSUME NEW u \in Tabs, Detach(u) PROVE UNCHANGED mishap
  BY <1>6 DEF Detach, ghostVars
<1>7. ASSUME NEW u \in Tabs, Reload(u)
      PROVE  \/ mishap[t] \subseteq mishap'[t]
             \/ Reload(t) /\ ("struck" \notin mishap'[t] => "struck" \notin mishap[t])
  BY <1>0, <1>7 DEF Reload
<1>8. ASSUME NEW k \in Keys, EditCheck(k) \/ EditDrop(k) PROVE mishap[t] \subseteq mishap'[t]
  BY <1>8 DEF EditCheck, EditDrop, ghostVars
<1>9. CASE UNCHANGED allVars
  BY <1>9 DEF allVars, streamVars, ghostVars
<1> QED  BY <1>1, <1>2, <1>3, <1>4, <1>5, <1>6, <1>7, <1>8, <1>9 DEF StreamNext

(* Whom the dropping of a buffer leaves undisturbed.                       *)
LEMMA DropsConcern ==
    ASSUME StreamInv, NEW t \in Tabs, EditDrop(TabKey[t])
    PROVE  /\ mishap'[t] = {} => cursor[t] = 0 /\ attached[t] = NoConn /\ cursor'[t] = 0
           /\ "struck" \notin mishap'[t] => active[TabKey[t]] = NoRun
<1> DEFINE k == TabKey[t]
<1>1. /\ cursor' = cursor /\ cursor[t] \in Nat
      /\ mishap'[t] = IF ~ Concerned(t, k) THEN mishap[t] ELSE
                         mishap[t] \cup {IF active[k] = NoRun /\ attached[t] = NoConn
                                         THEN "edited" ELSE "struck"}
  BY Facts DEF EditDrop, clientVars
<1>2. CASE Concerned(t, k)
  BY <1>1, <1>2
<1>3. CASE ~ Concerned(t, k)
  BY <1>1, <1>3 DEF Concerned
<1> QED  BY <1>2, <1>3

LEMMA YoungStep ==
    ASSUME StreamInv, UnbornSilent, YoungRuns, [StreamNext]_allVars
    PROVE  YoungRuns'
<1> SUFFICES ASSUME NEW t \in Tabs, NEW r \in Runs, "struck" \notin mishap'[t],
                    Registered(r)', runKey'[r] = TabKey[t],
                    NEW i \in 1 .. Len(log'[TabKey[t]]), log'[TabKey[t]][i].run = r
             PROVE  i > Base(TabKey[t])'
  BY DEF YoungRuns
<1>1. PICK k \in Keys : k = TabKey[t]
  BY TabKeyType
<1>2. /\ Grown(k) /\ Len(log[k]) \in Nat /\ Base(k) \in Nat /\ lastSeq[k] \in Nat
      /\ Base(k) + lastSeq[k] = Len(log[k])
  BY Facts, LogsGrow
<1>3. i \in 1 .. Len(log[k]) \/ (i \in Len(log[k]) + 1 .. Len(log'[k]) /\ i > Base(k))
  BY <1>1, <1>2
<1>4. "struck" \notin mishap[t]
  BY MishapsStay
<1>5. CASE pc[r] = "unborn"
  BY <1>1, <1>2, <1>3, <1>5 DEF Grown, UnbornSilent
<1>6. CASE pc[r] # "unborn"
  <2>1. Registered(r) /\ runKey[r] = k
    BY <1>1, <1>6, RunMoves
  <2>2. active[k] = r
    BY <2>1 DEF StreamInv, RegInv, WriterInv, RegistryNamesTheWriter
  <2>3. ~ EditDrop(k)
    BY <1>1, <2>2, DropsConcern, NoRunIsNoRun
  <2>4. Base(k)' = Base(k)
    BY <1>2, <2>3 DEF Grown
  <2>5. CASE i \in 1 .. Len(log[k])
    <3>1. log[k][i].run = r
      BY <1>1, <1>2, <2>5 DEF Grown
    <3>2. i > Base(k)
      BY <1>1, <1>4, <2>1, <2>5, <3>1 DEF YoungRuns
    <3> QED  BY <1>1, <2>4, <3>2
  <2> QED  BY <1>1, <1>3, <2>4, <2>5
<1> QED  BY <1>5, <1>6

(* What an undisturbed tab is shown next is the event after its cursor.    *)
LEMMA InOrder ==
    ASSUME StreamInv, NEW c \in Chans, NEW b \in Nat, NEW e \in Event,
           ServedFrom(c, b), Delivered(c, b, e), NextOf(c, e), NothingLost(c)
    PROVE  /\ e.seq = sent[c] + 1 /\ b = Base(chanKey[c])
           /\ sent[c] + 1 <= lastSeq[chanKey[c]]
<1>1. /\ chanKey[c] \in Keys /\ owes[c] \in Seq(Event) /\ chan[c] \in Seq(Event)
      /\ sent[c] \in Nat /\ e.seq \in Nat /\ LogType /\ EntriesDiffer /\ c \in Serving
  BY Facts DEF Delivered, Event, StreamInv, StreamTypeOK, LogType, LogEntry, LogInv
<1>2. PICK k \in Keys : k = chanKey[c]
  BY <1>1
<1>3. /\ Base(k) \in Nat /\ lastSeq[k] \in Nat /\ Base(k) + lastSeq[k] = Len(log[k])
  BY Facts
<1>4. Located(log[k], b, e)
  BY <1>2 DEF Delivered
<1>5. CASE owes[c] # << >> /\ e = Head(owes[c])
  <2>1. 1 \in 1 .. Len(owes[c]) /\ e = owes[c][1]
    BY <1>1, <1>5
  <2>2. e.seq = sent[c] + 1 /\ Located(log[k], Base(k), e)
    BY <1>2, <2>1 DEF NothingLost, OwesInv
  <2>3. b + e.seq = Base(k) + e.seq
    BY <1>1, <1>3, <1>4, <2>2, PositionIs
  <2>4. b = Base(k)
    BY <1>1, <1>3, <2>3
  <2>5. Base(k) + e.seq <= Len(log[k])
    BY <2>2 DEF Located
  <2>6. sent[c] + 1 <= lastSeq[k]
    BY <1>1, <1>3, <2>2, <2>5
  <2> QED  BY <1>2, <2>2, <2>4, <2>6
<1>6. CASE phase[c] = "live" /\ chan[c] # << >> /\ e = Head(chan[c])
  <2>1. 1 \in 1 .. Len(chan[c]) /\ e = chan[c][1]
    BY <1>1, <1>6
  <2>2. owes[c] = << >> /\ Len(owes[c]) = 0
    BY <1>6 DEF StreamInv, Wired
  <2>3. e.seq = sent[c] + Len(owes[c]) + 1 /\ c \in subs[k]
    BY <1>2, <1>6, <2>1 DEF NothingLost, CarriedInv
  <2>4. b = Base(k)
    BY <1>2, <1>6, <2>3 DEF ServedFrom, CarriesFrom
  <2>5. e.seq = sent[c] + 1
    BY <1>1, <2>2, <2>3
  <2>6. Base(k) + e.seq <= Len(log[k])
    BY <1>4, <2>4 DEF Located
  <2>7. sent[c] + 1 <= lastSeq[k]
    BY <1>1, <1>3, <2>5, <2>6
  <2> QED  BY <1>2, <2>4, <2>5, <2>7
<1> QED  BY <1>5, <1>6 DEF NextOf

LEMMA SeenStep ==
    ASSUME StreamInv, CompleteInv, [StreamNext]_allVars
    PROVE  SeenInv'
<1> SUFFICES ASSUME NEW t \in Tabs, mishap'[t] = {}
             PROVE  /\ cursor'[t] <= lastSeq'[TabKey[t]]
                    /\ \A i \in Base(TabKey[t])' + 1 .. Base(TabKey[t])' + cursor'[t] :
                           \E j \in 1 .. Len(got'[t]) : i = got'[t][j]
  BY DEF SeenInv, Shown
<1>1. PICK k \in Keys : k = TabKey[t]
  BY TabKeyType
<1>2. /\ Grown(k) /\ lastSeq[k] \in Nat /\ lastSeq'[k] \in Nat /\ cursor[t] \in Nat
      /\ Base(k) \in Nat /\ Base(k)' \in Nat /\ got[t] \in Seq(Nat)
  <2>1. Grown(k)
    BY LogsGrow
  <2>2. TypeOK'
    <3>1. TypeOK /\ Placed /\ [Next]_vars
      BY StreamUsesTheRegistry DEF StreamInv, RegInv
    <3> QED  BY <3>1, TypeStep
  <2>3. lastSeq'[k] \in Nat
    BY <2>2 DEF TypeOK
  <2> QED  BY <2>1, <2>3, Facts DEF Grown
(* A tab that has seen nothing. *)
<1>3. CASE cursor'[t] = 0
  <2>1. \A i \in Base(k)' + 1 .. Base(k)' + 0 : FALSE
    BY <1>2
  <2> QED  BY <1>1, <1>2, <1>3, <2>1
<1>4. CASE EditDrop(k)
  BY <1>1, <1>3, <1>4, DropsConcern
<1>5. ASSUME ~ EditDrop(k), mishap[t] = {}
      PROVE  /\ Base(k)' = Base(k) /\ lastSeq'[k] >= lastSeq[k] /\ cursor[t] <= lastSeq[k]
             /\ \A i \in Base(k) + 1 .. Base(k) + cursor[t] : \E j \in 1 .. Len(got[t]) : i = got[t][j]
  BY <1>1, <1>2, <1>5 DEF Grown, CompleteInv, SeenInv, Shown
<1>6. CASE ~ EditDrop(k) /\ mishap[t] = {} /\ got'[t] = got[t] /\ cursor'[t] = cursor[t]
  <2>1. cursor'[t] <= lastSeq'[TabKey[t]]
    <3> DEFINE x == cursor[t]
               y == lastSeq[k]
               z == lastSeq'[k]
    <3>1. x \in Nat /\ y \in Nat /\ z \in Nat /\ z >= y /\ x <= y
      BY <1>2, <1>5, <1>6
    <3> HIDE DEF x, y, z
    <3>2. x <= z
      BY <3>1
    <3> QED  BY <1>1, <1>6, <3>2 DEF x, z
  <2>2. Base(TabKey[t])' = Base(k)
    BY <1>1, <1>5, <1>6
  <2> QED  BY <1>5, <1>6, <2>1, <2>2
<1>7. ASSUME NEW c \in Chans, NEW b \in Nat, NEW e \in Event,
             ServedFrom(c, b), Delivered(c, b, e), NextOf(c, e), attached[t] = c,
             ~ EditDrop(k), mishap[t] = {}
      PROVE  /\ cursor'[t] <= lastSeq'[k]
             /\ \A i \in Base(k)' + 1 .. Base(k)' + cursor'[t] :
                    \E j \in 1 .. Len(got'[t]) : i = got'[t][j]
  <2>1. /\ tabOf[c] = t /\ chanKey[c] = k /\ phase[c] \notin {"none", "closed"}
        /\ cursor[t] = sent[c] /\ cursor'[t] = e.seq /\ got'[t] = Append(got[t], b + e.seq)
    BY <1>1, <1>7, OneReader DEF StreamInv, Wired
  <2>2. NothingLost(c)
    BY <1>7, <2>1 DEF CompleteInv, Undisturbed
  <2>3. e.seq = cursor[t] + 1 /\ b = Base(k) /\ cursor[t] + 1 <= lastSeq[k]
    BY <1>7, <2>1, <2>2, InOrder
  <2> DEFINE g == got[t]
             x == b + e.seq
             w == got'[t]
             s == cursor[t]
  <2>4. /\ g \in Seq(Nat) /\ w = Append(g, x) /\ x = Base(k) + (s + 1) /\ x \in Nat
        /\ s \in Nat /\ cursor'[t] = s + 1 /\ s + 1 <= lastSeq[k]
    BY <1>2, <2>1, <2>3
  <2>5. \A i \in Base(k) + 1 .. Base(k) + s : \E j \in 1 .. Len(g) : i = g[j]
    BY <1>5, <1>7
  <2> HIDE DEF g, x, w, s
  <2>6. Len(w) = Len(g) + 1 /\ w[Len(g) + 1] = x /\ (\A i \in 1 .. Len(g) : w[i] = g[i]) /\ Len(g) \in Nat
    BY <2>4, AppendProperties
  <2>7. ASSUME NEW i \in Base(k) + 1 .. Base(k) + (s + 1) PROVE \E j \in 1 .. Len(w) : i = w[j]
    <3>1. CASE i \in Base(k) + 1 .. Base(k) + s
      <4>1. PICK j \in 1 .. Len(g) : i = g[j]
        BY <2>5, <3>1
      <4>2. j \in 1 .. Len(w) /\ w[j] = i
        BY <2>6, <4>1
      <4> QED  BY <4>2
    <3>2. CASE i = Base(k) + (s + 1)
      <4>1. Len(g) + 1 \in 1 .. Len(w) /\ w[Len(g) + 1] = i
        BY <2>4, <2>6, <3>2
      <4> QED  BY <4>1
    <3>3. i \in Base(k) + 1 .. Base(k) + s \/ i = Base(k) + (s + 1)
      BY <1>2, <2>4, <2>7
    <3> QED  BY <3>1, <3>2, <3>3
  <2>8. Base(k)' = Base(k) /\ lastSeq'[k] >= lastSeq[k]
    BY <1>5, <1>7
  <2>9. cursor'[t] <= lastSeq'[k]
    <3> DEFINE y == lastSeq[k]
               z == lastSeq'[k]
    <3>1. y \in Nat /\ z \in Nat /\ z >= y /\ s + 1 <= y
      BY <1>2, <2>4, <2>8
    <3> HIDE DEF y, z
    <3>2. s + 1 <= z
      BY <2>4, <3>1
    <3> QED  BY <2>4, <3>2 DEF z
  <2>10. \A i \in Base(k) + 1 .. Base(k) + cursor'[t] : \E j \in 1 .. Len(w) : i = w[j]
    BY <2>4, <2>7
  <2> QED  BY <2>8, <2>9, <2>10 DEF w
<1>8. ASSUME NEW c \in Chans, NEW b \in Nat, NEW e \in Event, Delivered(c, b, e), attached[t] # c
      PROVE  got'[t] = got[t] /\ cursor'[t] = cursor[t]
  BY <1>8 DEF Delivered
<1>9. mishap[t] = {} \/ Reload(t)
  BY MishapsStay
<1>10. ASSUME NEW u \in Tabs, Reload(u)
       PROVE  cursor'[t] = 0 \/ (got'[t] = got[t] /\ cursor'[t] = cursor[t])
  <2>1. got \in [Tabs -> Seq(Nat)] /\ cursor \in [Tabs -> Nat]
    BY DEF StreamInv, StreamTypeOK
  <2> QED  BY <1>10, <2>1 DEF Reload
<1>11. Reload(t) => cursor'[t] = 0
  <2>1. cursor \in [Tabs -> Nat]
    BY DEF StreamInv, StreamTypeOK
  <2> QED  BY <2>1 DEF Reload
<1>12. CASE ~ EditDrop(k) /\ mishap[t] = {}
  BY <1>1, <1>3, <1>6, <1>7, <1>8, <1>10, <1>12, FeedMoves
<1> QED  BY <1>3, <1>4, <1>9, <1>11, <1>12

(* What is due stays due, and what is over stays over.                     *)
LEMMA SettledKept ==
    ASSUME StreamInv, [StreamNext]_allVars, NEW c \in Chans, NEW k \in Keys,
           OwedInv(c), EndedInv(c), chanKey[c] = k, chanKey'[c] = k, Base(k)' = Base(k),
           owed'[c] = owed[c], ended'[c] = ended[c],
           phase'[c] \in {"tail", "leaving"} => phase[c] \in {"tail", "leaving"},
           Due(c) \in Nat, Due(c)' \in Nat, Due(c)' >= Due(c)
    PROVE  OwedInv(c)' /\ EndedInv(c)'
<1>0. /\ Grown(k) /\ Base(k) \in Nat /\ Len(log[k]) \in Nat /\ Base(k) + lastSeq[k] = Len(log[k])
      /\ lastSeq[k] \in Nat /\ owed[c] \in SUBSET Nat
      /\ ended[c] \in Runs \cup {NoRun}
  BY LogsGrow, Facts DEF StreamInv, StreamTypeOK
<1>1. Base(chanKey[c])' = Base(k)
  BY DEF Base
<1>2. OwedInv(c)'
  <2> SUFFICES ASSUME NEW i \in owed[c] PROVE Base(k) < i /\ i <= Due(c)'
    BY <1>1 DEF OwedInv
  <2>1. Base(k) < i /\ i <= Due(c) /\ i \in Nat
    BY <1>0 DEF OwedInv
  <2> DEFINE x == Due(c)
             y == Due(c)'
  <2>2. x \in Nat /\ y \in Nat /\ y >= x /\ i <= x
    BY <2>1
  <2> HIDE DEF x, y
  <2>3. i <= y
    BY <2>1, <2>2
  <2> QED  BY <2>1, <2>3 DEF y
<1>3. ASSUME NEW i \in 1 .. Len(log'[k]), log'[k][i].run = ended[c]
      PROVE  /\ i > Base(k)
             /\ phase'[c] \in {"tail", "leaving"} => i <= Due(c)'
  <2>1. CASE i \in 1 .. Len(log[k])
    <3>1. log[k][i].run = ended[c]
      BY <1>0, <1>3, <2>1 DEF Grown
    <3>2. i > Base(k) /\ (phase[c] \in {"tail", "leaving"} => i <= Due(c))
      BY <2>1, <3>1 DEF EndedInv
    <3> DEFINE x == Due(c)
               y == Due(c)'
    <3>3. x \in Nat /\ y \in Nat /\ y >= x
      OBVIOUS
    <3>4. i > Base(k) /\ (phase[c] \in {"tail", "leaving"} => i <= x)
      BY <3>2
    <3> HIDE DEF x, y
    <3>5. i <= x => i <= y
      BY <2>1, <3>3
    <3>6. phase'[c] \in {"tail", "leaving"} => i <= y
      BY <3>4, <3>5
    <3> QED  BY <3>4, <3>6 DEF y
  <2>2. CASE i \in Len(log[k]) + 1 .. Len(log'[k])
    <3>1. pc[ended[c]] \in {"body", "panicked"}
      BY <1>0, <1>3, <2>2 DEF Grown
    <3>2. ended[c] \in Runs
      <4>1. ended[c] # NoRun
        <5>1. log'[k][i].run \in Runs
          <6>1. LogType'
            BY LogStep DEF StreamInv, StreamTypeOK, LogType, LogEntry
          <6>2. log'[k] \in Seq(LogEntry)
            BY <6>1 DEF LogType
          <6>3. log'[k][i] \in LogEntry
            BY <1>3, <6>2
          <6> QED  BY <6>3 DEF LogEntry
        <5> QED  BY <1>3, <5>1, NoRunIsNoRun
      <4> QED  BY <1>0, <4>1
    <3>3. phase[c] \notin {"tail", "leaving"}
      BY <3>1, <3>2, NoRunIsNoRun DEF EndedInv, DoneClosed
    <3>4. i > Base(k)
      BY <1>0, <2>2
    <3> QED  BY <3>3, <3>4
  <2>3. i \in 1 .. Len(log[k]) \/ i \in Len(log[k]) + 1 .. Len(log'[k])
    BY <1>0
  <2> QED  BY <2>1, <2>2, <2>3
<1>4. phase'[c] \in {"tail", "leaving"} => ended'[c] = NoRun \/ DoneClosed(ended[c])'
  <2> SUFFICES ASSUME phase'[c] \in {"tail", "leaving"}, ended[c] # NoRun
               PROVE  DoneClosed(ended[c])'
    OBVIOUS
  <2>1. PICK r \in Runs : r = ended[c]
    BY <1>0
  <2>2. pc[r] = "over"
    BY <2>1 DEF EndedInv, DoneClosed
  <2>3. pc'[r] = "over"
    BY <2>2, RunMoves
  <2> QED  BY <2>1, <2>3 DEF DoneClosed
<1> QED  BY <1>1, <1>2, <1>3, <1>4 DEF EndedInv

LEMMA OwesKept ==
    ASSUME StreamInv, [StreamNext]_allVars, NEW c \in Chans, NEW k \in Keys,
           OwesInv(c), chanKey[c] = k, chanKey'[c] = k, Base(k)' = Base(k),
           owes'[c] = owes[c], sent'[c] = sent[c]
    PROVE  OwesInv(c)'
<1>1. Grown(k) /\ Base(k) \in Nat /\ owes[c] \in Seq(Event)
  BY LogsGrow, Facts
<1>2. Base(chanKey[c])' = Base(k)
  BY DEF Base
<1>3. ASSUME NEW i \in 1 .. Len(owes[c])
      PROVE  owes[c][i].seq = sent[c] + i /\ Located(log'[k], Base(k), owes[c][i])
  <2>1. owes[c][i] \in Event
    BY <1>1
  <2> QED  BY <1>1, <2>1 DEF OwesInv, Grown
<1> QED  BY <1>2, <1>3 DEF OwesInv

(* The connection a step leaves undisturbed was so before.                 *)
LEMMA UndisturbedBefore ==
    ASSUME StreamInv, [StreamNext]_allVars, NEW c \in Chans, Undisturbed(c)',
           \A t \in Tabs : ~ Open(t, c)
    PROVE  /\ Undisturbed(c) /\ UNCHANGED <<chanKey[c], tabOf[c], ended[c], owed[c]>>
           /\ chanKey[c] \in Keys /\ ~ EditDrop(chanKey[c])
           /\ Base(chanKey[c])' = Base(chanKey[c])
<1>0. /\ StreamTypeOK /\ TypeOK /\ Wired
      /\ phase'[c] \notin {"none", "closed"} /\ attached'[tabOf'[c]] = c /\ mishap'[tabOf'[c]] = {}
  BY DEF StreamInv, RegInv, Undisturbed
<1>1. /\ phase[c] \notin {"none", "closed"}
      /\ UNCHANGED <<chanKey[c], tabOf[c], ended[c], owed[c]>>
      /\ \A t \in Tabs : attached'[t] = c => attached[t] = c
      /\ \A t \in Tabs : Reload(t) => attached'[t] # c
  <2> DEFINE Same == /\ phase[c] \notin {"none", "closed"}
                     /\ UNCHANGED <<chanKey[c], tabOf[c], ended[c], owed[c]>>
                     /\ \A t \in Tabs : attached'[t] = c => attached[t] = c
  <2>1. ASSUME UNCHANGED <<phase, chanKey, tabOf, ended, owed, attached>> PROVE Same
    BY <1>0, <2>1
  <2>2. ASSUME NEW r \in Runs, StreamRunStep(r) PROVE Same
    <3>1. UNCHANGED <<phase, chanKey, tabOf, ended, owed, attached>>
      BY <2>2 DEF StreamRunStep, Emit, Recover, Return, Panic, Unregister, CloseDone, Publish,
                chanVars, streamVars, handlerVars, clientVars, ghostVars
    <3> QED  BY <2>1, <3>1
  <2>3. ASSUME NEW r \in Runs, NEW d \in Chans, StreamOffer(r, d) PROVE Same
    BY <2>1, <2>3 DEF StreamOffer, Offer, handlerVars, clientVars
  <2>4. ASSUME NEW r \in Runs, NEW k \in Keys, StreamStart(r, k) PROVE Same
    BY <2>1, <2>4 DEF StreamStart, Start, chanVars, streamVars, handlerVars, clientVars, ghostVars
  <2>5. ASSUME NEW d \in Chans, HandlerStep(d) PROVE Same
    <3>1. CASE WriteOwed(d) \/ Live(d)
      BY <2>1, <3>1 DEF WriteOwed, Live, Receive, vars, chanVars
    <3>2. CASE Replayed(d) \/ RunOver(d) \/ TailWritten(d) \/ Disconnected(d)
      <4>1. /\ UNCHANGED <<chanKey, tabOf, ended, owed, attached>>
            /\ phase[d] \notin {"none", "closed"} /\ \E p \in Phases : phase' = [phase EXCEPT ![d] = p]
        BY <3>2 DEF Replayed, RunOver, TailWritten, Disconnected, vars, chanVars, clientVars,
                    ghostVars, Phases
      <4> QED  BY <1>0, <4>1 DEF StreamTypeOK
    <3>3. CASE Leave(d)
      <4>1. /\ phase' = [phase EXCEPT ![d] = "closed"] /\ tabOf' = [tabOf EXCEPT ![d] = NoTab]
            /\ ended' = [ended EXCEPT ![d] = NoRun] /\ owed' = [owed EXCEPT ![d] = {}]
            /\ attached' = [t \in Tabs |-> IF attached[t] = d THEN NoConn ELSE attached[t]]
            /\ UNCHANGED chanKey
        BY <3>3 DEF Leave, Unsubscribe, chanVars
      <4> QED  BY <1>0, <4>1, NoConnIsNoConn DEF StreamTypeOK
    <3> QED  BY <2>5, <3>1, <3>2, <3>3 DEF HandlerStep
  <2>6. ASSUME NEW t \in Tabs, NEW d \in Chans, Open(t, d) PROVE Same
    <3>1. d # c
      BY <2>6
    <3>2. /\ \E p : phase' = [phase EXCEPT ![d] = p]
          /\ \E p : tabOf' = [tabOf EXCEPT ![d] = p]
          /\ \E p : ended' = [ended EXCEPT ![d] = p]
          /\ \E p : owed' = [owed EXCEPT ![d] = p]
          /\ \E p : chanKey' = [chanKey EXCEPT ![d] = p]
          /\ attached' = [attached EXCEPT ![t] = d]
      BY <2>6 DEF Open, Subscribe
    <3> QED  BY <1>0, <3>1, <3>2 DEF StreamTypeOK, TypeOK
  <2>7. ASSUME NEW t \in Tabs, Detach(t) \/ Reload(t) PROVE Same
    <3>1. /\ attached' = [attached EXCEPT ![t] = NoConn]
          /\ UNCHANGED <<phase, chanKey, tabOf, ended, owed>>
      BY <2>7 DEF Detach, Reload, vars, chanVars, handlerVars, ghostVars
    <3> QED  BY <1>0, <3>1, NoConnIsNoConn DEF StreamTypeOK
  <2>8. ASSUME NEW k \in Keys, EditCheck(k) \/ EditDrop(k) PROVE Same
    BY <2>1, <2>8 DEF EditCheck, EditDrop, DropSession, vars, chanVars, handlerVars, clientVars, ghostVars
  <2>9. ASSUME UNCHANGED allVars PROVE Same
    BY <2>1, <2>9 DEF allVars, vars, chanVars, streamVars, handlerVars, clientVars, ghostVars
  <2>10. \A t \in Tabs : Reload(t) => attached'[t] # c
    BY <1>0, NoConnIsNoConn DEF Reload, StreamTypeOK
  <2>11. Same
    BY <2>2, <2>3, <2>4, <2>5, <2>6, <2>7, <2>8, <2>9 DEF StreamNext
  <2> QED  BY <2>10, <2>11
<1>2. PICK t \in Tabs : t = tabOf[c] /\ chanKey[c] = TabKey[t]
  BY <1>0, <1>1 DEF Wired
<1>3. attached[t] = c /\ attached'[t] = c /\ mishap'[t] = {}
  BY <1>0, <1>1, <1>2
<1>4. mishap[t] = {}
  BY <1>1, <1>3, MishapsStay
<1>5. chanKey[c] \in Keys /\ ~ EditDrop(chanKey[c])
  BY <1>2, <1>3, TabKeyType, DropsConcern, NoConnIsNoConn
<1>6. PICK k \in Keys : k = chanKey[c]
  BY <1>5
<1>7. Base(k)' = Base(k)
  BY <1>5, <1>6, LogsGrow DEF Grown
<1>8. Base(chanKey[c])' = Base(k)'
  BY <1>1, <1>6 DEF Base
<1> QED  BY <1>1, <1>2, <1>3, <1>4, <1>5, <1>6, <1>7, <1>8 DEF Undisturbed

(* A step that does not touch an undisturbed connection.                   *)
LEMMA UntouchedKept ==
    ASSUME StreamInv, [StreamNext]_allVars, NEW c \in Chans, NEW k \in Keys, NothingLost(c),
           chanKey[c] = k, chanKey'[c] = k, Base(k)' = Base(k),
           UNCHANGED <<owed[c], ended[c], phase[c], sent[c], owes[c], chan[c], lastSeq[k]>>,
           c \in subs[k] => c \in subs'[k],
           \A r \in Runs : (c \in todo'[r] <=> c \in todo[r])
                           /\ (c \in todo[r] => event'[r] = event[r])
    PROVE  NothingLost(c)'
<1>1. sent[c] \in Nat /\ owes[c] \in Seq(Event) /\ Base(k) \in Nat
  BY Facts
<1>2. Due(c) \in Nat /\ Due(c)' = Due(c)
  <2>1. Base(chanKey[c])' = Base(k)
    BY DEF Base
  <2>2. Len(owes[c]) \in Nat
    BY <1>1
  <2> QED  BY <1>1, <2>1, <2>2 DEF Due
<1>3. OwedInv(c)' /\ EndedInv(c)'
  BY <1>2, SettledKept DEF NothingLost
<1>4. OwesInv(c)'
  BY OwesKept DEF NothingLost
<1>5. Pending(c)' = Pending(c)
  BY DEF Pending
<1>6. CarriedInv(c)'
  BY <1>5 DEF NothingLost, CarriedInv
<1> QED  BY <1>3, <1>4, <1>6 DEF NothingLost

(* A Run publishes to an undisturbed connection.                           *)
LEMMA PublishedTo ==
    ASSUME StreamInv, [StreamNext]_allVars, NEW c \in Chans, NothingLost(c),
           chanKey[c] \in Keys, UNCHANGED <<owed[c], ended[c], phase[c], sent[c], owes[c]>>,
           NEW r \in Runs, NEW k \in Keys, NEW e \in Event, Published(r, k, e),
           Base(chanKey[c])' = Base(chanKey[c])
    PROVE  NothingLost(c)'
<1>0. /\ k = runKey[r] /\ active[k] = r /\ todo[r] = {} /\ e.seq = lastSeq[k] + 1
      /\ \A q \in Keys : lastSeq'[q] = IF q = k THEN lastSeq[k] + 1 ELSE lastSeq[q]
      /\ \A q \in Runs : /\ event'[q] = IF q = r THEN e ELSE event[q]
                         /\ todo'[q] = IF q = r THEN subs[k] ELSE todo[q]
      /\ UNCHANGED <<active, subs, chan, chanKey, runKey>>
  BY DEF Published
<1>1. /\ SubscribersOfTheKey /\ TargetsOfTheKey /\ Fanning /\ RegistryNamesTheWriter
      /\ lastSeq[k] \in Nat
  BY Facts DEF StreamInv, RegInv, ChannelInv, WriterInv
<1>2. PICK q \in Keys : q = chanKey[c]
  OBVIOUS
<1>3. Base(q)' = Base(q)
  BY <1>0, <1>2 DEF Base
<1>4. CASE q # k
  <2>1. c \notin subs[k]
    BY <1>1, <1>2, <1>4 DEF SubscribersOfTheKey
  <2>2. \A p \in Runs : /\ (c \in todo'[p] <=> c \in todo[p])
                        /\ (c \in todo[p] => event'[p] = event[p])
    BY <1>0, <2>1
  <2> QED  BY <1>0, <1>2, <1>3, <1>4, <2>2, UntouchedKept
<1>5. CASE q = k
  <2>1. sent[c] \in Nat /\ owes[c] \in Seq(Event) /\ chan[c] \in Seq(Event) /\ Base(k) \in Nat
    BY Facts
  <2>2. Due(c) \in Nat /\ Due(c)' = Due(c)
    <3>1. Base(chanKey[c])' = Base(chanKey[c])
      OBVIOUS
    <3>2. Len(owes[c]) \in Nat
      BY <2>1
    <3> QED  BY <1>2, <1>5, <2>1, <3>1, <3>2 DEF Due
  <2>3. OwedInv(c)' /\ EndedInv(c)'
    BY <1>0, <1>2, <1>3, <2>2, SettledKept DEF NothingLost
  <2>4. OwesInv(c)'
    BY <1>0, <1>2, <1>3, OwesKept DEF NothingLost
  <2>5. \A p \in Runs : c \notin todo[p]
    <3> SUFFICES ASSUME NEW p \in Runs, c \in todo[p] PROVE FALSE
      OBVIOUS
    <3>1. Registered(p) /\ runKey[p] = k
      BY <1>1, <1>2, <1>5 DEF Fanning, TargetsOfTheKey
    <3>2. active[k] = p
      BY <1>1, <3>1 DEF RegistryNamesTheWriter
    <3> QED  BY <1>0, <3>2
  <2>6. CarriedInv(c)'
    <3> SUFFICES ASSUME phase[c] \in {"replay", "live"}
                 PROVE  /\ c \in subs[k]
                        /\ lastSeq'[k] = sent[c] + Len(owes[c]) + Len(chan[c]) + Pending(c)'
                        /\ \A i \in 1 .. Len(chan[c]) : chan[c][i].seq = sent[c] + Len(owes[c]) + i
                        /\ \A p \in Runs : c \in todo'[p] => event'[p].seq = lastSeq'[k]
      BY <1>0, <1>2, <1>5 DEF CarriedInv
    <3>1. /\ c \in subs[k]
          /\ lastSeq[k] = sent[c] + Len(owes[c]) + Len(chan[c]) + Pending(c)
          /\ \A i \in 1 .. Len(chan[c]) : chan[c][i].seq = sent[c] + Len(owes[c]) + i
      BY <1>2, <1>5 DEF NothingLost, CarriedInv
    <3>2. Pending(c) = 0 /\ Pending(c)' = 1
      BY <1>0, <2>5, <3>1 DEF Pending
    <3>3. lastSeq'[k] = sent[c] + Len(owes[c]) + Len(chan[c]) + 1
      <4> DEFINE n == Len(owes[c])
                 m == Len(chan[c])
      <4>1. n \in Nat /\ m \in Nat /\ lastSeq'[k] = lastSeq[k] + 1 /\ lastSeq[k] = sent[c] + n + m + 0
        BY <1>0, <2>1, <3>1, <3>2
      <4> HIDE DEF n, m
      <4>2. lastSeq'[k] = sent[c] + n + m + 1
        BY <1>1, <2>1, <4>1
      <4> QED  BY <4>2 DEF n, m
    <3>4. \A p \in Runs : c \in todo'[p] => event'[p].seq = lastSeq'[k]
      BY <1>0, <2>5
    <3> QED  BY <3>1, <3>2, <3>3, <3>4
  <2> QED  BY <2>3, <2>4, <2>6 DEF NothingLost
<1> QED  BY <1>4, <1>5

(* A Run offers its event to an undisturbed connection, which has room.    *)
LEMMA OfferedTo ==
    ASSUME StreamInv, [StreamNext]_allVars, NEW c \in Chans, NEW k \in Keys, NothingLost(c),
           chanKey[c] = k, chanKey'[c] = k, Base(k)' = Base(k),
           UNCHANGED <<owed[c], ended[c], phase[c], sent[c], owes[c], lastSeq[k], subs[k], event>>,
           NEW r \in Runs, c \in todo[r], todo' = [todo EXCEPT ![r] = @ \ {c}],
           chan'[c] = Append(chan[c], event[r])
    PROVE  NothingLost(c)'
<1>1. sent[c] \in Nat /\ owes[c] \in Seq(Event) /\ chan[c] \in Seq(Event) /\ Base(k) \in Nat
      /\ event[r] \in Event /\ todo \in [Runs -> SUBSET Chans]
  BY Facts DEF StreamInv, RegInv, TypeOK
<1>2. Due(c) \in Nat /\ Due(c)' = Due(c)
  <2>1. Base(chanKey[c])' = Base(k)
    BY DEF Base
  <2>2. Len(owes[c]) \in Nat
    BY <1>1
  <2> QED  BY <1>1, <2>1, <2>2 DEF Due
<1>3. OwedInv(c)' /\ EndedInv(c)'
  BY <1>2, SettledKept DEF NothingLost
<1>4. OwesInv(c)'
  BY OwesKept DEF NothingLost
<1>5. \A p \in Runs : c \in todo[p] => p = r
  <2> SUFFICES ASSUME NEW p \in Runs, c \in todo[p] PROVE p = r
    OBVIOUS
  <2> QED  BY OneOfferer DEF StreamInv, RegInv, ChannelInv
<1>6. Pending(c) = 1 /\ Pending(c)' = 0 /\ \A p \in Runs : c \notin todo'[p]
  BY <1>1, <1>5 DEF Pending
<1>7. CarriedInv(c)'
  <2> DEFINE s == chan[c]
             w == chan'[c]
             n == Len(owes[c])
             x == event[r]
  <2> SUFFICES ASSUME phase[c] \in {"replay", "live"}
               PROVE  /\ c \in subs[k]
                      /\ lastSeq[k] = sent[c] + n + Len(w) + 0
                      /\ \A i \in 1 .. Len(w) : w[i].seq = sent[c] + n + i
    BY <1>6 DEF CarriedInv
  <2>1. /\ c \in subs[k]
        /\ lastSeq[k] = sent[c] + n + Len(s) + 1
        /\ \A i \in 1 .. Len(s) : s[i].seq = sent[c] + n + i
        /\ x.seq = lastSeq[k]
    BY <1>6 DEF NothingLost, CarriedInv
  <2>2. n \in Nat /\ s \in Seq(Event) /\ Len(s) \in Nat /\ x \in Event /\ w = Append(s, x)
    BY <1>1
  <2> DEFINE l == Len(s)
             a == sent[c]
             z == lastSeq[k]
  <2>3. a \in Nat /\ l \in Nat /\ z = a + n + l + 1
    BY <1>1, <2>1, <2>2
  <2> HIDE DEF s, w, n, x, l, a, z
  <2>4. Len(w) = l + 1 /\ w[l + 1] = x /\ \A i \in 1 .. l : w[i] = s[i]
    BY <2>2, AppendProperties DEF l
  <2>5. z = a + n + Len(w) + 0
    BY <2>2, <2>3, <2>4
  <2>6. ASSUME NEW i \in 1 .. Len(w) PROVE w[i].seq = a + n + i
    <3>1. CASE i \in 1 .. l
      BY <2>1, <2>4, <3>1 DEF a, l
    <3>2. CASE i = l + 1
      <4>1. w[i].seq = z
        BY <2>1, <2>4, <3>2 DEF z
      <4> QED  BY <2>2, <2>3, <3>2, <4>1
    <3> QED  BY <2>3, <2>4, <3>1, <3>2
  <2> QED  BY <2>1, <2>5, <2>6 DEF a, z
<1> QED  BY <1>3, <1>4, <1>7 DEF NothingLost

(* The handler writes what its replay or its tail still holds.             *)
LEMMA WroteOwed ==
    ASSUME StreamInv, [StreamNext]_allVars, NEW c \in Chans, NEW k \in Keys,
           NothingLost(c), chanKey[c] = k, WriteOwed(c)
    PROVE  NothingLost(c)'
<1>0. /\ sent[c] \in Nat /\ owes[c] \in Seq(Event) /\ chan[c] \in Seq(Event) /\ Base(k) \in Nat
      /\ sent \in [Chans -> Nat] /\ owes \in [Chans -> Seq(Event)]
  BY Facts DEF StreamInv, StreamTypeOK
<1>1. /\ owes[c] # << >> /\ sent' = [sent EXCEPT ![c] = Head(owes[c]).seq]
      /\ owes' = [owes EXCEPT ![c] = Tail(@)]
      /\ UNCHANGED <<phase, tabOf, ended, log, owed, lastSeq, subs, chan, chanKey, event, todo>>
  BY DEF WriteOwed, Write, vars, regVars, chanVars, runVars
<1> DEFINE o == owes[c]
           w == owes'[c]
           a == sent[c]
           z == sent'[c]
<1>2. o \in Seq(Event) /\ Len(o) >= 1 /\ w = Tail(o) /\ z = o[1].seq /\ a \in Nat
  BY <1>0, <1>1
<1>3. \A i \in 1 .. Len(o) : o[i].seq = a + i /\ Located(log[k], Base(k), o[i])
  BY DEF NothingLost, OwesInv
<1>4. Base(chanKey[c]) = Base(k) /\ Base(k)' = Base(k) /\ Base(chanKey[c])' = Base(k)
  BY <1>1 DEF Base
<1>5. Due(c) = Base(k) + a + Len(o) /\ Due(c)' = Base(k) + z + Len(w)
  BY <1>4 DEF Due
<1> HIDE DEF o, w, a, z
<1>6. Len(o) \in Nat /\ Len(w) = Len(o) - 1 /\ \A i \in 1 .. Len(w) : w[i] = o[i + 1] /\ i + 1 \in 1 .. Len(o)
  BY <1>2
<1>7. z = a + 1
  <2>1. 1 \in 1 .. Len(o)
    BY <1>2, <1>6
  <2> QED  BY <1>2, <1>3, <2>1
<1>8. Due(c) \in Nat /\ Due(c)' = Due(c)
  <2> DEFINE n == Len(o)
             m == Len(w)
             b == Base(k)
  <2>1. n \in Nat /\ m = n - 1 /\ z = a + 1 /\ a \in Nat /\ b \in Nat
    BY <1>0, <1>2, <1>6, <1>7
  <2>2. Due(c) = b + a + n /\ Due(c)' = b + z + m
    BY <1>5
  <2> HIDE DEF n, m, b
  <2>3. b + a + n \in Nat /\ b + z + m = b + a + n
    BY <2>1
  <2> QED  BY <2>2, <2>3
<1>9. OwedInv(c)' /\ EndedInv(c)'
  <2>1. Due(c)' >= Due(c) /\ Due(c)' \in Nat
    BY <1>8
  <2>2. /\ chanKey'[c] = k /\ Base(k)' = Base(k) /\ owed'[c] = owed[c] /\ ended'[c] = ended[c]
        /\ phase'[c] = phase[c]
    BY <1>1, <1>4
  <2> QED  BY <1>8, <2>1, <2>2, SettledKept DEF NothingLost
<1>10. OwesInv(c)'
  <2>1. ASSUME NEW i \in 1 .. Len(w) PROVE w[i].seq = z + i /\ Located(log[k], Base(k), w[i])
    <3>1. w[i] = o[i + 1] /\ i + 1 \in 1 .. Len(o)
      BY <1>6
    <3>2. o[i + 1].seq = a + (i + 1) /\ Located(log[k], Base(k), o[i + 1])
      BY <1>3, <3>1
    <3>3. a + (i + 1) = z + i
      BY <1>2, <1>6, <1>7
    <3> QED  BY <3>1, <3>2, <3>3
  <2> QED  BY <1>1, <1>4, <2>1 DEF OwesInv, w, z
<1>11. CarriedInv(c)'
  <2> DEFINE n == Len(o)
             m == Len(w)
             l == Len(chan[c])
             s == chan[c]
             y == lastSeq[k]
             p == Pending(c)
  <2> SUFFICES ASSUME phase[c] \in {"replay", "live"}
               PROVE  /\ c \in subs[k]
                      /\ y = z + m + l + p
                      /\ \A i \in 1 .. l : s[i].seq = z + m + i
                      /\ \A r \in Runs : c \in todo[r] => event[r].seq = lastSeq[k]
    <3>1. Pending(c)' = Pending(c)
      BY <1>1 DEF Pending
    <3> QED  BY <1>1, <3>1 DEF CarriedInv, w, z
  <2>1. /\ c \in subs[k]
        /\ y = a + n + l + p
        /\ \A i \in 1 .. l : s[i].seq = a + n + i
        /\ \A r \in Runs : c \in todo[r] => event[r].seq = lastSeq[k]
    BY DEF NothingLost, CarriedInv, o, a
  <2>2. n \in Nat /\ m = n - 1 /\ z = a + 1 /\ a \in Nat /\ l \in Nat /\ p \in Nat
    BY <1>0, <1>2, <1>6, <1>7 DEF Pending
  <2> HIDE DEF n, m, l, s, y, p
  <2>3. y = z + m + l + p
    BY <2>1, <2>2
  <2>4. ASSUME NEW i \in 1 .. l PROVE s[i].seq = z + m + i
    <3>1. a + n + i = z + m + i
      BY <2>2
    <3> QED  BY <2>1, <3>1
  <2> QED  BY <2>1, <2>3, <2>4
<1> QED  BY <1>9, <1>10, <1>11 DEF NothingLost

(* The handler takes an event from the channel: it is the next one.        *)
LEMMA WroteLive ==
    ASSUME StreamInv, [StreamNext]_allVars, NEW c \in Chans, NEW k \in Keys,
           NothingLost(c), chanKey[c] = k, Live(c)
    PROVE  NothingLost(c)'
<1>0. /\ sent[c] \in Nat /\ owes[c] = << >> /\ chan[c] \in Seq(Event) /\ Base(k) \in Nat
      /\ sent \in [Chans -> Nat] /\ chan \in [Chans -> Seq(Event)]
  BY Facts DEF StreamInv, StreamTypeOK, RegInv, TypeOK, Wired, Live
<1>1. /\ phase[c] = "live" /\ chan[c] # << >> /\ chan' = [chan EXCEPT ![c] = Tail(@)]
      /\ UNCHANGED <<phase, tabOf, ended, owes, log, owed, lastSeq, subs, chanKey, event, todo>>
  BY DEF Live, Receive, regVars, runVars
<1> DEFINE s == chan[c]
           w == chan'[c]
           a == sent[c]
           y == lastSeq[k]
           p == Pending(c)
<1>2. s \in Seq(Event) /\ Len(s) >= 1 /\ w = Tail(s) /\ a \in Nat /\ p \in Nat
  BY <1>0, <1>1 DEF Pending
<1>3. /\ c \in subs[k]
      /\ y = a + Len(owes[c]) + Len(s) + p
      /\ \A i \in 1 .. Len(s) : s[i].seq = a + Len(owes[c]) + i
      /\ \A r \in Runs : c \in todo[r] => event[r].seq = lastSeq[k]
  BY <1>1 DEF NothingLost, CarriedInv
<1>4. Len(owes[c]) = 0 /\ Len(owes'[c]) = 0
  BY <1>0, <1>1
<1>5. s[1].seq = a + 1 /\ Head(s) = s[1]
  <2>1. 1 \in 1 .. Len(s)
    BY <1>2
  <2>2. s[1].seq = a + Len(owes[c]) + 1
    BY <1>3, <2>1
  <2> QED  BY <1>2, <1>4, <2>2
<1>6. sent'[c] = a + 1
  <2>1. Head(chan[c]).seq > sent[c] /\ Head(chan[c]).seq = a + 1
    BY <1>2, <1>5
  <2>2. sent' = [sent EXCEPT ![c] = Head(chan[c]).seq]
    BY <2>1 DEF Live, Write
  <2> QED  BY <1>0, <2>1, <2>2
<1>7. Base(chanKey[c]) = Base(k) /\ Base(k)' = Base(k) /\ Base(chanKey[c])' = Base(k)
  BY <1>1 DEF Base
<1>8. Due(c) = Base(k) + a + 0 /\ Due(c)' = Base(k) + (a + 1) + 0
  <2>1. Due(c) = Base(chanKey[c]) + sent[c] + Len(owes[c])
    BY DEF Due
  <2>2. Due(c)' = Base(chanKey[c])' + sent'[c] + Len(owes'[c])
    BY DEF Due
  <2> QED  BY <1>4, <1>6, <1>7, <2>1, <2>2
<1>9. OwedInv(c)' /\ EndedInv(c)'
  <2>1. Due(c) \in Nat /\ Due(c)' \in Nat /\ Due(c)' >= Due(c)
    BY <1>0, <1>2, <1>8
  <2>2. /\ chanKey'[c] = k /\ Base(k)' = Base(k) /\ owed'[c] = owed[c] /\ ended'[c] = ended[c]
        /\ phase'[c] = phase[c]
    BY <1>1, <1>7
  <2> QED  BY <2>1, <2>2, SettledKept DEF NothingLost
<1>10. OwesInv(c)'
  BY <1>4 DEF OwesInv
<1>11. CarriedInv(c)'
  <2>1. Pending(c)' = p
    BY <1>1 DEF Pending
  <2> SUFFICES /\ y = (a + 1) + 0 + Len(w) + p
               /\ \A i \in 1 .. Len(w) : w[i].seq = (a + 1) + 0 + i
    BY <1>1, <1>3, <1>4, <1>6, <2>1 DEF CarriedInv
  <2>2. y = a + 0 + Len(s) + p /\ \A i \in 1 .. Len(s) : s[i].seq = a + 0 + i
    BY <1>3, <1>4
  <2> HIDE DEF s, w, a, y, p
  <2>3. Len(s) \in Nat /\ Len(w) = Len(s) - 1 /\ \A i \in 1 .. Len(w) : w[i] = s[i + 1] /\ i + 1 \in 1 .. Len(s)
    BY <1>2
  <2>4. y = (a + 1) + 0 + Len(w) + p
    <3> DEFINE n == Len(s)
               m == Len(w)
    <3>1. n \in Nat /\ m = n - 1 /\ y = a + 0 + n + p
      BY <2>2, <2>3
    <3> HIDE DEF n, m
    <3>2. y = (a + 1) + 0 + m + p
      BY <1>2, <3>1
    <3> QED  BY <3>2 DEF m
  <2>5. ASSUME NEW i \in 1 .. Len(w) PROVE w[i].seq = (a + 1) + 0 + i
    <3>1. w[i].seq = a + 0 + (i + 1)
      BY <2>2, <2>3
    <3>2. i \in Nat
      BY <2>3
    <3> QED  BY <1>2, <3>1, <3>2
  <2> QED  BY <2>4, <2>5
<1> QED  BY <1>9, <1>10, <1>11 DEF NothingLost

(* The handler goes on from its replay.                                    *)
LEMMA TurnedLive ==
    ASSUME StreamInv, [StreamNext]_allVars, NEW c \in Chans, NEW k \in Keys,
           NothingLost(c), chanKey[c] = k, Replayed(c)
    PROVE  NothingLost(c)'
<1>0. /\ phase[c] = "replay" /\ owes[c] = << >>
      /\ phase'[c] = IF ended[c] = NoRun THEN "leaving" ELSE "live"
      /\ UNCHANGED <<ended, sent, owes, log, owed, lastSeq, subs, chan, chanKey, event, todo>>
  BY DEF Replayed, vars, regVars, chanVars, runVars, ghostVars, StreamInv, StreamTypeOK
<1>1. /\ Base(chanKey[c])' = Base(chanKey[c]) /\ Due(c)' = Due(c) /\ Pending(c)' = Pending(c)
      /\ log' = log /\ owed' = owed /\ owes' = owes /\ sent' = sent
  BY <1>0 DEF Base, Due, Pending
<1>2. OwedInv(c)' /\ OwesInv(c)'
  BY <1>0, <1>1 DEF NothingLost, OwedInv, OwesInv
<1>3. ASSUME NEW i \in 1 .. Len(log[k]) PROVE log[k][i].run \in Runs
  <2>1. log[k] \in Seq(LogEntry)
    BY Facts
  <2>2. log[k][i] \in LogEntry
    BY <2>1
  <2> QED  BY <2>2 DEF LogEntry
<1>4. EndedInv(c)'
  <2>1. CASE ended[c] = NoRun
    <3>1. \A i \in 1 .. Len(log[k]) : log[k][i].run # ended[c]
      BY <1>3, <2>1, NoRunIsNoRun
    <3> QED  BY <1>0, <2>1, <3>1 DEF EndedInv
  <2>2. CASE ended[c] # NoRun
    <3>1. phase'[c] = "live"
      BY <1>0, <2>2
    <3>2. \A i \in 1 .. Len(log[chanKey[c]]) : log[chanKey[c]][i].run = ended[c] => i > Base(chanKey[c])
      BY DEF NothingLost, EndedInv
    <3> QED  BY <1>0, <1>1, <3>1, <3>2 DEF EndedInv
  <2> QED  BY <2>1, <2>2
<1>5. CarriedInv(c)'
  BY <1>0, <1>1 DEF NothingLost, CarriedInv
<1> QED  BY <1>2, <1>4, <1>5 DEF NothingLost

LEMMA TailDone ==
    ASSUME StreamInv, [StreamNext]_allVars, NEW c \in Chans,
           NothingLost(c), TailWritten(c)
    PROVE  NothingLost(c)'
<1>0. /\ phase[c] = "tail" /\ phase'[c] = "leaving"
      /\ UNCHANGED <<pc, ended, sent, owes, log, owed, lastSeq, subs, chan, chanKey, event, todo>>
  BY DEF TailWritten, vars, regVars, chanVars, runVars, ghostVars, StreamInv, StreamTypeOK
<1>1. Base(chanKey[c])' = Base(chanKey[c]) /\ Due(c)' = Due(c)
  BY <1>0 DEF Base, Due
<1>2. OwedInv(c)' /\ OwesInv(c)'
  BY <1>0, <1>1 DEF NothingLost, OwedInv, OwesInv
<1>3. EndedInv(c)'
  <2>1. /\ \A i \in 1 .. Len(log[chanKey[c]]) : log[chanKey[c]][i].run = ended[c] =>
               i > Base(chanKey[c]) /\ i <= Due(c)
        /\ ended[c] = NoRun \/ DoneClosed(ended[c])
    BY <1>0 DEF NothingLost, EndedInv
  <2> QED  BY <1>0, <1>1, <2>1 DEF EndedInv, DoneClosed
<1>4. CarriedInv(c)'
  BY <1>0 DEF CarriedInv
<1> QED  BY <1>2, <1>3, <1>4 DEF NothingLost

(* The Run is over: its tail in the buffer reaches back to what the tab    *)
(* has seen, because what the connection has not written yet fits into its *)
(* channel but for one event, and the buffer is larger.                    *)
LEMMA TailReaches ==
    ASSUME StreamInv, [StreamNext]_allVars, NEW c \in Chans, NEW k \in Keys,
           NothingLost(c), chanKey[c] = k, RunOver(c)
    PROVE  NothingLost(c)'
<1>0. /\ phase[c] = "live" /\ owes[c] = << >> /\ DoneClosed(ended[c])
      /\ phase'[c] = "tail" /\ owes'[c] = EventsAfter(k, sent[c])
      /\ UNCHANGED <<pc, ended, sent, log, owed, lastSeq, subs, chan, chanKey, event, todo>>
  BY DEF RunOver, vars, regVars, chanVars, runVars, clientVars, ghostVars, StreamInv, StreamTypeOK, Wired
<1>1. /\ TypeOK /\ BufferIsLatest /\ BufferIsLogged /\ BufferIsFull /\ ChannelAscends
      /\ sent[c] \in Nat /\ chan[c] \in Seq(Event) /\ Base(k) \in Nat /\ lastSeq[k] \in Nat
      /\ Base(k) + lastSeq[k] = Len(log[k]) /\ buffer[k] \in Seq(Event)
  BY Facts DEF StreamInv, RegInv, ChannelInv, LogInv, TypeOK
<1>2. PICK p : p = EventsAfter(k, sent[c])
  OBVIOUS
<1>3. PICK b \in Nat : b = Base(k)
  BY <1>1
<1>4. /\ sent[c] <= lastSeq[k] /\ lastSeq[k] <= sent[c] + Len(buffer[k])
      /\ lastSeq[k] = sent[c] + Len(chan[c]) + Pending(c)
  <2> DEFINE a == sent[c]
             z == lastSeq[k]
             n == Len(chan[c])
             m == Len(buffer[k])
             q == Pending(c)
  <2>1. z = a + Len(owes[c]) + n + q /\ Len(owes[c]) = 0
    BY <1>0 DEF NothingLost, CarriedInv
  <2>2. /\ a \in Nat /\ z \in Nat /\ n \in Nat /\ n <= ChanCap /\ q \in {0, 1}
        /\ m \in Nat /\ (m = z \/ m = EventCap)
    BY <1>1 DEF ChannelAscends, BufferIsFull, Pending
  <2>3. EventCap \in Nat /\ ChanCap \in Nat /\ ChanCap < EventCap
    BY CapsArePositive, TailCoversChannel
  <2>4. z = a + 0 + n + q
    BY <2>1
  <2> HIDE DEF a, z, n, m, q
  <2>5. a <= z /\ z <= a + m /\ z = a + n + q
    BY <2>2, <2>3, <2>4
  <2> QED  BY <2>5 DEF a, z, n, m, q
<1>5. /\ p \in Seq(Event)
      /\ \A j \in 1 .. Len(p) :
             /\ p[j].seq + Len(p) = lastSeq[k] + j
             /\ \E i \in 1 .. Len(buffer[k]) : p[j] = buffer[k][i]
      /\ sent[c] + Len(p) = lastSeq[k]
  <2>1. PICK since \in Nat : since = sent[c]
    BY <1>1
  <2>2. p = EventsAfter(k, since) /\ since <= lastSeq[k] /\ lastSeq[k] <= since + Len(buffer[k])
    BY <1>2, <1>4, <2>1
  <2> DEFINE q == EventsAfter(k, since)
  <2>3. TypeOK /\ BufferIsLatest
    BY <1>1
  <2>4. /\ q \in Seq(Event)
        /\ \A j \in 1 .. Len(q) :
               /\ q[j].seq + Len(q) = lastSeq[k] + j
               /\ q[j].seq > since
               /\ \E i \in 1 .. Len(buffer[k]) : q[j] = buffer[k][i]
        /\ since <= lastSeq[k] /\ lastSeq[k] <= since + Len(buffer[k])
               => since + Len(q) = lastSeq[k]
    BY <2>3, Replay
  <2> HIDE DEF q
  <2>5. p = q
    BY <2>2 DEF q
  <2> QED  BY <2>1, <2>2, <2>4, <2>5
<1>6. Base(chanKey[c])' = b /\ Base(chanKey[c]) = b
  BY <1>0, <1>3 DEF Base
<1>7. Due(c)' = Len(log[k]) /\ Len(log[k]) \in Nat /\ Due(c) = b + sent[c] /\ Due(c) <= Due(c)'
  <2> DEFINE a == sent[c]
             z == lastSeq[k]
             n == Len(p)
             l == Len(log[k])
  <2>1. a \in Nat /\ z \in Nat /\ n \in Nat /\ a + n = z /\ b + z = l
    BY <1>1, <1>3, <1>5
  <2>2. Len(owes[c]) = 0 /\ Len(owes'[c]) = n
    BY <1>0, <1>2
  <2>3. Due(c) = b + a + 0
    BY <1>6, <2>2 DEF Due
  <2>4. Due(c)' = b + a + n
    BY <1>0, <1>6, <2>2 DEF Due
  <2> HIDE DEF a, z, n, l
  <2>5. b + a + n = l /\ l \in Nat /\ b + a + 0 <= l /\ b + a + 0 = b + a
    BY <2>1
  <2> QED  BY <2>3, <2>4, <2>5 DEF l, a
<1>8. OwedInv(c)'
  <2> SUFFICES ASSUME NEW i \in owed[c] PROVE b < i /\ i <= Len(log[k])
    BY <1>0, <1>6, <1>7 DEF OwedInv
  <2>1. b < i /\ i <= Due(c) /\ i \in Nat
    BY <1>6 DEF NothingLost, OwedInv, StreamInv, StreamTypeOK
  <2> DEFINE l == Len(log[k])
             d == Due(c)
  <2>2. l \in Nat /\ d \in Nat /\ d <= l /\ i <= d
    BY <1>1, <1>7, <2>1
  <2> HIDE DEF l, d
  <2>3. i <= l
    BY <2>1, <2>2
  <2> QED  BY <2>1, <2>3 DEF l
<1>9. EndedInv(c)'
  <2>1. \A i \in 1 .. Len(log[k]) : log[k][i].run = ended[c] => i > b
    BY <1>6 DEF NothingLost, EndedInv
  <2>2. \A i \in 1 .. Len(log[k]) : i <= Len(log[k])
    BY <1>7
  <2>3. DoneClosed(ended[c])'
    BY <1>0 DEF DoneClosed
  <2> QED  BY <1>0, <1>6, <1>7, <2>1, <2>2, <2>3 DEF EndedInv
<1>10. OwesInv(c)'
  <2>1. ASSUME NEW j \in 1 .. Len(p)
        PROVE  p[j].seq = sent[c] + j /\ Located(log[k], b, p[j])
    <3>1. Located(log[k], b, p[j])
      BY <1>1, <1>3, <1>5 DEF BufferIsLogged
    <3> DEFINE x == p[j].seq
               n == Len(p)
               a == sent[c]
               z == lastSeq[k]
    <3>2. x \in Nat /\ n \in Nat /\ a \in Nat /\ x + n = z + j /\ a + n = z
      <4>1. p[j] \in Event /\ n \in Nat
        BY <1>5
      <4> QED  BY <1>1, <1>5, <4>1 DEF Event
    <3> HIDE DEF x, n, a, z
    <3>3. x = a + j
      BY <3>2
    <3> QED  BY <3>1, <3>3 DEF x, a
  <2> QED  BY <1>0, <1>2, <1>6, <2>1 DEF OwesInv
<1>11. CarriedInv(c)'
  BY <1>0 DEF CarriedInv
<1> QED  BY <1>8, <1>9, <1>10, <1>11 DEF NothingLost

(* A tab that connects without a mishap is owed all the session still has, *)
(* and its replay joins the channel without a gap.                         *)
LEMMA OpenedWhole ==
    ASSUME StreamInv, SeenInv, YoungRuns, [StreamNext]_allVars, NEW t \in Tabs, NEW c \in Chans,
           Open(t, c), mishap'[t] = {}
    PROVE  NothingLost(c)'
<1>0. /\ TypeOK /\ BufferIsLatest /\ BufferIsLogged /\ RegistryNamesTheWriter /\ Fanning /\ Placed
      /\ Wired /\ FreshIsEmpty /\ TargetsOfTheKey /\ StreamTypeOK
  BY DEF StreamInv, RegInv, ChannelInv, WriterInv, LogInv
<1>1. PICK k \in Keys : k = TabKey[t]
  BY TabKeyType
<1>2. PICK since \in Nat : since = cursor[t]
  BY Facts
<1>3. PICK b \in Nat : b = Base(k)
  BY Facts
<1>4. PICK p : p = EventsAfter(k, since)
  OBVIOUS
<1>5. /\ chanKey[c] = NoKey /\ chan[c] = << >> /\ \A r \in Runs : c \notin todo[r]
  <2>1. chanKey[c] = NoKey
    BY DEF Open, Subscribe
  <2>2. ASSUME NEW r \in Runs, c \in todo[r] PROVE FALSE
    <3>1. runKey[r] = NoKey /\ Registered(r)
      BY <1>0, <2>1, <2>2 DEF TargetsOfTheKey, Fanning
    <3> QED  BY <1>0, <3>1 DEF Placed, Registered
  <2> QED  BY <1>0, <2>1, <2>2 DEF FreshIsEmpty
<1>6. /\ UNCHANGED <<log, lastSeq, event, todo, chan>>
      /\ chanKey'[c] = k /\ phase'[c] = "replay" /\ sent'[c] = since /\ owes'[c] = p
      /\ ended'[c] = active[k] /\ c \in subs'[k]
      /\ owed'[c] = Len(log[k]) - lastSeq[k] + 1 .. Len(log[k])
      /\ ~ (since + Len(buffer[k]) < lastSeq[k]) /\ mishap[t] = {}
  <2>1. /\ UNCHANGED <<log, lastSeq, event, todo, chan>>
        /\ chanKey' = [chanKey EXCEPT ![c] = k] /\ phase' = [phase EXCEPT ![c] = "replay"]
        /\ sent' = [sent EXCEPT ![c] = since] /\ owes' = [owes EXCEPT ![c] = p]
        /\ ended' = [ended EXCEPT ![c] = active[k]] /\ subs' = [subs EXCEPT ![k] = @ \cup {c}]
        /\ owed' = [owed EXCEPT ![c] = Len(log[k]) - lastSeq[k] + 1 .. Len(log[k])]
        /\ mishap' = IF since + Len(buffer[k]) < lastSeq[k]
                     THEN [mishap EXCEPT ![t] = @ \cup {"trimmed"}] ELSE mishap
    BY <1>1, <1>2, <1>4 DEF Open, Subscribe, runVars
  <2>2. /\ chanKey'[c] = k /\ phase'[c] = "replay" /\ sent'[c] = since /\ owes'[c] = p
        /\ ended'[c] = active[k] /\ c \in subs'[k]
        /\ owed'[c] = Len(log[k]) - lastSeq[k] + 1 .. Len(log[k])
    BY <1>0, <2>1 DEF TypeOK, StreamTypeOK
  <2>3. ~ (since + Len(buffer[k]) < lastSeq[k]) /\ mishap[t] = {}
    BY <1>0, <2>1 DEF StreamTypeOK
  <2> QED  BY <2>1, <2>2, <2>3
<1>7. /\ lastSeq[k] \in Nat /\ Len(log[k]) \in Nat /\ b + lastSeq[k] = Len(log[k])
      /\ since <= lastSeq[k] /\ lastSeq[k] <= since + Len(buffer[k])
  <2> DEFINE m == Len(buffer[k])
             z == lastSeq[k]
  <2>1. m \in Nat /\ z \in Nat /\ ~ (since + m < z)
    BY <1>0, <1>6 DEF TypeOK
  <2>2. since <= z
    BY <1>1, <1>2, <1>6 DEF SeenInv
  <2> HIDE DEF m, z
  <2>3. z <= since + m
    BY <2>1
  <2> QED  BY <1>3, <2>2, <2>3, Facts DEF m, z
<1>8. /\ p \in Seq(Event)
      /\ \A j \in 1 .. Len(p) :
             /\ p[j].seq + Len(p) = lastSeq[k] + j
             /\ \E i \in 1 .. Len(buffer[k]) : p[j] = buffer[k][i]
      /\ since + Len(p) = lastSeq[k]
  <2> DEFINE q == EventsAfter(k, since)
  <2>1. /\ q \in Seq(Event)
        /\ \A j \in 1 .. Len(q) :
               /\ q[j].seq + Len(q) = lastSeq[k] + j
               /\ q[j].seq > since
               /\ \E i \in 1 .. Len(buffer[k]) : q[j] = buffer[k][i]
        /\ since <= lastSeq[k] /\ lastSeq[k] <= since + Len(buffer[k])
               => since + Len(q) = lastSeq[k]
    BY <1>0, Replay
  <2> HIDE DEF q
  <2>2. p = q
    BY <1>4 DEF q
  <2> QED  BY <1>7, <2>1, <2>2
<1>9. Base(chanKey[c])' = b
  BY <1>3, <1>6 DEF Base
<1>10. Due(c)' = Len(log[k])
  <2> DEFINE n == Len(p)
             z == lastSeq[k]
             l == Len(log[k])
  <2>1. n \in Nat /\ z \in Nat /\ l \in Nat /\ b + z = l /\ since + n = z
    BY <1>7, <1>8
  <2>2. Due(c)' = b + since + n
    BY <1>6, <1>9 DEF Due
  <2> HIDE DEF n, z, l
  <2>3. b + since + n = l
    BY <2>1
  <2> QED  BY <2>2, <2>3 DEF l
<1>11. OwedInv(c)'
  <2> SUFFICES ASSUME NEW i \in owed'[c] PROVE b < i /\ i <= Len(log[k])
    BY <1>6, <1>9, <1>10 DEF OwedInv
  <2> DEFINE z == lastSeq[k]
             l == Len(log[k])
  <2>1. i \in l - z + 1 .. l /\ z \in Nat /\ l \in Nat /\ b + z = l
    BY <1>6, <1>7
  <2> HIDE DEF z, l
  <2>2. b < i /\ i <= l
    BY <2>1
  <2> QED  BY <2>2 DEF l
<1>12. EndedInv(c)'
  <2> SUFFICES ASSUME NEW i \in 1 .. Len(log[k]), log[k][i].run = active[k]
               PROVE  i > b
    BY <1>6, <1>9 DEF EndedInv
  <2>1. log[k][i].run \in Runs
    <3>1. log[k] \in Seq(LogEntry)
      BY Facts
    <3>2. log[k][i] \in LogEntry
      BY <3>1
    <3> QED  BY <3>2 DEF LogEntry
  <2>2. PICK r \in Runs : r = active[k]
    BY <2>1
  <2>3. Registered(r) /\ runKey[r] = k
    BY <1>0, <2>2 DEF RegistryNamesTheWriter
  <2>4. "struck" \notin mishap[t]
    BY <1>6
  <2>5. i > Base(TabKey[t])
    BY <1>1, <2>2, <2>3, <2>4 DEF YoungRuns
  <2> QED  BY <1>1, <1>3, <2>5
<1>13. OwesInv(c)'
  <2>1. ASSUME NEW j \in 1 .. Len(p)
        PROVE  p[j].seq = since + j /\ Located(log[k], b, p[j])
    <3>1. Located(log[k], b, p[j])
      BY <1>0, <1>3, <1>8 DEF BufferIsLogged
    <3> DEFINE x == p[j].seq
               n == Len(p)
               z == lastSeq[k]
    <3>2. x \in Nat /\ n \in Nat /\ x + n = z + j /\ since + n = z
      <4>1. p[j] \in Event /\ n \in Nat
        BY <1>8
      <4> QED  BY <1>8, <4>1 DEF Event
    <3> HIDE DEF x, n, z
    <3>3. x = since + j
      BY <3>2
    <3> QED  BY <3>1, <3>3 DEF x
  <2> QED  BY <1>6, <1>9, <2>1 DEF OwesInv
<1>14. CarriedInv(c)'
  <2>1. Pending(c)' = 0 /\ Len(chan'[c]) = 0 /\ \A r \in Runs : c \notin todo'[r]
    BY <1>5, <1>6 DEF Pending
  <2>2. since + Len(p) + 0 + 0 = lastSeq[k]
    <3> DEFINE n == Len(p)
               z == lastSeq[k]
    <3>1. n \in Nat /\ since + n = z
      BY <1>8
    <3> HIDE DEF n, z
    <3>2. since + n + 0 + 0 = z
      BY <3>1
    <3> QED  BY <3>2 DEF n, z
  <2> QED  BY <1>6, <2>1, <2>2 DEF CarriedInv
<1> QED  BY <1>11, <1>12, <1>13, <1>14 DEF NothingLost

(* An offer to an undisturbed connection finds room.                       *)
LEMMA OfferedRoom ==
    ASSUME StreamInv, [StreamNext]_allVars, NEW c \in Chans, NEW k \in Keys, NothingLost(c),
           chanKey[c] = k, Base(k)' = Base(k), Undisturbed(c)',
           NEW r \in Runs, NEW d \in Chans, StreamOffer(r, d)
    PROVE  NothingLost(c)'
<1>0. /\ chan \in [Chans -> Seq(Event)] /\ todo \in [Runs -> SUBSET Chans]
      /\ Wired /\ mishap \in [Tabs -> SUBSET Mishaps]
  BY DEF StreamInv, StreamTypeOK, RegInv, TypeOK
<1>1. /\ UNCHANGED <<owed, ended, phase, tabOf, attached, sent, owes, lastSeq, subs, event, chanKey>>
      /\ d \in todo[r] /\ todo' = [todo EXCEPT ![r] = @ \ {d}]
      /\ chan' = IF Len(chan[d]) < ChanCap THEN [chan EXCEPT ![d] = Append(@, event[r])] ELSE chan
      /\ mishap' = [t \in Tabs |-> IF attached[t] = d /\ Len(chan[d]) >= ChanCap
                                   THEN mishap[t] \cup {"overrun"} ELSE mishap[t]]
  BY DEF StreamOffer, Offer, regVars, handlerVars, clientVars
<1>2. CASE d # c
  <2>1. chan'[c] = chan[c]
    BY <1>0, <1>1, <1>2
  <2>2. \A q \in Runs : (c \in todo'[q] <=> c \in todo[q]) /\ event'[q] = event[q]
    BY <1>0, <1>1, <1>2
  <2> QED  BY <1>1, <2>1, <2>2, UntouchedKept
<1>3. CASE d = c
  <2>1. tabOf[c] \in Tabs /\ attached[tabOf[c]] = c /\ mishap'[tabOf[c]] = {}
    BY <1>0, <1>1 DEF Undisturbed, Wired
  <2>2. ~ (Len(chan[c]) >= ChanCap)
    BY <1>0, <1>1, <1>3, <2>1
  <2>3. Len(chan[c]) < ChanCap
    <3>1. Len(chan[c]) \in Nat /\ ChanCap \in Nat
      BY <1>0, CapsArePositive
    <3> QED  BY <2>2, <3>1
  <2>4. chan'[c] = Append(chan[c], event[r])
    BY <1>0, <1>1, <1>3, <2>3
  <2> QED  BY <1>1, <1>3, <2>4, OfferedTo
<1> QED  BY <1>2, <1>3

(* Every step leaves an undisturbed connection all it has to show.         *)
LEMMA LostStep ==
    ASSUME StreamInv, CompleteInv, [StreamNext]_allVars, NEW c \in Chans, Undisturbed(c)'
    PROVE  NothingLost(c)'
<1>0. /\ StreamTypeOK /\ TypeOK /\ RegInv /\ LogType /\ Wired
      /\ phase'[c] # "closed" /\ mishap'[tabOf'[c]] = {}
  BY DEF StreamInv, RegInv, StreamTypeOK, LogType, LogEntry, Undisturbed
<1>1. ASSUME NEW t \in Tabs, Open(t, c) PROVE NothingLost(c)'
  <2>1. tabOf'[c] = t
    BY <1>0, <1>1 DEF Open, StreamTypeOK
  <2> QED  BY <1>0, <1>1, <2>1, OpenedWhole DEF CompleteInv
<1>2. ASSUME \A t \in Tabs : ~ Open(t, c) PROVE NothingLost(c)'
  <2>1. /\ Undisturbed(c) /\ UNCHANGED <<chanKey[c], tabOf[c], ended[c], owed[c]>>
        /\ chanKey[c] \in Keys /\ ~ EditDrop(chanKey[c])
        /\ Base(chanKey[c])' = Base(chanKey[c])
    BY <1>2, UndisturbedBefore
  <2>2. NothingLost(c) /\ attached[tabOf[c]] = c
    BY <2>1 DEF CompleteInv, Undisturbed
  <2>3. PICK k \in Keys : k = chanKey[c]
    BY <2>1
  <2>4. Base(k)' = Base(k) /\ chanKey[c] = k /\ chanKey'[c] = k
    BY <2>1, <2>3 DEF Base
  <2>5. ASSUME UNCHANGED <<phase[c], sent[c], owes[c], chan[c], lastSeq[k], todo, event>>,
               c \in subs[k] => c \in subs'[k]
        PROVE  NothingLost(c)'
    BY <2>1, <2>2, <2>4, <2>5, UntouchedKept
  <2>6. ASSUME UNCHANGED <<phase, sent, owes, chan, lastSeq, todo, event, subs>> PROVE NothingLost(c)'
    BY <2>5, <2>6
  <2>7. ASSUME NEW r \in Runs, StreamRunStep(r) PROVE NothingLost(c)'
    <3>1. CASE (Emit(r) \/ Recover(r)) /\ Record(r) /\ UNCHANGED handlerVars
      <4>1. PICK q \in Keys, e \in Event : Published(r, q, e)
        BY <1>0, <3>1, Publishes
      <4> QED  BY <2>1, <2>2, <3>1, <4>1, PublishedTo DEF handlerVars
    <3>2. CASE (Return(r) \/ Panic(r) \/ Unregister(r) \/ CloseDone(r)) /\ UNCHANGED streamVars
      BY <2>6, <3>2 DEF Return, Panic, Unregister, CloseDone, regVars, chanVars, streamVars, handlerVars
    <3> QED  BY <2>7, <3>1, <3>2 DEF StreamRunStep
  <2>8. ASSUME NEW r \in Runs, NEW d \in Chans, StreamOffer(r, d) PROVE NothingLost(c)'
    BY <2>2, <2>4, <2>8, OfferedRoom
  <2>9. ASSUME NEW r \in Runs, NEW q \in Keys, StreamStart(r, q) PROVE NothingLost(c)'
    BY <2>6, <2>9 DEF StreamStart, Start, chanVars, streamVars, handlerVars
  <2>10. ASSUME HandlerStep(c) PROVE NothingLost(c)'
    <3>1. ~ Disconnected(c)
      BY <2>2 DEF Disconnected
    <3>2. ~ Leave(c)
      BY <1>0 DEF Leave, StreamTypeOK
    <3> QED  BY <2>2, <2>4, <2>10, <3>1, <3>2, WroteOwed, WroteLive, TurnedLive, TailDone, TailReaches
             DEF HandlerStep
  <2>11. ASSUME NEW d \in Chans, d # c, HandlerStep(d) PROVE NothingLost(c)'
    <3>1. CASE WriteOwed(d)
      <4>1. /\ \E x : sent' = [sent EXCEPT ![d] = x]
            /\ \E x : owes' = [owes EXCEPT ![d] = x]
            /\ UNCHANGED <<phase, chan, lastSeq, todo, event, subs>>
        BY <3>1 DEF WriteOwed, Write, vars, regVars, chanVars, runVars
      <4> QED  BY <1>0, <2>5, <2>11, <4>1 DEF StreamTypeOK
    <3>2. CASE Live(d)
      <4>1. /\ sent' = sent \/ \E x : sent' = [sent EXCEPT ![d] = x]
            /\ \E x : chan' = [chan EXCEPT ![d] = x]
            /\ UNCHANGED <<phase, owes, lastSeq, todo, event, subs>>
        BY <3>2 DEF Live, Write, Receive, regVars, runVars
      <4> QED  BY <1>0, <2>5, <2>11, <4>1 DEF StreamTypeOK, TypeOK
    <3>3. CASE Replayed(d) \/ RunOver(d) \/ TailWritten(d) \/ Disconnected(d)
      <4>1. /\ \E x : phase' = [phase EXCEPT ![d] = x]
            /\ owes' = owes \/ \E x : owes' = [owes EXCEPT ![d] = x]
            /\ UNCHANGED <<sent, chan, lastSeq, todo, event, subs>>
        BY <3>3 DEF Replayed, RunOver, TailWritten, Disconnected, vars, regVars, chanVars, runVars
      <4> QED  BY <1>0, <2>5, <2>11, <4>1 DEF StreamTypeOK
    <3>4. CASE Leave(d)
      <4>1. /\ phase' = [phase EXCEPT ![d] = "closed"] /\ sent' = [sent EXCEPT ![d] = 0]
            /\ UNCHANGED <<owes, chan, lastSeq, todo, event>>
            /\ subs' = [subs EXCEPT ![chanKey[d]] = @ \ {d}]
        BY <3>4 DEF Leave, Unsubscribe, chanVars, runVars
      <4>2. c \in subs[k] => c \in subs'[k]
        BY <1>0, <2>11, <4>1 DEF TypeOK
      <4> QED  BY <1>0, <2>5, <2>11, <4>1, <4>2 DEF StreamTypeOK
    <3> QED  BY <2>11, <3>1, <3>2, <3>3, <3>4 DEF HandlerStep
  <2>12. ASSUME NEW u \in Tabs, NEW d \in Chans, Open(u, d) PROVE NothingLost(c)'
    <3>1. d # c
      BY <1>2, <2>12
    <3>2. /\ \E x : phase' = [phase EXCEPT ![d] = x]
          /\ \E x : sent' = [sent EXCEPT ![d] = x]
          /\ \E x : owes' = [owes EXCEPT ![d] = x]
          /\ subs' = [subs EXCEPT ![TabKey[u]] = @ \cup {d}]
          /\ UNCHANGED <<chan, lastSeq, todo, event>>
      BY <2>12 DEF Open, Subscribe, runVars
    <3>3. c \in subs[k] => c \in subs'[k]
      BY <1>0, <3>2 DEF TypeOK
    <3> QED  BY <1>0, <2>5, <3>1, <3>2, <3>3 DEF StreamTypeOK
  <2>13. ASSUME NEW u \in Tabs, Detach(u) \/ Reload(u) PROVE NothingLost(c)'
    BY <2>6, <2>13 DEF Detach, Reload, vars, regVars, chanVars, runVars, handlerVars
  <2>14. ASSUME NEW q \in Keys, EditCheck(q) PROVE NothingLost(c)'
    BY <2>6, <2>14 DEF EditCheck, vars, regVars, chanVars, runVars, handlerVars
  <2>15. ASSUME NEW q \in Keys, EditDrop(q) PROVE NothingLost(c)'
    <3>1. q # k
      BY <2>1, <2>3, <2>15
    <3>2. /\ UNCHANGED <<phase, sent, owes, chan, todo, event>>
          /\ lastSeq'[k] = lastSeq[k] /\ subs'[k] = subs[k]
      BY <2>15, <3>1 DEF EditDrop, DropSession, Forget, chanVars, runVars, handlerVars
    <3> QED  BY <2>5, <3>2
  <2>16. CASE UNCHANGED allVars
    BY <2>6, <2>16 DEF allVars, vars, regVars, chanVars, runVars, streamVars, handlerVars
  <2> QED  BY <2>7, <2>8, <2>9, <2>10, <2>11, <2>12, <2>13, <2>14, <2>15, <2>16 DEF StreamNext
<1> QED  BY <1>1, <1>2

LEMMA CompleteInvariant == StreamSpec => []CompleteInv
<1>1. StreamInit => CompleteInv
  <2> SUFFICES ASSUME StreamInit PROVE CompleteInv
    OBVIOUS
  <2>1. \A k \in Keys : Len(log[k]) = 0 /\ lastSeq[k] = 0 /\ Base(k) = 0
    BY DEF StreamInit, Init, Base
  <2>2. \A t \in Tabs : cursor[t] = 0 /\ TabKey[t] \in Keys
    BY TabKeyType DEF StreamInit
  <2>3. UnbornSilent /\ YoungRuns
    BY <2>1, <2>2 DEF UnbornSilent, YoungRuns
  <2>4. SeenInv
    BY <2>1, <2>2 DEF SeenInv
  <2>5. \A c \in Chans : phase[c] = "none"
    BY DEF StreamInit
  <2> QED  BY <2>3, <2>4, <2>5 DEF CompleteInv, Undisturbed
<1>2. StreamInv /\ CompleteInv /\ [StreamNext]_allVars => CompleteInv'
  <2> SUFFICES ASSUME StreamInv, CompleteInv, [StreamNext]_allVars PROVE CompleteInv'
    OBVIOUS
  <2>1. UnbornSilent' /\ YoungRuns'
    BY UnbornStep, YoungStep DEF CompleteInv
  <2> QED  BY <2>1, SeenStep, LostStep DEF CompleteInv
<1> QED  BY <1>1, <1>2, StreamInvariant, PTL DEF StreamSpec

(* A stream the server ends leaves its reader nothing to miss, neither of  *)
(* what its session still had when the tab connected nor of the Run it     *)
(* followed -- over snapshot, replay, channel and tail, however often the  *)
(* tab reconnects -- unless the channel was full, the buffer had passed    *)
(* the cursor, or truncate or delete dropped the buffer.                   *)
THEOREM NothingLeftOut == StreamSpec => []CompleteUnlessMishap
<1>1. ASSUME StreamInv, CompleteInv PROVE CompleteUnlessMishap
  <2> SUFFICES ASSUME NEW c \in Chans, EndedForReader(c), mishap[tabOf[c]] = {}
               PROVE  LeftNothingOut(c)
    BY DEF CompleteUnlessMishap
  <2>1. /\ phase[c] = "leaving" /\ attached[tabOf[c]] = c
        /\ tabOf[c] \in Tabs /\ chanKey[c] = TabKey[tabOf[c]] /\ owes[c] = << >>
        /\ cursor[tabOf[c]] = sent[c]
    BY <1>1 DEF EndedForReader, StreamInv, Wired
  <2>2. NothingLost(c)
    BY <1>1, <2>1 DEF CompleteInv, Undisturbed
  <2>3. PICK t \in Tabs : t = tabOf[c]
    BY <2>1
  <2>4. PICK k \in Keys : k = TabKey[t]
    BY <1>1, Facts
  <2>5. PICK b \in Nat : b = Base(k)
    BY <1>1, Facts
  <2>6. cursor[t] \in Nat /\ Len(log[k]) \in Nat /\ owed[c] \in SUBSET Nat
    BY <1>1, Facts DEF StreamInv, StreamTypeOK
  <2>7. Due(c) = b + cursor[t]
    <3>1. Len(owes[c]) = 0
      BY <2>1
    <3>2. Due(c) = b + cursor[t] + 0
      BY <2>1, <2>3, <2>4, <2>5, <3>1 DEF Due
    <3> QED  BY <2>6, <3>2
  <2>8. \A i \in b + 1 .. b + cursor[t] : i \in Shown(t)
    BY <1>1, <2>3, <2>4, <2>5 DEF CompleteInv, SeenInv
  <2>9. ASSUME NEW i \in Nat, b < i, i <= b + cursor[t] PROVE i \in Shown(t)
    <3>1. i \in b + 1 .. b + cursor[t]
      BY <2>6, <2>9
    <3> QED  BY <2>8, <3>1
  <2>10. ASSUME NEW i \in owed[c] PROVE i \in Shown(t)
    <3>1. b < i /\ i <= b + cursor[t] /\ i \in Nat
      BY <2>1, <2>2, <2>3, <2>4, <2>5, <2>6, <2>7 DEF NothingLost, OwedInv
    <3> QED  BY <2>9, <3>1
  <2>11. ASSUME NEW i \in 1 .. Len(log[k]), log[k][i].run = ended[c] PROVE i \in Shown(t)
    <3>1. i > b /\ i <= b + cursor[t] /\ i \in Nat
      BY <2>1, <2>2, <2>3, <2>4, <2>5, <2>6, <2>7, <2>11 DEF NothingLost, EndedInv
    <3> QED  BY <2>5, <2>9, <3>1
  <2> QED  BY <2>3, <2>4, <2>10, <2>11 DEF LeftNothingOut
<1> QED  BY <1>1, StreamInvariant, CompleteInvariant, PTL
=============================================================================
