--------------------------- MODULE RunManagerProofs ---------------------------
(***************************************************************************)
(* The safety properties of RunManager hold for every number of sessions,  *)
(* Runs, subscribers and users and for every capacity of the buffer and of *)
(* the channels.                                                           *)
(***************************************************************************)
EXTENDS RunManager, SequenceTheorems, TLAPS

-----------------------------------------------------------------------------
(* Facts about the sequences the module is built from. *)

(* Appending one event and trimming keeps the newest EventCap events. *)
LEMMA TrimAppend ==
    ASSUME NEW buf \in Seq(Event), NEW e \in Event
    PROVE  LET new == Trim(Append(buf, e)) IN
           /\ new \in Seq(Event)
           /\ Len(new) \in 1 .. EventCap
           /\ Len(new) <= Len(buf) + 1
           /\ new[Len(new)] = e
           /\ \A i \in 1 .. Len(new) - 1 : new[i] = buf[i + (Len(buf) + 1 - Len(new))]
  <1> DEFINE app == Append(buf, e)
             new == Trim(app)
  <1>1. app \in Seq(Event) /\ Len(app) = Len(buf) + 1 /\ Len(buf) \in Nat
    BY AppendProperties
  <1>2. \A i \in 1 .. Len(app) : app[i] = IF i = Len(app) THEN e ELSE buf[i]
    BY <1>1, AppendProperties
  <1>3. EventCap \in Nat /\ EventCap >= 1
    BY CapsArePositive
  <1>4. new = Trim(app)
    OBVIOUS
  <1> SUFFICES /\ new \in Seq(Event)
               /\ Len(new) \in 1 .. EventCap
               /\ Len(new) <= Len(buf) + 1
               /\ new[Len(new)] = e
               /\ \A i \in 1 .. Len(new) - 1 : new[i] = buf[i + (Len(buf) + 1 - Len(new))]
    OBVIOUS
  <1> HIDE DEF app, new
  <1>5. CASE Len(app) > EventCap
    <2> DEFINE first == Len(app) - EventCap + 1
    <2>1. new = SubSeq(app, first, Len(app))
      BY <1>4, <1>5 DEF Trim
    <2>2. first \in 1 .. Len(app) /\ Len(app) \in Nat
      BY <1>1, <1>3, <1>5
    <2> HIDE DEF first
    <2>3. /\ new \in Seq(Event) /\ Len(new) = Len(app) - first + 1
          /\ \A i \in 1 .. Len(app) - first + 1 : new[i] = app[first + i - 1]
      BY <1>1, <2>1, <2>2, SubSeqProperties
    <2>4. Len(new) = EventCap
      BY <1>1, <1>3, <2>2, <2>3 DEF first
    <2>5. \A i \in 1 .. Len(new) : new[i] = app[i + (Len(app) - Len(new))]
      <3> TAKE i \in 1 .. Len(new)
      <3>1. first + i - 1 = i + (Len(app) - Len(new))
        BY <1>3, <2>2, <2>3
      <3>2. QED
        BY <2>3, <3>1
    <2>6. new[Len(new)] = e
      BY <1>2, <1>3, <2>2, <2>4, <2>5
    <2>7. \A i \in 1 .. Len(new) - 1 : new[i] = buf[i + (Len(app) - Len(new))]
      <3> TAKE i \in 1 .. Len(new) - 1
      <3> DEFINE j == i + (Len(app) - Len(new))
      <3>1. j \in 1 .. Len(app) - 1 /\ i \in 1 .. Len(new)
        BY <1>3, <1>5, <2>2, <2>4
      <3>2. app[j] = buf[j]
        BY <1>2, <2>2, <3>1
      <3>3. QED
        BY <2>5, <3>1, <3>2
    <2>8. QED
      BY <1>1, <1>3, <1>5, <2>3, <2>4, <2>6, <2>7
  <1>6. CASE ~ (Len(app) > EventCap)
    <2>1. new = app
      BY <1>4, <1>6 DEF Trim
    <2>2. QED
      BY <1>1, <1>2, <1>3, <1>6, <2>1
  <1>7. QED
    BY <1>5, <1>6

(* The arithmetic of a buffer that lost its oldest event: every remaining  *)
(* one moves down by one while the counter moves up by one.                *)
LEMMA ShiftedSum ==
    ASSUME NEW s \in Nat, NEW m \in Nat, NEW n \in Nat, NEW i \in Nat, NEW l \in Nat,
           s + m = l + (i + (m + 1 - n))
    PROVE  s + n = l + 1 + i
  OBVIOUS

(* If the buffer is numbered consecutively up to last, the new one is so up *)
(* to the event appended.                                                   *)
LEMMA TrimKeepsNumbering ==
    ASSUME NEW buf \in Seq(Event), NEW e \in Event, NEW last \in Nat,
           e.seq = last + 1,
           \A i \in 1 .. Len(buf) : buf[i].seq + Len(buf) = last + i
    PROVE  LET new == Trim(Append(buf, e))
           IN  \A i \in 1 .. Len(new) : new[i].seq + Len(new) = last + 1 + i
  <1> DEFINE new == Trim(Append(buf, e))
  <1>1. Len(buf) \in Nat /\ EventCap \in Nat
    BY CapsArePositive
  <1>2. /\ Len(new) \in 1 .. EventCap /\ Len(new) <= Len(buf) + 1
        /\ new[Len(new)] = e
        /\ \A i \in 1 .. Len(new) - 1 : new[i] = buf[i + (Len(buf) + 1 - Len(new))]
    BY TrimAppend, Zenon
  <1>3. \A i \in 1 .. Len(new) - 1 : new[i] = buf[i + (Len(buf) + 1 - Len(new))]
    BY <1>2
  <1> SUFFICES \A i \in 1 .. Len(new) : new[i].seq + Len(new) = last + 1 + i
    OBVIOUS
  <1> HIDE DEF new
  <1>4. SUFFICES ASSUME NEW i \in 1 .. Len(new)
                 PROVE  new[i].seq + Len(new) = last + 1 + i
    OBVIOUS
  <1>5. CASE i = Len(new)
    BY <1>1, <1>2, <1>5
  <1>6. CASE i # Len(new)
    <2> DEFINE j == i + (Len(buf) + 1 - Len(new))
    <2>1. i \in 1 .. Len(new) - 1 /\ j \in 1 .. Len(buf)
      BY <1>1, <1>2, <1>6
    <2>2. new[i] = buf[j] /\ buf[j] \in Event
      BY <1>3, <2>1
    <2>3. buf[j].seq + Len(buf) = last + j /\ buf[j].seq \in Nat
      BY <2>1, <2>2 DEF Event
    <2> DEFINE s == new[i].seq
               m == Len(buf)
               n == Len(new)
    <2>4. s + m = last + (i + (m + 1 - n))
      BY <2>2, <2>3
    <2>5. s \in Nat /\ m \in Nat /\ n \in Nat /\ i \in Nat
      BY <1>1, <1>2, <2>2, <2>3
    <2> HIDE DEF s, m, n
    <2>6. s + n = last + 1 + i
      BY <2>4, <2>5, ShiftedSum
    <2>7. QED
      BY <2>6 DEF s, n
  <1>7. QED
    BY <1>5, <1>6

-----------------------------------------------------------------------------
(* Type correctness.  Publish looks its key up in the maps, so it needs that *)
(* a goroutine which has started has a key.                                *)

Placed == \A r \in Runs : pc[r] = "unborn" <=> runKey[r] = NoKey

(* What a goroutine's key and its newest event are when it may publish. *)
LEMMA PublishFacts ==
    ASSUME TypeOK, Placed, NEW r \in Runs, pc[r] # "unborn", Publish(r)
    PROVE  LET k  == runKey[r]
               be == [seq |-> lastSeq[k] + 1, run |-> r, n |-> event[r].n + 1]
           IN  /\ k \in Keys
               /\ be \in Event
               /\ lastSeq' = [lastSeq EXCEPT ![k] = @ + 1]
               /\ buffer'  = [buffer EXCEPT ![k] = Trim(Append(buffer[k], be))]
               /\ Trim(Append(buffer[k], be)) \in Seq(Event)
               /\ event'   = [event EXCEPT ![r] = be]
               /\ todo'    = [todo EXCEPT ![r] = subs[k]]
  <1> DEFINE k  == runKey[r]
             be == [seq |-> lastSeq[k] + 1, run |-> r, n |-> event[r].n + 1]
  <1>1. k \in Keys
    BY DEF TypeOK, Placed
  <1>2. be \in Event
    BY <1>1 DEF TypeOK, Event
  <1>3. buffer[k] \in Seq(Event)
    BY <1>1 DEF TypeOK
  <1>4. Trim(Append(buffer[k], be)) \in Seq(Event)
    <2> HIDE DEF k, be
    <2>1. QED
      BY <1>2, <1>3, TrimAppend
  <1>5. QED
    BY <1>1, <1>2, <1>4 DEF Publish, TypeOK

(* A step of the registry keeps the types, and a goroutine's key.          *)
LEMMA TypeStep == TypeOK /\ Placed /\ [Next]_vars => TypeOK' /\ Placed'
  <1> SUFFICES ASSUME TypeOK, Placed, [Next]_vars PROVE TypeOK' /\ Placed'
    OBVIOUS
  <1>1. ASSUME NEW r \in Runs, NEW k \in Keys, Start(r, k)
        PROVE  TypeOK' /\ Placed'
    BY <1>1, NoKeyIsNoKey DEF TypeOK, Placed, Start, chanVars, PC
  <1>2. ASSUME NEW r \in Runs, Publish(r), pc[r] # "unborn",
               pc' = pc \/ pc' = [pc EXCEPT ![r] = "returned"]
        PROVE  TypeOK' /\ Placed'
    <2> DEFINE k   == runKey[r]
               be  == [seq |-> lastSeq[k] + 1, run |-> r, n |-> event[r].n + 1]
               new == Trim(Append(buffer[k], be))
    <2>0. /\ k \in Keys /\ be \in Event /\ new \in Seq(Event)
          /\ lastSeq' = [lastSeq EXCEPT ![k] = @ + 1]
          /\ buffer'  = [buffer EXCEPT ![k] = new]
          /\ event'   = [event EXCEPT ![r] = be]
          /\ todo'    = [todo EXCEPT ![r] = subs[k]]
      BY <1>2, PublishFacts
    <2> HIDE DEF k, be, new
    <2>1. /\ buffer' \in [Keys -> Seq(Event)]
          /\ event' \in [Runs -> Event]
          /\ lastSeq' \in [Keys -> Nat]
          /\ todo' \in [Runs -> SUBSET Chans]
      BY <2>0 DEF TypeOK
    <2>2. /\ pc' \in [Runs -> PC]
          /\ UNCHANGED <<active, subs, chan, chanKey, runKey, actor, cancelled>>
      BY <1>2 DEF TypeOK, PC, Publish, chanVars
    <2>3. QED
      BY <1>2, <2>1, <2>2 DEF TypeOK, Placed
  <1>3. ASSUME NEW r \in Runs, Emit(r) PROVE TypeOK' /\ Placed'
    BY <1>2, <1>3 DEF Emit
  <1>4. ASSUME NEW r \in Runs, Recover(r) PROVE TypeOK' /\ Placed'
    BY <1>2, <1>4 DEF Recover
  <1>5. ASSUME NEW r \in Runs, NEW c \in Chans, Offer(r, c)
        PROVE  TypeOK' /\ Placed'
    BY <1>5 DEF TypeOK, Placed, Offer, regVars
  <1>6. ASSUME NEW r \in Runs, Return(r) \/ Panic(r) \/ CloseDone(r)
        PROVE  TypeOK' /\ Placed'
    BY <1>6 DEF TypeOK, Placed, Return, Panic, CloseDone, regVars, chanVars, PC
  <1>7. ASSUME NEW r \in Runs, Unregister(r) PROVE TypeOK' /\ Placed'
    BY <1>7 DEF TypeOK, Placed, Unregister, chanVars, PC
  <1>8. ASSUME NEW c \in Chans, NEW k \in Keys, Subscribe(c, k)
        PROVE  TypeOK' /\ Placed'
    BY <1>8 DEF TypeOK, Placed, Subscribe, runVars
  <1>9. ASSUME NEW c \in Chans, Receive(c) PROVE TypeOK' /\ Placed'
    BY <1>9 DEF TypeOK, Placed, Receive, regVars, runVars
  <1>10. ASSUME NEW c \in Chans, Unsubscribe(c) PROVE TypeOK' /\ Placed'
    BY <1>10 DEF TypeOK, Placed, Unsubscribe, chanVars, runVars
  <1>11. ASSUME NEW hit, CancelRuns(hit), UNCHANGED <<regVars, chanVars>>
         PROVE  TypeOK' /\ Placed'
    BY <1>11 DEF TypeOK, Placed, CancelRuns, regVars, chanVars
  <1>12. ASSUME NEW k \in Keys, Cancel(k) PROVE TypeOK' /\ Placed'
    BY <1>11, <1>12 DEF Cancel
  <1>13. ASSUME NEW k \in Keys, DropSession(k) PROVE TypeOK' /\ Placed'
    BY <1>13 DEF TypeOK, Placed, DropSession, Forget, chanVars, runVars
  <1>14. ASSUME NEW t \in Tenants, DropTenant(t) PROVE TypeOK' /\ Placed'
    BY <1>14 DEF TypeOK, Placed, DropTenant, CancelRuns, Forget, chanVars
  <1>15. ASSUME NEW t \in Tenants, NEW u \in Users, CancelTenantUser(t, u)
         PROVE  TypeOK' /\ Placed'
    BY <1>11, <1>15 DEF CancelTenantUser
  <1>16. ASSUME NEW u \in Users, CancelUser(u) PROVE TypeOK' /\ Placed'
    BY <1>11, <1>16 DEF CancelUser
  <1>17. CASE UNCHANGED vars
    BY <1>17 DEF TypeOK, Placed, vars, regVars, chanVars, runVars
  <1>18. QED
    BY <1>1, <1>3, <1>4, <1>5, <1>6, <1>7, <1>8, <1>9, <1>10, <1>12, <1>13,
       <1>14, <1>15, <1>16, <1>17 DEF Next, RunStep

(* Every reachable state of the registry and of its goroutines is of the   *)
(* declared type, and a goroutine has a key exactly once Start ran.        *)
THEOREM TypeCorrect == Spec => [](TypeOK /\ Placed)
  <1>1. Init => TypeOK /\ Placed
    BY NoKeyIsNoKey DEF Init, TypeOK, Placed, PC, Event
  <1>2. QED
    BY <1>1, TypeStep, PTL DEF Spec

-----------------------------------------------------------------------------
(* Only a registered goroutine still has sends to do, which is why Runs of *)
(* one session never fan out at the same time.                             *)

Fanning == \A r \in Runs : todo[r] # {} => Registered(r)

WriterInv == RegistryNamesTheWriter /\ Fanning

(* A step of the registry keeps one registered writer per session.         *)
LEMMA WriterStep == TypeOK /\ Placed /\ WriterInv /\ [Next]_vars => WriterInv'
  <1> SUFFICES ASSUME TypeOK, Placed, WriterInv, [Next]_vars PROVE WriterInv'
    OBVIOUS
  <1> USE DEF WriterInv, RegistryNamesTheWriter, Fanning, Registered
  <1>0. pc \in [Runs -> PC] /\ todo \in [Runs -> SUBSET Chans]
    BY DEF TypeOK
  <1>1. ASSUME NEW r \in Runs, NEW k \in Keys, Start(r, k) PROVE WriterInv'
    BY <1>1, NoRunIsNoRun, NoKeyIsNoKey DEF TypeOK, Placed, Start
  <1>2. ASSUME NEW r \in Runs, Publish(r), pc[r] \in {"body", "panicked"},
               pc' = pc \/ (pc[r] = "panicked" /\ pc' = [pc EXCEPT ![r] = "returned"])
        PROVE  WriterInv'
    <2>1. UNCHANGED <<active, runKey>> /\ todo' = [todo EXCEPT ![r] = subs[runKey[r]]]
      BY <1>2 DEF Publish
    <2>2. \A q \in Runs : Registered(q)' <=> Registered(q)
      BY <1>0, <1>2
    <2>3. \A q \in Runs : todo'[q] # {} => Registered(q)'
      BY <1>0, <1>2, <2>1, <2>2
    <2>4. QED
      BY <2>1, <2>2, <2>3
  <1>3. ASSUME NEW r \in Runs, Emit(r) PROVE WriterInv'
    BY <1>2, <1>3 DEF Emit
  <1>4. ASSUME NEW r \in Runs, Recover(r) PROVE WriterInv'
    BY <1>2, <1>4 DEF Recover
  <1>5. ASSUME NEW r \in Runs, NEW c \in Chans, Offer(r, c) PROVE WriterInv'
    BY <1>5 DEF TypeOK, Offer, regVars
  <1>6. ASSUME NEW r \in Runs, Return(r) \/ Panic(r) \/ CloseDone(r) PROVE WriterInv'
    <2>1. UNCHANGED <<active, runKey, todo>>
      BY <1>6 DEF Return, Panic, CloseDone, regVars
    <2>2. \A q \in Runs : Registered(q)' <=> Registered(q)
      BY <1>0, <1>6 DEF Return, Panic, CloseDone
    <2>3. QED
      BY <2>1, <2>2
  <1>7. ASSUME NEW r \in Runs, Unregister(r) PROVE WriterInv'
    BY <1>7, NoRunIsNoRun DEF TypeOK, Placed, Unregister, Sent
  <1>8. ASSUME UNCHANGED <<active, pc, runKey, todo>> PROVE WriterInv'
    BY <1>8
  <1>9. ASSUME NEW c \in Chans,
               Receive(c) \/ Unsubscribe(c) \/ \E k \in Keys : Subscribe(c, k)
        PROVE  WriterInv'
    BY <1>8, <1>9 DEF Subscribe, Receive, Unsubscribe, regVars, runVars
  <1>10. ASSUME NEW k \in Keys, Cancel(k) \/ DropSession(k) PROVE WriterInv'
    BY <1>8, <1>10 DEF Cancel, DropSession, CancelRuns, regVars, runVars
  <1>11. ASSUME NEW t \in Tenants, DropTenant(t) PROVE WriterInv'
    BY <1>8, <1>11 DEF DropTenant, CancelRuns
  <1>12. ASSUME NEW u \in Users,
                CancelUser(u) \/ \E t \in Tenants : CancelTenantUser(t, u)
         PROVE  WriterInv'
    BY <1>8, <1>12 DEF CancelTenantUser, CancelUser, CancelRuns, regVars
  <1>13. CASE UNCHANGED vars
    BY <1>8, <1>13 DEF vars, regVars, runVars
  <1> HIDE DEF WriterInv
  <1>14. QED
    BY <1>1, <1>3, <1>4, <1>5, <1>6, <1>7, <1>9, <1>10, <1>11, <1>12, <1>13
       DEF Next, RunStep

(* One registered writer per session, and only a registered one fans out:  *)
(* the inductive form of RegistryNamesTheWriter.                           *)
LEMMA WriterInvariant == Spec => []WriterInv
  <1>1. Init => WriterInv
    BY NoRunIsNoRun DEF Init, WriterInv, RegistryNamesTheWriter, Fanning, Registered
  <1>2. QED
    BY <1>1, WriterStep, TypeCorrect, PTL DEF Spec

(* rm.runs names the one goroutine that executes for a session. *)
THEOREM OneWriterPerSession == Spec => []RegistryNamesTheWriter
  <1>1. WriterInv => RegistryNamesTheWriter
    BY DEF WriterInv
  <1>2. QED
    BY <1>1, WriterInvariant, PTL

-----------------------------------------------------------------------------
(* What a session keeps is the contiguous end of its numbering. *)

(* Every step of the code keeps a session's buffer the end of its          *)
(* numbering.                                                              *)
LEMMA BufferStep ==
    TypeOK /\ Placed /\ BufferIsLatest /\ [Next]_vars => BufferIsLatest'
  <1> SUFFICES ASSUME TypeOK, Placed, BufferIsLatest, [Next]_vars
               PROVE  BufferIsLatest'
    OBVIOUS
  <1>1. ASSUME NEW r \in Runs, pc[r] # "unborn", Publish(r) PROVE BufferIsLatest'
    <2> DEFINE k   == runKey[r]
               be  == [seq |-> lastSeq[k] + 1, run |-> r, n |-> event[r].n + 1]
               buf == buffer[k]
               new == Trim(Append(buf, be))
    <2>1. /\ k \in Keys /\ be \in Event /\ new \in Seq(Event)
          /\ lastSeq' = [lastSeq EXCEPT ![k] = @ + 1]
          /\ buffer'  = [buffer EXCEPT ![k] = new]
      BY <1>1, PublishFacts
    <2>2. be.seq = lastSeq[k] + 1
      OBVIOUS
    <2> HIDE DEF k, be
    <2>3. buf \in Seq(Event) /\ lastSeq[k] \in Nat
      BY <2>1 DEF TypeOK
    <2>4. \A i \in 1 .. Len(buf) : buf[i].seq + Len(buf) = lastSeq[k] + i
      BY <2>1 DEF BufferIsLatest
    <2>5. new = Trim(Append(buf, be))
      OBVIOUS
    <2> HIDE DEF buf, new
    <2>6. \A i \in 1 .. Len(new) : new[i].seq + Len(new) = lastSeq[k] + 1 + i
      BY <2>1, <2>2, <2>3, <2>4, <2>5, TrimKeepsNumbering
    <2>7. new # << >> /\ Len(new) <= EventCap
      <3>1. Len(new) \in 1 .. EventCap
        BY <2>1, <2>3, <2>5, TrimAppend
      <3>2. QED
        BY <2>1, <3>1, CapsArePositive
    <2>8. \A q \in Keys : /\ buffer'[q] = IF q = k THEN new ELSE buffer[q]
                          /\ lastSeq'[q] = IF q = k THEN lastSeq[k] + 1 ELSE lastSeq[q]
      BY <2>1 DEF TypeOK
    <2>9. QED
      BY <2>6, <2>7, <2>8 DEF BufferIsLatest
  <1>2. ASSUME NEW gone, Forget(gone) PROVE BufferIsLatest'
    <2>1. \A q \in Keys : /\ buffer'[q] = IF q \in gone THEN << >> ELSE buffer[q]
                          /\ lastSeq'[q] = IF q \in gone THEN 0 ELSE lastSeq[q]
      BY <1>2 DEF Forget
    <2>2. QED
      BY <2>1, CapsArePositive DEF BufferIsLatest
  <1>3. ASSUME UNCHANGED <<buffer, lastSeq>> PROVE BufferIsLatest'
    BY <1>3 DEF BufferIsLatest
  <1>4. ASSUME NEW r \in Runs, RunStep(r) PROVE BufferIsLatest'
    BY <1>1, <1>3, <1>4 DEF RunStep, Emit, Recover, Return, Panic, Unregister,
                            CloseDone, Offer, regVars
  <1>5. ASSUME NEW k \in Keys,
               \/ Cancel(k) \/ DropSession(k)
               \/ \E r \in Runs : Start(r, k)
               \/ \E c \in Chans : Subscribe(c, k)
        PROVE  BufferIsLatest'
    BY <1>2, <1>3, <1>5 DEF Cancel, DropSession, Start, Subscribe, regVars
  <1>6. ASSUME NEW c \in Chans, Receive(c) \/ Unsubscribe(c) PROVE BufferIsLatest'
    BY <1>3, <1>6 DEF Receive, Unsubscribe, regVars
  <1>7. ASSUME NEW t \in Tenants,
               DropTenant(t) \/ \E u \in Users : CancelTenantUser(t, u)
        PROVE  BufferIsLatest'
    BY <1>2, <1>3, <1>7 DEF DropTenant, CancelTenantUser, regVars
  <1>8. ASSUME NEW u \in Users, CancelUser(u) PROVE BufferIsLatest'
    BY <1>3, <1>8 DEF CancelUser, regVars
  <1>9. CASE UNCHANGED vars
    BY <1>3, <1>9 DEF vars, regVars
  <1>10. QED
    BY <1>4, <1>5, <1>6, <1>7, <1>8, <1>9 DEF Next

(* A cursor-based replay meets no gap: trimming and clearing leave the      *)
(* newest events, numbered consecutively up to the session's counter.       *)
THEOREM BufferHasNoGap == Spec => []BufferIsLatest
  <1>1. Init => BufferIsLatest
    <2> SUFFICES ASSUME Init, NEW k \in Keys
                 PROVE  /\ Len(buffer[k]) <= EventCap
                        /\ lastSeq[k] > 0 => buffer[k] # << >>
                        /\ \A i \in 1 .. Len(buffer[k]) :
                               buffer[k][i].seq + Len(buffer[k]) = lastSeq[k] + i
      BY DEF BufferIsLatest
    <2>1. buffer[k] = << >> /\ lastSeq[k] = 0
      BY DEF Init
    <2>2. QED
      BY <2>1, CapsArePositive
  <1>2. QED
    BY <1>1, BufferStep, TypeCorrect, PTL DEF Spec
-----------------------------------------------------------------------------
(* The order of a subscriber's channel.  The send happens outside the mutex, *)
(* so the argument relates three things: what a channel holds, the event its *)
(* goroutine is about to offer, and the counter of the session -- and the    *)
(* counter binds only the channels that are still subscribed, because        *)
(* DropSession resets it and unsubscribes them in one step.                  *)

SubscribersOfTheKey == \A k \in Keys : \A c \in subs[k] : chanKey[c] = k

TargetsOfTheKey == \A r \in Runs : \A c \in todo[r] : chanKey[c] = runKey[r]

FreshIsEmpty == \A c \in Chans : chanKey[c] = NoKey => chan[c] = << >>

(* Every event in the channel has a number of at most (below) n. *)
UpTo(c, n)  == \A i \in 1 .. Len(chan[c]) : chan[c][i].seq <= n
Below(c, n) == \A i \in 1 .. Len(chan[c]) : chan[c][i].seq < n

HeldUpToCounter == \A k \in Keys : \A c \in subs[k] : UpTo(c, lastSeq[k])

HeldBelowOffer == \A r \in Runs : \A c \in todo[r] : Below(c, event[r].seq)

OfferUpToCounter ==
    \A r \in Runs, k \in Keys : \A c \in todo[r] :
        c \in subs[k] => event[r].seq <= lastSeq[k]

ChannelInv ==
    /\ SubscribersOfTheKey
    /\ TargetsOfTheKey
    /\ FreshIsEmpty
    /\ HeldUpToCounter
    /\ HeldBelowOffer
    /\ OfferUpToCounter
    /\ ChannelAscends

(* Two goroutines never have the same channel to serve. *)
LEMMA OneOfferer ==
    ASSUME TypeOK, Placed, WriterInv, TargetsOfTheKey,
           NEW r \in Runs, NEW q \in Runs, NEW c, c \in todo[r], c \in todo[q]
    PROVE  r = q
  <1>1. chanKey[c] = runKey[r] /\ chanKey[c] = runKey[q]
    BY DEF TargetsOfTheKey
  <1>2. Registered(r) /\ Registered(q)
    BY DEF WriterInv, Fanning
  <1>3. runKey[r] \in Keys
    BY <1>2 DEF TypeOK, Placed, Registered
  <1>4. active[runKey[r]] = r /\ active[runKey[r]] = q
    BY <1>1, <1>2, <1>3 DEF WriterInv, RegistryNamesTheWriter
  <1>5. QED
    BY <1>4

(* An ascending channel stays so when a greater number is appended.        *)
LEMMA AppendAscends ==
    ASSUME NEW s \in Seq(Event), NEW e \in Event,
           \A i \in 1 .. Len(s) : s[i].seq < e.seq,
           \A i, j \in 1 .. Len(s) : i < j => s[i].seq < s[j].seq
    PROVE  /\ \A i, j \in 1 .. Len(Append(s, e)) :
                  i < j => Append(s, e)[i].seq < Append(s, e)[j].seq
           /\ \A i \in 1 .. Len(Append(s, e)) : Append(s, e)[i].seq <= e.seq
  <1> DEFINE app == Append(s, e)
  <1>1. Len(app) = Len(s) + 1 /\ Len(s) \in Nat
    BY AppendProperties
  <1>2. app[Len(app)] = e /\ \A i \in 1 .. Len(s) : app[i] = s[i]
    BY <1>1, AppendProperties
  <1>3. e.seq \in Nat /\ \A i \in 1 .. Len(s) : s[i].seq \in Nat
    <2>1. \A i \in 1 .. Len(s) : s[i] \in Event
      OBVIOUS
    <2>2. QED
      BY <2>1 DEF Event
  <1> SUFFICES /\ \A i, j \in 1 .. Len(app) : i < j => app[i].seq < app[j].seq
               /\ \A i \in 1 .. Len(app) : app[i].seq <= e.seq
    OBVIOUS
  <1> HIDE DEF app
  <1>4. ASSUME NEW i \in 1 .. Len(app), NEW j \in 1 .. Len(app), i < j
        PROVE  app[i].seq < app[j].seq
    <2>1. i \in 1 .. Len(s)
      BY <1>1, <1>4
    <2>2. CASE j = Len(app)
      BY <1>2, <2>1, <2>2
    <2>3. CASE j # Len(app)
      <3>1. j \in 1 .. Len(s)
        BY <1>1, <2>3
      <3>2. QED
        BY <1>2, <1>4, <2>1, <3>1
    <2>4. QED
      BY <2>2, <2>3
  <1>5. ASSUME NEW i \in 1 .. Len(app) PROVE app[i].seq <= e.seq
    <2>1. CASE i = Len(app)
      BY <1>2, <1>3, <2>1
    <2>2. CASE i # Len(app)
      <3>1. i \in 1 .. Len(s)
        BY <1>1, <2>2
      <3>2. QED
        BY <1>2, <1>3, <3>1
    <2>3. QED
      BY <2>1, <2>2
  <1>6. QED
    BY <1>4, <1>5

(* The numbers the argument compares are numbers. *)
LEMMA SeqsAreNat ==
    ASSUME TypeOK
    PROVE  /\ \A r \in Runs : event[r].seq \in Nat
           /\ \A k \in Keys : lastSeq[k] \in Nat
           /\ \A c \in Chans : \A i \in 1 .. Len(chan[c]) : chan[c][i].seq \in Nat
  <1>1. \A r \in Runs : event[r] \in Event
    BY DEF TypeOK
  <1>2. \A c \in Chans : \A i \in 1 .. Len(chan[c]) : chan[c][i] \in Event
    BY DEF TypeOK
  <1>3. QED
    BY <1>1, <1>2 DEF Event, TypeOK

(* Every step keeps channels ascending and below what is still to be       *)
(* offered to them.                                                        *)
LEMMA ChannelStep ==
    TypeOK /\ Placed /\ WriterInv /\ ChannelInv /\ [Next]_vars => ChannelInv'
  <1> SUFFICES ASSUME TypeOK, Placed, WriterInv, ChannelInv, [Next]_vars
               PROVE  ChannelInv'
    OBVIOUS
  <1>0. /\ SubscribersOfTheKey /\ TargetsOfTheKey /\ FreshIsEmpty
        /\ HeldUpToCounter /\ HeldBelowOffer /\ OfferUpToCounter /\ ChannelAscends
    BY DEF ChannelInv
  <1>00. /\ \A r \in Runs : todo[r] \in SUBSET Chans
         /\ \A k \in Keys : subs[k] \in SUBSET Chans
    BY DEF TypeOK
  (* Every step that at most removes subscribers, keeping the counter of     *)
  (* those that stay.                                                        *)
  <1>1. ASSUME UNCHANGED <<chan, chanKey, runKey, event, todo>>,
               \A k \in Keys : /\ subs'[k] \subseteq subs[k]
                               /\ subs'[k] # {} => lastSeq'[k] = lastSeq[k]
        PROVE  ChannelInv'
    <2>1. \A k \in Keys : \A c \in subs'[k] : c \in subs[k] /\ lastSeq'[k] = lastSeq[k]
      <3> TAKE k \in Keys
      <3>1. subs'[k] \subseteq subs[k] /\ (subs'[k] # {} => lastSeq'[k] = lastSeq[k])
        BY <1>1
      <3>2. QED
        BY <3>1
    <2>2. UNCHANGED <<chan, chanKey, runKey, event, todo>>
      BY <1>1
    <2>3. SubscribersOfTheKey'
      BY <1>0, <2>1, <2>2 DEF SubscribersOfTheKey
    <2>4. TargetsOfTheKey' /\ FreshIsEmpty'
      BY <1>0, <2>2 DEF TargetsOfTheKey, FreshIsEmpty
    <2>5. HeldBelowOffer' /\ ChannelAscends'
      BY <1>0, <2>2 DEF HeldBelowOffer, Below, ChannelAscends
    <2>6. HeldUpToCounter'
      BY <1>0, <2>1, <2>2 DEF HeldUpToCounter, UpTo
    <2>7. OfferUpToCounter'
      BY <1>0, <2>1, <2>2 DEF OfferUpToCounter
    <2>8. QED
      BY <2>3, <2>4, <2>5, <2>6, <2>7 DEF ChannelInv
  <1>2. ASSUME NEW r \in Runs, NEW k \in Keys, Start(r, k) PROVE ChannelInv'
    <2>1. todo[r] = {}
      BY <1>2 DEF Start, WriterInv, Fanning, Registered
    <2>2. UNCHANGED <<subs, lastSeq, chan, chanKey, event, todo>>
      BY <1>2 DEF Start, chanVars
    <2>3. \A q \in Runs : q # r => runKey'[q] = runKey[q]
      BY <1>2 DEF Start, TypeOK
    <2>4. TargetsOfTheKey'
      BY <1>0, <2>1, <2>2, <2>3 DEF TargetsOfTheKey
    <2>5. QED
      BY <1>0, <2>2, <2>4 DEF ChannelInv, SubscribersOfTheKey, FreshIsEmpty,
         UpTo, Below, HeldUpToCounter, HeldBelowOffer, OfferUpToCounter, ChannelAscends
  <1>3. ASSUME NEW r \in Runs, pc[r] # "unborn", Publish(r) PROVE ChannelInv'
    <2> DEFINE k == runKey[r]
    <2>1. /\ k \in Keys
          /\ lastSeq' = [lastSeq EXCEPT ![k] = @ + 1]
          /\ todo'    = [todo EXCEPT ![r] = subs[k]]
      BY <1>3, PublishFacts
    <2>2. UNCHANGED <<subs, chan, chanKey, runKey>>
      BY <1>3 DEF Publish, chanVars
    <2>3. /\ event'[r].seq = lastSeq[k] + 1
          /\ \A q \in Runs : q # r => event'[q] = event[q]
      BY <1>3 DEF Publish, TypeOK
    <2> HIDE DEF k
    <2>4. \A q \in Keys : lastSeq[q] \in Nat /\ lastSeq'[q] \in Nat /\ lastSeq[q] <= lastSeq'[q]
      BY <2>1 DEF TypeOK
    <2>5. lastSeq'[k] = lastSeq[k] + 1
      BY <2>1 DEF TypeOK
    <2>6. /\ todo'[r] = subs[k]
          /\ \A q \in Runs : q # r => todo'[q] = todo[q]
      BY <2>1 DEF TypeOK
    <2>7. TargetsOfTheKey'
      BY <1>0, <2>1, <2>2, <2>6 DEF TargetsOfTheKey, SubscribersOfTheKey, k
    <2>8. HeldUpToCounter'
      <3> SUFFICES ASSUME NEW q \in Keys, NEW c \in subs[q], NEW i \in 1 .. Len(chan[c])
                   PROVE  chan[c][i].seq <= lastSeq'[q]
        BY <2>2 DEF HeldUpToCounter, UpTo
      <3>1. chan[c][i].seq <= lastSeq[q] /\ chan[c][i].seq \in Nat
        BY <1>0, <1>00, SeqsAreNat DEF HeldUpToCounter, UpTo
      <3>2. QED
        BY <2>4, <3>1
    <2>9. HeldBelowOffer'
      <3> SUFFICES ASSUME NEW q \in Runs, NEW c \in todo'[q], NEW i \in 1 .. Len(chan[c])
                   PROVE  chan[c][i].seq < event'[q].seq
        BY <2>2 DEF HeldBelowOffer, Below
      <3>1. CASE q = r
        <4>1. c \in subs[k] /\ c \in Chans
          BY <1>00, <2>1, <2>6, <3>1
        <4>2. chan[c][i].seq <= lastSeq[k] /\ chan[c][i].seq \in Nat
          BY <1>0, <2>1, <4>1, SeqsAreNat DEF HeldUpToCounter, UpTo
        <4>3. QED
          BY <2>1, <2>3, <2>4, <3>1, <4>2
      <3>2. CASE q # r
        BY <1>0, <2>3, <2>6, <3>2 DEF HeldBelowOffer, Below
      <3>3. QED
        BY <3>1, <3>2
    <2>10. OfferUpToCounter'
      <3> SUFFICES ASSUME NEW q \in Runs, NEW p \in Keys, NEW c \in todo'[q], c \in subs[p]
                   PROVE  event'[q].seq <= lastSeq'[p]
        BY <2>2 DEF OfferUpToCounter
      <3>1. CASE q = r
        <4>1. p = k
          BY <1>0, <2>1, <2>6, <3>1 DEF SubscribersOfTheKey
        <4>2. QED
          BY <2>1, <2>3, <2>4, <2>5, <3>1, <4>1
      <3>2. CASE q # r
        <4>1. event[q].seq <= lastSeq[p] /\ event[q].seq \in Nat
          BY <1>0, <2>6, <3>2, SeqsAreNat DEF OfferUpToCounter
        <4>2. QED
          BY <2>3, <2>4, <3>2, <4>1
      <3>3. QED
        BY <3>1, <3>2
    <2>11. SubscribersOfTheKey' /\ FreshIsEmpty' /\ ChannelAscends'
      BY <1>0, <2>2 DEF SubscribersOfTheKey, FreshIsEmpty, ChannelAscends
    <2>12. QED
      BY <2>7, <2>8, <2>9, <2>10, <2>11 DEF ChannelInv
  <1>4. ASSUME NEW r \in Runs, NEW c \in Chans, Offer(r, c) PROVE ChannelInv'
    <2>1. /\ c \in todo[r]
          /\ todo' = [todo EXCEPT ![r] = @ \ {c}]
          /\ UNCHANGED <<subs, lastSeq, chanKey, runKey, event>>
      BY <1>4 DEF Offer, regVars
    <2>2. \A q \in Runs : todo'[q] \subseteq todo[q]
      BY <2>1 DEF TypeOK
    <2>3. \A d \in Chans : d # c => chan'[d] = chan[d]
      BY <1>4 DEF Offer, TypeOK
    <2>4. \A q \in Runs : c \notin todo'[q]
      BY <1>0, <2>1, <2>2, OneOfferer DEF TypeOK
    <2>5. runKey[r] \in Keys /\ chanKey[c] = runKey[r] /\ chanKey[c] # NoKey
      <3>1. Registered(r)
        BY <2>1 DEF WriterInv, Fanning
      <3>2. QED
        BY <1>0, <2>1, <3>1, NoKeyIsNoKey
           DEF TypeOK, Placed, Registered, TargetsOfTheKey
    <2>6. CASE Len(chan[c]) < ChanCap
      <3> DEFINE s == chan[c]
                 e == event[r]
      <3>1. s \in Seq(Event) /\ e \in Event
        BY DEF TypeOK
      <3>2. \A i \in 1 .. Len(s) : s[i].seq < e.seq
        BY <1>0, <2>1 DEF HeldBelowOffer, Below
      <3>3. \A i, j \in 1 .. Len(s) : i < j => s[i].seq < s[j].seq
        BY <1>0 DEF ChannelAscends
      <3>4. chan'[c] = Append(s, e)
        BY <1>4, <2>6 DEF Offer, TypeOK
      <3>5. \A k \in Keys : c \in subs[k] => e.seq <= lastSeq[k]
        BY <1>0, <2>1 DEF OfferUpToCounter
      <3>6. Len(s) < ChanCap
        BY <2>6
      <3> HIDE DEF s, e
      <3>7. /\ \A i, j \in 1 .. Len(Append(s, e)) :
                   i < j => Append(s, e)[i].seq < Append(s, e)[j].seq
            /\ \A i \in 1 .. Len(Append(s, e)) : Append(s, e)[i].seq <= e.seq
        BY <3>1, <3>2, <3>3, AppendAscends
      <3>8. Append(s, e) \in Seq(Event) /\ Len(Append(s, e)) <= ChanCap
        BY <3>1, <3>6, AppendProperties, CapsArePositive
      <3>9. \A i \in 1 .. Len(Append(s, e)) : Append(s, e)[i].seq \in Nat
        <4>1. \A i \in 1 .. Len(Append(s, e)) : Append(s, e)[i] \in Event
          BY <3>8
        <4>2. QED
          BY <4>1 DEF Event
      <3>10. ChannelAscends'
        BY <1>0, <2>3, <3>4, <3>7, <3>8 DEF ChannelAscends
      <3>11. HeldUpToCounter'
        <4> SUFFICES ASSUME NEW k \in Keys, NEW d \in subs[k],
                            NEW i \in 1 .. Len(chan'[d])
                     PROVE  chan'[d][i].seq <= lastSeq[k]
          BY <2>1 DEF HeldUpToCounter, UpTo
        <4>1. CASE d = c
          <5>1. e.seq <= lastSeq[k] /\ e.seq \in Nat /\ lastSeq[k] \in Nat
            BY <3>1, <3>5, <4>1, SeqsAreNat DEF Event
          <5>2. chan'[d][i].seq <= e.seq /\ chan'[d][i].seq \in Nat
            BY <3>4, <3>7, <3>9, <4>1
          <5>3. QED
            BY <5>1, <5>2
        <4>2. CASE d # c
          BY <1>0, <1>00, <2>3, <4>2 DEF HeldUpToCounter, UpTo
        <4>3. QED
          BY <4>1, <4>2
      <3>12. HeldBelowOffer'
        BY <1>0, <1>00, <2>1, <2>2, <2>3, <2>4 DEF HeldBelowOffer, Below
      <3>13. SubscribersOfTheKey' /\ TargetsOfTheKey' /\ OfferUpToCounter'
        BY <1>0, <2>1, <2>2 DEF SubscribersOfTheKey, TargetsOfTheKey, OfferUpToCounter
      <3>14. FreshIsEmpty'
        BY <1>0, <2>1, <2>3, <2>5 DEF FreshIsEmpty
      <3>15. QED
        BY <3>10, <3>11, <3>12, <3>13, <3>14 DEF ChannelInv
    <2>7. CASE ~ (Len(chan[c]) < ChanCap)
      <3>1. chan' = chan
        BY <1>4, <2>7 DEF Offer
      <3>2. QED
        BY <1>0, <2>1, <2>2, <3>1 DEF ChannelInv, SubscribersOfTheKey, TargetsOfTheKey,
           FreshIsEmpty, UpTo, Below, HeldUpToCounter, HeldBelowOffer,
           OfferUpToCounter, ChannelAscends
    <2>8. QED
      BY <2>6, <2>7
  <1>5. ASSUME NEW c \in Chans, NEW k \in Keys, Subscribe(c, k) PROVE ChannelInv'
    <2>1. /\ chanKey[c] = NoKey
          /\ chanKey' = [chanKey EXCEPT ![c] = k]
          /\ subs' = [subs EXCEPT ![k] = @ \cup {c}]
          /\ UNCHANGED <<lastSeq, chan, runKey, event, todo>>
      BY <1>5 DEF Subscribe, runVars
    <2>2. \A r \in Runs : c \notin todo[r]
      <3> SUFFICES ASSUME NEW r \in Runs, c \in todo[r] PROVE FALSE
        OBVIOUS
      <3>1. Registered(r) /\ runKey[r] = NoKey
        BY <1>0, <2>1 DEF WriterInv, Fanning, TargetsOfTheKey
      <3>2. QED
        BY <3>1 DEF Placed, Registered
    <2>3. Len(chan[c]) = 0
      BY <1>0, <2>1 DEF FreshIsEmpty
    <2>4. \A q \in Keys : c \notin subs[q]
      BY <1>0, <2>1, NoKeyIsNoKey DEF SubscribersOfTheKey
    <2>5. /\ chanKey'[c] = k
          /\ \A d \in Chans : d # c => chanKey'[d] = chanKey[d]
          /\ subs'[k] = subs[k] \cup {c}
          /\ \A q \in Keys : q # k => subs'[q] = subs[q]
      BY <2>1 DEF TypeOK
    <2>6. SubscribersOfTheKey'
      BY <1>0, <1>00, <2>4, <2>5 DEF SubscribersOfTheKey
    <2>7. TargetsOfTheKey'
      BY <1>0, <1>00, <2>1, <2>2, <2>5 DEF TargetsOfTheKey
    <2>8. FreshIsEmpty'
      BY <1>0, <2>1, <2>5, NoKeyIsNoKey DEF FreshIsEmpty
    <2>9. HeldUpToCounter'
      BY <1>0, <2>1, <2>3, <2>5 DEF HeldUpToCounter, UpTo
    <2>10. HeldBelowOffer' /\ ChannelAscends'
      BY <1>0, <2>1 DEF HeldBelowOffer, Below, ChannelAscends
    <2>11. OfferUpToCounter'
      BY <1>0, <2>1, <2>2, <2>5 DEF OfferUpToCounter
    <2>12. QED
      BY <2>6, <2>7, <2>8, <2>9, <2>10, <2>11 DEF ChannelInv
  <1>6. ASSUME NEW c \in Chans, Receive(c) PROVE ChannelInv'
    <2> DEFINE s == chan[c]
    <2>1. /\ chan[c] # << >> /\ chan[c] \in Seq(Event)
          /\ UNCHANGED <<subs, lastSeq, chanKey, runKey, event, todo>>
      BY <1>6 DEF Receive, regVars, runVars, TypeOK
    <2>2. /\ chan'[c] = Tail(chan[c])
          /\ \A d \in Chans : d # c => chan'[d] = chan[d]
      BY <1>6 DEF Receive, TypeOK
    <2>3. /\ Len(chan'[c]) = Len(chan[c]) - 1 /\ Len(chan[c]) \in Nat
          /\ \A i \in 1 .. Len(chan'[c]) : chan'[c][i] = chan[c][i + 1]
      <3>1. s \in Seq(Event) /\ s # << >> /\ chan'[c] = Tail(s)
        BY <2>1, <2>2
      <3> HIDE DEF s
      <3>2. /\ Len(Tail(s)) = Len(s) - 1 /\ Len(s) \in Nat
            /\ \A i \in 1 .. Len(Tail(s)) : Tail(s)[i] = s[i + 1]
        BY <3>1, HeadTailProperties
      <3>3. QED
        BY <3>1, <3>2 DEF s
    <2>4. \A d \in Chans : \A i \in 1 .. Len(chan'[d]) :
             \E j \in 1 .. Len(chan[d]) : chan'[d][i] = chan[d][j]
      <3> SUFFICES ASSUME NEW d \in Chans, NEW i \in 1 .. Len(chan'[d])
                   PROVE  \E j \in 1 .. Len(chan[d]) : chan'[d][i] = chan[d][j]
        OBVIOUS
      <3>1. CASE d = c
        <4>1. i + 1 \in 1 .. Len(chan[c])
          BY <2>3, <3>1
        <4>2. QED
          BY <2>3, <3>1, <4>1
      <3>2. CASE d # c
        BY <2>2, <3>2
      <3>3. QED
        BY <3>1, <3>2
    <2>5. HeldUpToCounter'
      BY <1>0, <1>00, <2>1, <2>4 DEF HeldUpToCounter, UpTo
    <2>6. HeldBelowOffer'
      BY <1>0, <1>00, <2>1, <2>4 DEF HeldBelowOffer, Below
    <2>7. ChannelAscends'
      <3>1. Len(chan'[c]) <= ChanCap
        BY <1>0, <2>3, CapsArePositive DEF ChannelAscends
      <3>2. ASSUME NEW i \in 1 .. Len(chan'[c]), NEW j \in 1 .. Len(chan'[c]), i < j
            PROVE  chan'[c][i].seq < chan'[c][j].seq
        <4>1. i + 1 \in 1 .. Len(chan[c]) /\ j + 1 \in 1 .. Len(chan[c]) /\ i + 1 < j + 1
          BY <2>3, <3>2
        <4>2. chan[c][i + 1].seq < chan[c][j + 1].seq
          BY <1>0, <4>1 DEF ChannelAscends
        <4>3. QED
          BY <2>3, <4>2
      <3>3. QED
        BY <1>0, <2>2, <3>1, <3>2 DEF ChannelAscends
    <2>8. FreshIsEmpty'
      BY <1>0, <2>1, <2>2 DEF FreshIsEmpty
    <2>9. SubscribersOfTheKey' /\ TargetsOfTheKey' /\ OfferUpToCounter'
      BY <1>0, <2>1 DEF SubscribersOfTheKey, TargetsOfTheKey, OfferUpToCounter
    <2>10. QED
      BY <2>5, <2>6, <2>7, <2>8, <2>9 DEF ChannelInv
  <1>7. ASSUME NEW c \in Chans, Unsubscribe(c) PROVE ChannelInv'
    BY <1>1, <1>7 DEF Unsubscribe, chanVars, runVars, TypeOK
  <1>8. ASSUME NEW gone, Forget(gone), UNCHANGED <<chan, chanKey, runKey, event, todo>>
        PROVE  ChannelInv'
    BY <1>1, <1>8 DEF Forget
  <1>9. ASSUME UNCHANGED <<subs, lastSeq, chan, chanKey, runKey, event, todo>>
        PROVE  ChannelInv'
    BY <1>1, <1>9
  <1>10. ASSUME NEW r \in Runs, RunStep(r) PROVE ChannelInv'
    BY <1>3, <1>4, <1>9, <1>10 DEF RunStep, Emit, Recover, Return, Panic,
       Unregister, CloseDone, regVars, chanVars
  <1>11. ASSUME NEW k \in Keys, Cancel(k) \/ DropSession(k) PROVE ChannelInv'
    BY <1>8, <1>9, <1>11 DEF Cancel, CancelRuns, DropSession, regVars, chanVars, runVars
  <1>12. ASSUME NEW t \in Tenants,
                DropTenant(t) \/ \E u \in Users : CancelTenantUser(t, u)
         PROVE  ChannelInv'
    BY <1>8, <1>9, <1>12 DEF DropTenant, CancelTenantUser, CancelRuns, regVars, chanVars
  <1>13. ASSUME NEW u \in Users, CancelUser(u) PROVE ChannelInv'
    BY <1>9, <1>13 DEF CancelUser, CancelRuns, regVars, chanVars
  <1>14. CASE UNCHANGED vars
    BY <1>9, <1>14 DEF vars, regVars, chanVars, runVars
  <1>15. QED
    BY <1>2, <1>5, <1>6, <1>7, <1>10, <1>11, <1>12, <1>13, <1>14 DEF Next

(* The inductive form of ChannelAscends.                                   *)
LEMMA ChannelInvariant == Spec => []ChannelInv
  <1>1. Init => ChannelInv
    <2> SUFFICES ASSUME Init PROVE ChannelInv
      OBVIOUS
    <2>1. /\ \A c \in Chans : chan[c] = << >>
          /\ \A k \in Keys : subs[k] = {}
          /\ \A r \in Runs : todo[r] = {}
      BY DEF Init
    <2>2. \A c \in Chans : Len(chan[c]) = 0
      BY <2>1
    <2>3. QED
      BY <2>1, <2>2, CapsArePositive
         DEF ChannelInv, SubscribersOfTheKey, TargetsOfTheKey, FreshIsEmpty, UpTo, Below,
             HeldUpToCounter, HeldBelowOffer, OfferUpToCounter, ChannelAscends
  <1>2. QED
    BY <1>1, ChannelStep, TypeCorrect, WriterInvariant, PTL DEF Spec

(* A subscriber reads its session's events in the order of their numbers,   *)
(* each at most once, whatever is cancelled, dropped or unsubscribed while  *)
(* an event is between the mutex and the channel.                           *)
THEOREM ChannelsAscend == Spec => []ChannelAscends
  <1>1. ChannelInv => ChannelAscends
    BY DEF ChannelInv
  <1>2. QED
    BY <1>1, ChannelInvariant, PTL

-----------------------------------------------------------------------------
(* Sessions stay apart. *)

(* Trimming invents no event: each one kept was there or is the new one.   *)
LEMMA TrimElements ==
    ASSUME NEW buf \in Seq(Event), NEW e \in Event
    PROVE  LET new == Trim(Append(buf, e))
           IN  \A i \in 1 .. Len(new) :
                   new[i] = e \/ \E j \in 1 .. Len(buf) : new[i] = buf[j]
  <1> DEFINE new == Trim(Append(buf, e))
  <1>1. /\ Len(new) \in 1 .. EventCap /\ Len(new) <= Len(buf) + 1
        /\ new[Len(new)] = e
        /\ \A i \in 1 .. Len(new) - 1 : new[i] = buf[i + (Len(buf) + 1 - Len(new))]
    BY TrimAppend, Zenon
  <1>2. Len(buf) \in Nat /\ EventCap \in Nat
    BY CapsArePositive
  <1> SUFFICES \A i \in 1 .. Len(new) :
                   new[i] = e \/ \E j \in 1 .. Len(buf) : new[i] = buf[j]
    OBVIOUS
  <1> HIDE DEF new
  <1>3. ASSUME NEW i \in 1 .. Len(new), i # Len(new)
        PROVE  \E j \in 1 .. Len(buf) : new[i] = buf[j]
    <2>1. i \in 1 .. Len(new) - 1 /\ i + (Len(buf) + 1 - Len(new)) \in 1 .. Len(buf)
      BY <1>1, <1>2, <1>3
    <2>2. QED
      BY <1>1, <2>1
  <1>4. QED
    BY <1>1, <1>3

OwnEvents == \A r \in Runs : event[r].run = r

ApartInv == OwnEvents /\ SessionsStayApart

(* Every step keeps events in the session whose Run emitted them.          *)
LEMMA ApartStep ==
    TypeOK /\ Placed /\ WriterInv /\ ChannelInv /\ ApartInv /\ [Next]_vars => ApartInv'
  <1> SUFFICES ASSUME TypeOK, Placed, WriterInv, ChannelInv, ApartInv, [Next]_vars
               PROVE  ApartInv'
    OBVIOUS
  <1>0. /\ TargetsOfTheKey /\ FreshIsEmpty /\ OwnEvents
        /\ \A k \in Keys : \A i \in 1 .. Len(buffer[k]) : runKey[buffer[k][i].run] = k
        /\ \A c \in Chans : \A i \in 1 .. Len(chan[c]) : runKey[chan[c][i].run] = chanKey[c]
    BY DEF ChannelInv, ApartInv, SessionsStayApart
  <1>1. ASSUME UNCHANGED <<chan, chanKey, runKey, event>>,
               \A k \in Keys : buffer'[k] = buffer[k] \/ buffer'[k] = << >>
        PROVE  ApartInv'
    <2>1. \A k \in Keys : \A i \in 1 .. Len(buffer'[k]) : runKey[buffer'[k][i].run] = k
      <3> TAKE k \in Keys
      <3>1. CASE buffer'[k] = buffer[k]
        BY <1>0, <3>1
      <3>2. CASE buffer'[k] = << >>
        BY <3>2
      <3>3. QED
        BY <1>1, <3>1, <3>2
    <2>2. QED
      BY <1>0, <1>1, <2>1 DEF ApartInv, OwnEvents, SessionsStayApart
  <1>2. ASSUME NEW r \in Runs, NEW k \in Keys, Start(r, k) PROVE ApartInv'
    <2>1. /\ runKey[r] = NoKey
          /\ \A q \in Runs : q # r => runKey'[q] = runKey[q]
          /\ UNCHANGED <<buffer, chan, chanKey, event>>
      BY <1>2 DEF Start, Placed, TypeOK, chanVars
    <2>2. \A q \in Keys : \A i \in 1 .. Len(buffer[q]) :
             buffer[q][i].run \in Runs /\ buffer[q][i].run # r
      <3> TAKE q \in Keys
      <3> TAKE i \in 1 .. Len(buffer[q])
      <3>1. buffer[q][i] \in Event
        BY DEF TypeOK
      <3>2. QED
        BY <1>0, <2>1, <3>1, NoKeyIsNoKey DEF Event
    <2>3. \A c \in Chans : \A i \in 1 .. Len(chan[c]) :
             chan[c][i].run \in Runs /\ chan[c][i].run # r
      <3> TAKE c \in Chans
      <3> TAKE i \in 1 .. Len(chan[c])
      <3>1. chan[c][i] \in Event
        BY DEF TypeOK
      <3>2. chanKey[c] # NoKey
        BY <1>0 DEF FreshIsEmpty
      <3>3. QED
        BY <1>0, <2>1, <3>1, <3>2 DEF Event
    <2>4. QED
      BY <1>0, <2>1, <2>2, <2>3 DEF ApartInv, OwnEvents, SessionsStayApart
  <1>3. ASSUME NEW r \in Runs, pc[r] # "unborn", Publish(r) PROVE ApartInv'
    <2> DEFINE k   == runKey[r]
               be  == [seq |-> lastSeq[k] + 1, run |-> r, n |-> event[r].n + 1]
               buf == buffer[k]
               new == Trim(Append(buf, be))
    <2>1. /\ k \in Keys /\ be \in Event /\ new \in Seq(Event)
          /\ buffer' = [buffer EXCEPT ![k] = new]
          /\ event'  = [event EXCEPT ![r] = be]
      BY <1>3, PublishFacts
    <2>2. UNCHANGED <<chan, chanKey, runKey>> /\ be.run = r
      BY <1>3 DEF Publish, chanVars
    <2>3. \A i \in 1 .. Len(buf) : runKey[buf[i].run] = k
      BY <1>0, <2>1
    <2> HIDE DEF be
    <2>4. buf \in Seq(Event)
      BY <2>1 DEF TypeOK
    <2> HIDE DEF buf
    <2>5. \A i \in 1 .. Len(new) : new[i] = be \/ \E j \in 1 .. Len(buf) : new[i] = buf[j]
      BY <2>1, <2>4, TrimElements, Zenon
    <2> HIDE DEF new
    <2>6. \A i \in 1 .. Len(new) : runKey[new[i].run] = k
      BY <2>2, <2>3, <2>5
    <2> HIDE DEF k
    <2>7. \A q \in Keys : buffer'[q] = IF q = k THEN new ELSE buffer[q]
      BY <2>1 DEF TypeOK
    <2>8. \A q \in Runs : event'[q] = IF q = r THEN be ELSE event[q]
      BY <2>1 DEF TypeOK
    <2>9. OwnEvents'
      BY <1>0, <2>2, <2>8 DEF OwnEvents
    <2>10. \A q \in Keys : \A i \in 1 .. Len(buffer'[q]) : runKey[buffer'[q][i].run] = q
      BY <1>0, <2>6, <2>7
    <2>11. QED
      BY <1>0, <2>2, <2>9, <2>10 DEF ApartInv, SessionsStayApart
  <1>4. ASSUME NEW r \in Runs, NEW c \in Chans, Offer(r, c) PROVE ApartInv'
    <2>1. c \in todo[r] /\ UNCHANGED <<buffer, chanKey, runKey, event>>
      BY <1>4 DEF Offer, regVars
    <2>2. chan[c] \in Seq(Event) /\ event[r] \in Event
      BY DEF TypeOK
    <2>3. /\ chan'[c] = chan[c] \/ chan'[c] = Append(chan[c], event[r])
          /\ \A d \in Chans : d # c => chan'[d] = chan[d]
      BY <1>4 DEF Offer, TypeOK
    <2>4. runKey[event[r].run] = chanKey[c]
      BY <1>0, <2>1 DEF OwnEvents, TargetsOfTheKey
    <2>5. \A i \in 1 .. Len(chan'[c]) : runKey[chan'[c][i].run] = chanKey[c]
      <3>1. CASE chan'[c] = chan[c]
        BY <1>0, <3>1
      <3>2. CASE chan'[c] = Append(chan[c], event[r])
        <4> TAKE i \in 1 .. Len(chan'[c])
        <4>1. Len(chan'[c]) = Len(chan[c]) + 1 /\ Len(chan[c]) \in Nat
          BY <2>2, <3>2
        <4>2. CASE i = Len(chan[c]) + 1
          BY <2>2, <2>4, <3>2, <4>1, <4>2
        <4>3. CASE i # Len(chan[c]) + 1
          <5>1. i \in 1 .. Len(chan[c]) /\ chan'[c][i] = chan[c][i]
            BY <2>2, <3>2, <4>1, <4>3
          <5>2. QED
            BY <1>0, <5>1
        <4>4. QED
          BY <4>2, <4>3
      <3>3. QED
        BY <2>3, <3>1, <3>2
    <2>6. \A d \in Chans : \A i \in 1 .. Len(chan'[d]) : runKey[chan'[d][i].run] = chanKey[d]
      BY <1>0, <2>3, <2>5
    <2>7. SessionsStayApart'
      BY <1>0, <2>1, <2>6 DEF SessionsStayApart
    <2>8. QED
      BY <1>0, <2>1, <2>7 DEF ApartInv, OwnEvents
  <1>5. ASSUME NEW c \in Chans, NEW k \in Keys, Subscribe(c, k) PROVE ApartInv'
    <2>1. /\ UNCHANGED <<buffer, chan, runKey, event>> /\ chanKey[c] = NoKey
          /\ \A d \in Chans : d # c => chanKey'[d] = chanKey[d]
      BY <1>5 DEF Subscribe, runVars, TypeOK
    <2>2. Len(chan[c]) = 0
      BY <1>0, <2>1 DEF FreshIsEmpty
    <2>3. \A d \in Chans : \A i \in 1 .. Len(chan[d]) : runKey[chan[d][i].run] = chanKey'[d]
      BY <1>0, <2>1, <2>2
    <2>4. SessionsStayApart'
      BY <1>0, <2>1, <2>3 DEF SessionsStayApart
    <2>5. QED
      BY <1>0, <2>1, <2>4 DEF ApartInv, OwnEvents
  <1>6. ASSUME NEW c \in Chans, Receive(c) PROVE ApartInv'
    <2>1. /\ chan[c] # << >> /\ chan[c] \in Seq(Event)
          /\ UNCHANGED <<buffer, chanKey, runKey, event>>
          /\ chan'[c] = Tail(chan[c])
          /\ \A d \in Chans : d # c => chan'[d] = chan[d]
      BY <1>6 DEF Receive, regVars, runVars, TypeOK
    <2>2. \A i \in 1 .. Len(chan'[c]) : runKey[chan'[c][i].run] = chanKey[c]
      <3> TAKE i \in 1 .. Len(chan'[c])
      <3>1. i + 1 \in 1 .. Len(chan[c]) /\ chan'[c][i] = chan[c][i + 1]
        BY <2>1
      <3>2. QED
        BY <1>0, <3>1
    <2>3. \A d \in Chans : \A i \in 1 .. Len(chan'[d]) : runKey[chan'[d][i].run] = chanKey[d]
      <3> TAKE d \in Chans
      <3>1. CASE d = c
        BY <2>2, <3>1
      <3>2. CASE d # c
        <4>1. chan'[d] = chan[d]
          BY <2>1, <3>2
        <4>2. QED
          BY <1>0, <4>1
      <3>3. QED
        BY <3>1, <3>2
    <2>4. SessionsStayApart'
      BY <1>0, <2>1, <2>3 DEF SessionsStayApart
    <2>5. QED
      BY <1>0, <2>1, <2>4 DEF ApartInv, OwnEvents
  <1>7. ASSUME NEW gone, Forget(gone), UNCHANGED <<chan, chanKey, runKey, event>>
        PROVE  ApartInv'
    BY <1>1, <1>7 DEF Forget
  <1>8. ASSUME UNCHANGED <<buffer, chan, chanKey, runKey, event>> PROVE ApartInv'
    BY <1>1, <1>8
  <1>9. ASSUME NEW c \in Chans, Unsubscribe(c) PROVE ApartInv'
    BY <1>8, <1>9 DEF Unsubscribe, chanVars, runVars
  <1>10. ASSUME NEW r \in Runs, RunStep(r) PROVE ApartInv'
    BY <1>3, <1>4, <1>8, <1>10 DEF RunStep, Emit, Recover, Return, Panic,
       Unregister, CloseDone, regVars, chanVars
  <1>11. ASSUME NEW k \in Keys, Cancel(k) \/ DropSession(k) PROVE ApartInv'
    BY <1>7, <1>8, <1>11 DEF Cancel, CancelRuns, DropSession, regVars, chanVars, runVars
  <1>12. ASSUME NEW t \in Tenants,
                DropTenant(t) \/ \E u \in Users : CancelTenantUser(t, u)
         PROVE  ApartInv'
    BY <1>7, <1>8, <1>12 DEF DropTenant, CancelTenantUser, CancelRuns, regVars, chanVars
  <1>13. ASSUME NEW u \in Users, CancelUser(u) PROVE ApartInv'
    BY <1>8, <1>13 DEF CancelUser, CancelRuns, regVars, chanVars
  <1>14. CASE UNCHANGED vars
    BY <1>8, <1>14 DEF vars, regVars, chanVars, runVars
  <1>15. QED
    BY <1>2, <1>5, <1>6, <1>9, <1>10, <1>11, <1>12, <1>13, <1>14 DEF Next

(* No session is ever sent, or keeps for replay, an event of another one. *)
THEOREM SessionsApart == Spec => []SessionsStayApart
  <1>1. Init => ApartInv
    <2> SUFFICES ASSUME Init PROVE ApartInv
      OBVIOUS
    <2>1. \A k \in Keys : buffer[k] = << >>
      BY DEF Init
    <2>2. \A c \in Chans : chan[c] = << >>
      BY DEF Init
    <2>3. \A r \in Runs : event[r].run = r
      BY DEF Init
    <2>4. \A k \in Keys : \A i \in 1 .. Len(buffer[k]) : runKey[buffer[k][i].run] = k
      <3> TAKE k \in Keys
      <3>1. buffer[k] = << >>
        BY <2>1
      <3>2. 1 .. Len(buffer[k]) = {}
        BY <3>1
      <3>3. QED
        BY <3>2
    <2>5. \A c \in Chans : \A i \in 1 .. Len(chan[c]) : runKey[chan[c][i].run] = chanKey[c]
      <3> TAKE c \in Chans
      <3>1. chan[c] = << >>
        BY <2>2
      <3>2. 1 .. Len(chan[c]) = {}
        BY <3>1
      <3>3. QED
        BY <3>2
    <2>6. SessionsStayApart
      BY <2>4, <2>5 DEF SessionsStayApart
    <2>7. QED
      BY <2>3, <2>6 DEF ApartInv, OwnEvents
  <1>2. ApartInv => SessionsStayApart
    BY DEF ApartInv
  <1>3. QED
    BY <1>1, <1>2, ApartStep, TypeCorrect, WriterInvariant, ChannelInvariant, PTL DEF Spec

=============================================================================
