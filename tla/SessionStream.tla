---------------------------- MODULE SessionStream ----------------------------
(***************************************************************************)
(* The event stream of a session as a browser tab sees it: the handler of  *)
(* GET /api/sessions/{id}/stream (channel/http/analyze.go) over RunManager,*)
(* the subscription of the web client (frontend, Conversation.tsx), which  *)
(* keeps a cursor per session, and the two handlers that clear a session's *)
(* buffer after a check that it is idle (truncate and delete).             *)
(*                                                                         *)
(* A channel token of RunManager is also the connection it serves.  The    *)
(* network is not a state of its own: an event written to a connection the *)
(* tab has abandoned is lost, one written to its current connection is     *)
(* shown, which covers every prefix a connection may deliver.              *)
(***************************************************************************)
EXTENDS RunManager

CONSTANTS
    Tabs,       \* one per open view of a session
    TabKey,     \* Tabs -> Keys: the session the view shows
    Reloading,  \* bound of the model: the tabs whose page may be reloaded
    MaxEdits,   \* bound of the model: truncate and delete calls
    Budget,     \* bound of the model: Runs and such calls, together
    NoTab, NoConn

ASSUME TabKeyType == TabKey \in [Tabs -> Keys]
ASSUME MaxEditsType == MaxEdits \in Nat /\ Budget \in Nat
ASSUME TailCoversChannel == ChanCap < EventCap    \* 64 and 500 in the code
ASSUME NoConnIsNoConn == NoConn \notin Chans

VARIABLES
    phase,      \* where the handler of a connection is
    tabOf,      \* the tab that opened the connection
    ended,      \* the Run whose done channel Subscribe returned (nil: NoRun)
    sent,       \* the handler's lastSeq
    owes,       \* what is left of the replay or of the tail
    attached,   \* the tab's current connection
    cursor,     \* lastSeqRef: the last seq the tab saw of its session
    editing,    \* truncate or delete passed its Running check for the key
    edits,      \* the calls so far (bounded by MaxEdits)
    \* What happened, for the properties only:
    log,        \* every event ever published, per session
    got,        \* the positions of that log shown to the tab, in order
    owed,       \* the log's positions the session still had when it was opened
    mishap      \* what a tab's view suffered since it started

handlerVars == <<phase, tabOf, ended, sent, owes>>
clientVars  == <<attached, cursor>>
ghostVars   == <<log, got, owed, mishap>>
editVars    == <<editing, edits>>
streamVars  == <<handlerVars, clientVars, editVars, ghostVars>>
allVars     == <<vars, streamVars>>

Phases  == {"none", "replay", "live", "tail", "leaving", "closed"}
Mishaps == {"overrun",      \* its connection's channel was full
            "trimmed",      \* it connected after the buffer had passed its cursor
            "edited",       \* its session's buffer was cleared between two Runs
            "struck"}       \* the same under an executing Run or an open stream

StreamInit ==
    /\ Init
    /\ phase    = [c \in Chans |-> "none"]
    /\ tabOf    = [c \in Chans |-> NoTab]
    /\ ended    = [c \in Chans |-> NoRun]
    /\ sent     = [c \in Chans |-> 0]
    /\ owes     = [c \in Chans |-> << >>]
    /\ attached = [t \in Tabs |-> NoConn]
    /\ cursor   = [t \in Tabs |-> 0]
    /\ editing  = [k \in Keys |-> FALSE]
    /\ edits    = 0
    /\ log      = [k \in Keys |-> << >>]
    /\ got      = [t \in Tabs |-> << >>]
    /\ owed     = [c \in Chans |-> {}]
    /\ mishap   = [t \in Tabs |-> {}]

-----------------------------------------------------------------------------
(* The steps of RunManager, with what they mean for the tabs recorded. *)

Entry(e) == [run |-> e.run, n |-> e.n]

Record(r) == log' = [log EXCEPT ![runKey[r]] = Append(@, Entry(event'[r]))]

StreamRunStep(r) ==
    \/ /\ Emit(r) \/ Recover(r)
       /\ Record(r)
       /\ UNCHANGED <<handlerVars, clientVars, editVars, got, owed, mishap>>
    \/ /\ Return(r) \/ Panic(r) \/ Unregister(r) \/ CloseDone(r)
       /\ UNCHANGED streamVars

StreamOffer(r, c) ==
    /\ Offer(r, c)
    /\ mishap' = [t \in Tabs |-> IF attached[t] = c /\ Len(chan[c]) >= ChanCap
                                 THEN mishap[t] \cup {"overrun"} ELSE mishap[t]]
    /\ UNCHANGED <<handlerVars, clientVars, editVars, log, got, owed>>

Within == Cardinality({r \in Runs : pc[r] # "unborn"}) + edits < Budget

StreamStart(r, k) == Within /\ Start(r, k) /\ UNCHANGED streamVars

-----------------------------------------------------------------------------
(* handleSessionStream. *)

(* The tab aborts its previous subscription and requests the stream from   *)
(* its cursor; the handler subscribes.                                     *)
Open(t, c) ==
    LET k      == TabKey[t]
        missed == cursor[t] + Len(buffer[k]) < lastSeq[k]
    IN  /\ Subscribe(c, k)
        /\ attached' = [attached EXCEPT ![t] = c]
        /\ phase'    = [phase EXCEPT ![c] = "replay"]
        /\ tabOf'    = [tabOf EXCEPT ![c] = t]
        /\ ended'    = [ended EXCEPT ![c] = active[k]]
        /\ sent'     = [sent EXCEPT ![c] = cursor[t]]
        /\ owes'     = [owes EXCEPT ![c] = EventsAfter(k, cursor[t])]
        /\ owed'     = [owed EXCEPT ![c] = Len(log[k]) - lastSeq[k] + 1 .. Len(log[k])]
        /\ mishap'   = IF missed THEN [mishap EXCEPT ![t] = @ \cup {"trimmed"}] ELSE mishap
        /\ UNCHANGED <<cursor, editVars, log, got>>

Position(k, e) == CHOOSE i \in 1 .. Len(log[k]) : log[k][i] = Entry(e)

(* writeSSESeq, and the tab's onSeq if it still reads this connection. *)
Write(c, e) ==
    LET t == tabOf[c]
    IN  /\ sent' = [sent EXCEPT ![c] = e.seq]
        /\ IF attached[t] = c
           THEN /\ cursor' = [cursor EXCEPT ![t] = e.seq]
                /\ got'    = [got EXCEPT ![t] = Append(@, Position(TabKey[t], e))]
           ELSE UNCHANGED <<cursor, got>>

(* One write of the replay loop or of the tail loop. *)
WriteOwed(c) ==
    /\ phase[c] \in {"replay", "tail"} /\ owes[c] # << >>
    /\ Write(c, Head(owes[c]))
    /\ owes' = [owes EXCEPT ![c] = Tail(@)]
    /\ UNCHANGED <<vars, phase, tabOf, ended, attached, editVars, log, owed, mishap>>

(* Mutant: a stream without an active Run waits for the end of one. *)
ReplayedWaits(c) ==
    /\ phase[c] = "replay" /\ owes[c] = << >>
    /\ phase' = [phase EXCEPT ![c] = "live"]
    /\ UNCHANGED <<vars, tabOf, ended, sent, owes, clientVars, editVars, ghostVars>>

(* End of the replay: without an active Run the stream ends here. *)
Replayed(c) ==
    /\ phase[c] = "replay" /\ owes[c] = << >>
    /\ phase' = [phase EXCEPT ![c] = IF ended[c] = NoRun THEN "leaving" ELSE "live"]
    /\ UNCHANGED <<vars, tabOf, ended, sent, owes, clientVars, editVars, ghostVars>>

(* The select's first case. *)
Live(c) ==
    /\ phase[c] = "live"
    /\ Receive(c)
    /\ LET e == Head(chan[c])
       IN  IF e.seq > sent[c] THEN Write(c, e) ELSE UNCHANGED <<sent, cursor, got>>
    /\ UNCHANGED <<phase, tabOf, ended, owes, attached, editVars, log, owed, mishap>>

(* Mutant: the end of the Run ends the stream without the tail. *)
RunOverAbrupt(c) ==
    /\ phase[c] = "live" /\ DoneClosed(ended[c])
    /\ phase' = [phase EXCEPT ![c] = "tail"]
    /\ UNCHANGED <<vars, tabOf, ended, sent, owes, clientVars, editVars, ghostVars>>

(* The second: the Run is over; what the channel holds is abandoned and    *)
(* the tail is read from the buffer.                                       *)
RunOver(c) ==
    /\ phase[c] = "live" /\ DoneClosed(ended[c])
    /\ phase' = [phase EXCEPT ![c] = "tail"]
    /\ owes'  = [owes EXCEPT ![c] = EventsAfter(chanKey[c], sent[c])]
    /\ UNCHANGED <<vars, tabOf, ended, sent, clientVars, editVars, ghostVars>>

TailWritten(c) ==
    /\ phase[c] = "tail" /\ owes[c] = << >>
    /\ phase' = [phase EXCEPT ![c] = "leaving"]
    /\ UNCHANGED <<vars, tabOf, ended, sent, owes, clientVars, editVars, ghostVars>>

(* The third: the client is gone. *)
Disconnected(c) ==
    /\ phase[c] = "live" /\ attached[tabOf[c]] # c
    /\ phase' = [phase EXCEPT ![c] = "leaving"]
    /\ UNCHANGED <<vars, tabOf, ended, sent, owes, clientVars, editVars, ghostVars>>

(* The deferred unsub; the handler's locals are gone with it, and a tab    *)
(* still attached sees its stream end.                                     *)
Leave(c) ==
    /\ phase[c] = "leaving"
    /\ Unsubscribe(c)
    /\ phase'    = [phase EXCEPT ![c] = "closed"]
    /\ tabOf'    = [tabOf EXCEPT ![c] = NoTab]
    /\ ended'    = [ended EXCEPT ![c] = NoRun]
    /\ sent'     = [sent EXCEPT ![c] = 0]
    /\ owed'     = [owed EXCEPT ![c] = {}]
    /\ attached' = [t \in Tabs |-> IF attached[t] = c THEN NoConn ELSE attached[t]]
    /\ UNCHANGED <<owes, cursor, editVars, log, got, mishap>>

-----------------------------------------------------------------------------
(* The client: stopping the subscription, and reloading the page (which    *)
(* starts with an empty view and no cursor, but does not bring back what   *)
(* was cleared under an executing Run).                                    *)

Detach(t) ==
    /\ attached[t] # NoConn
    /\ attached' = [attached EXCEPT ![t] = NoConn]
    /\ UNCHANGED <<vars, handlerVars, cursor, editVars, ghostVars>>

Reload(t) ==
    /\ t \in Reloading
    /\ attached' = [attached EXCEPT ![t] = NoConn]
    /\ cursor'   = [cursor EXCEPT ![t] = 0]
    /\ got'      = [got EXCEPT ![t] = << >>]
    /\ mishap'   = [mishap EXCEPT ![t] = @ \cap {"struck"}]
    /\ UNCHANGED <<vars, handlerVars, editVars, log, owed>>

-----------------------------------------------------------------------------
(* Truncate (edit and resend) and delete: refused while a Run executes,    *)
(* then the history is changed, then the buffer is dropped.                *)

EditCheck(k) ==
    /\ ~ editing[k] /\ edits < MaxEdits /\ Within
    /\ active[k] = NoRun
    /\ editing' = [editing EXCEPT ![k] = TRUE]
    /\ edits'   = edits + 1
    /\ UNCHANGED <<vars, handlerVars, clientVars, ghostVars>>

(* A tab that has seen nothing and reads nothing is not concerned. *)
Concerned(t, k) ==
    TabKey[t] = k /\ (cursor[t] > 0 \/ attached[t] # NoConn \/ active[k] # NoRun)

EditDrop(k) ==
    /\ editing[k]
    /\ DropSession(k)
    /\ editing' = [editing EXCEPT ![k] = FALSE]
    /\ mishap'  = [t \in Tabs |-> IF ~ Concerned(t, k) THEN mishap[t] ELSE
                     mishap[t] \cup {IF active[k] = NoRun /\ attached[t] = NoConn
                                     THEN "edited" ELSE "struck"}]
    /\ UNCHANGED <<edits, handlerVars, clientVars, log, got, owed>>

-----------------------------------------------------------------------------

HandlerStep(c) ==
    \/ WriteOwed(c) \/ Replayed(c) \/ Live(c) \/ RunOver(c)
    \/ TailWritten(c) \/ Disconnected(c) \/ Leave(c)

StreamNext ==
    \/ \E r \in Runs : StreamRunStep(r)
    \/ \E r \in Runs, c \in Chans : StreamOffer(r, c)
    \/ \E r \in Runs, k \in Keys : StreamStart(r, k)
    \/ \E c \in Chans : HandlerStep(c)
    \/ \E t \in Tabs, c \in Chans : Open(t, c)
    \/ \E t \in Tabs : Detach(t) \/ Reload(t)
    \/ \E k \in Keys : EditCheck(k) \/ EditDrop(k)

StreamSpec == StreamInit /\ [][StreamNext]_allVars

-----------------------------------------------------------------------------
(* Properties. *)

StreamTypeOK ==
    /\ TypeOK
    /\ phase    \in [Chans -> Phases]
    /\ tabOf    \in [Chans -> Tabs \cup {NoTab}]
    /\ ended    \in [Chans -> Runs \cup {NoRun}]
    /\ sent     \in [Chans -> Nat]
    /\ owes     \in [Chans -> Seq(Event)]
    /\ attached \in [Tabs -> Chans \cup {NoConn}]
    /\ cursor   \in [Tabs -> Nat]
    /\ editing  \in [Keys -> BOOLEAN]
    /\ edits    \in 0 .. MaxEdits
    /\ log      \in [Keys -> Seq([run : Runs, n : Nat])]
    /\ got      \in [Tabs -> Seq(Nat)]
    /\ owed     \in [Chans -> SUBSET Nat]
    /\ mishap   \in [Tabs -> SUBSET Mishaps]

(* The tab is shown a session's events strictly forward: none twice, none  *)
(* late, across reconnections from its cursor, the replay/live overlap, a  *)
(* second Run on the same channel and restarts of the session's counter.   *)
Feed == INSTANCE LossyFeed WITH
            Feeds   <- Keys,
            Readers <- Tabs,
            FeedOf  <- TabKey,
            Entries <- [run : Runs, n : 1 .. MaxEmits + 1]

ShowsForward == Feed!Spec

Shown(t) == {got[t][i] : i \in 1 .. Len(got[t])}

(* A connection the server has ended while the tab was still reading it    *)
(* leaves nothing out: neither what was published before it was opened nor *)
(* the Run it followed.                                                    *)
LeftNothingOut(c) ==
    LET t == tabOf[c]
        entries == log[TabKey[t]]
    IN  owed[c] \cup {i \in 1 .. Len(entries) : entries[i].run = ended[c]}
            \subseteq Shown(t)

EndedForReader(c) == phase[c] = "leaving" /\ attached[tabOf[c]] = c

(* Nothing is lost between Subscribe's snapshot, the live channel and the  *)
(* tail, over any number of reconnections and reloads, unless the channel  *)
(* was full, the buffer had passed the cursor, or the buffer was cleared.  *)
CompleteUnlessMishap ==
    \A c \in Chans :
        EndedForReader(c) /\ mishap[tabOf[c]] = {} => LeftNothingOut(c)

=============================================================================
