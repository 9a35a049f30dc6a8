---------------------------- MODULE StalledClients ----------------------------
(***************************************************************************)
(* SessionStream with clients that stay connected and stop reading.  The   *)
(* server sets no write timeout (cmd/agent/main.go), so a write to such a  *)
(* client (writeSSESeq, channel/http/analyze.go) returns only when the     *)
(* client leaves.  What ends all the same is the question of this module,  *)
(* which adds the fairness of the system to the steps of SessionStream.    *)
(***************************************************************************)
EXTENDS SessionStream

VARIABLE stalled    \* connections whose next write blocks while the client stays

stallVars == <<allVars, stalled>>

StallInit == StreamInit /\ stalled = {}

Attached(c) == \E t \in Tabs : attached[t] = c

(* The handler has something to write: of the replay, the tail or the      *)
(* channel.                                                                *)
Writing(c) ==
    \/ phase[c] \in {"replay", "tail"} /\ owes[c] # << >>
    \/ phase[c] = "live" /\ Len(chan[c]) > 0 /\ Head(chan[c]).seq > sent[c]

(* The client reads no more, for good: one that resumes is a slow one.     *)
Stall(c) ==
    /\ Writing(c) /\ Attached(c) /\ c \notin stalled
    /\ stalled' = stalled \cup {c}
    /\ UNCHANGED allVars

(* The write does not return: the handler is not back at its select, and   *)
(* learns neither of the Run's end nor of anything else.                   *)
Held(c) == c \in stalled /\ Attached(c)

Waits(c) == phase'[c] = phase[c] /\ sent'[c] = sent[c] /\ owes'[c] = owes[c]

StallNext ==
    \/ StreamNext /\ (\A c \in Chans : Held(c) => Waits(c)) /\ UNCHANGED stalled
    \/ \E c \in Chans : Stall(c)

StallSpec == StallInit /\ [][StallNext]_stallVars

(* A handler that is not held goes on: its write returns, with an error    *)
(* when the client is gone, and Go's select chooses evenly among its ready *)
(* cases.                                                                  *)
HandlerFairness == \A c \in Chans :
    /\ WF_stallVars(~ Held(c) /\ WriteOwed(c) /\ UNCHANGED stalled)
    /\ WF_stallVars(Replayed(c) /\ UNCHANGED stalled)
    /\ WF_stallVars(~ Held(c) /\ RunOver(c) /\ UNCHANGED stalled)
    /\ WF_stallVars(TailWritten(c) /\ UNCHANGED stalled)
    /\ WF_stallVars(Leave(c) /\ UNCHANGED stalled)

(* fn returns: Agent.Message runs under a five minute timeout and observes *)
(* the Run's context.  The steps after it never block.  Nothing is assumed *)
(* of the subscribers.                                                     *)
RunFairness == \A r \in Runs :
    /\ WF_stallVars(Return(r) /\ UNCHANGED <<streamVars, stalled>>)
    /\ WF_stallVars(StreamRunStep(r) /\ pc[r] # "body" /\ UNCHANGED stalled)
    /\ WF_stallVars((\E c \in Chans : StreamOffer(r, c)) /\ UNCHANGED stalled)

StallFairSpec == StallSpec /\ HandlerFairness /\ RunFairness

-----------------------------------------------------------------------------
(* Properties; RunsEnd (RunManager) is checked of this specification too:  *)
(* a client that stops reading delays no Run.                              *)

(* Every connection ends, whatever Runs, edits and other connections do,   *)
(* or is held by its own client, which is still connected and does not     *)
(* read: no handler waits for the done channel of a Run that was replaced, *)
(* or for one it subscribed to too late, and one whose client leaves while *)
(* it is held ends as well.                                                *)
StreamsClose ==
    \A c \in Chans : phase[c] \notin {"none", "closed"} ~> (phase[c] = "closed" \/ Held(c))

=============================================================================
