------------------------------ MODULE LossyFeed ------------------------------
(***************************************************************************)
(* What a session's event stream promises its readers: every session has   *)
(* one log of events; a reader is shown events of that log strictly        *)
(* forward, so none twice and none after a later one, but it may be shown  *)
(* none of those it has passed.                                            *)
(***************************************************************************)
EXTENDS Naturals, Sequences

CONSTANTS
    Feeds,      \* the sessions
    Readers,    \* the views that read them
    FeedOf,     \* Readers -> Feeds
    Entries     \* what may be published

VARIABLES
    log,    \* per session, all that was published, in order
    got     \* per reader, the positions of its session's log it was shown, in order

feedVars == <<log, got>>

Init ==
    /\ log = [f \in Feeds |-> << >>]
    /\ got = [v \in Readers |-> << >>]

Publish(f, e) ==
    /\ log' = [log EXCEPT ![f] = Append(@, e)]
    /\ UNCHANGED got

Show(v, i) ==
    /\ i \in 1 .. Len(log[FeedOf[v]])
    /\ \A j \in 1 .. Len(got[v]) : got[v][j] < i
    /\ got' = [got EXCEPT ![v] = Append(@, i)]
    /\ UNCHANGED log

(* A reader that starts over from an empty view. *)
StartOver(v) ==
    /\ got' = [got EXCEPT ![v] = << >>]
    /\ UNCHANGED log

Next ==
    \/ \E f \in Feeds, e \in Entries : Publish(f, e)
    \/ \E v \in Readers : \E i \in 1 .. Len(log[FeedOf[v]]) : Show(v, i)
    \/ \E v \in Readers : StartOver(v)

Spec == Init /\ [][Next]_feedVars

=============================================================================
