----------------------------- MODULE OrderedInbox -----------------------------
(***************************************************************************)
(* What an adapter promises to a platform that keeps its events until they *)
(* are acknowledged, and to the users who sent them: the events are        *)
(* answered in the order they arrived in, none before all earlier ones     *)
(* are settled; none is forgotten before it is settled; and nothing that   *)
(* was forgotten comes back.                                               *)
(***************************************************************************)
EXTENDS Naturals, Sequences

CONSTANTS
    Kinds,
    Mute        \* the kinds that call for no answer

VARIABLES
    inbox,      \* the kinds of the events, in the order they arrived in
    upTo,       \* how many of them are forgotten
    told        \* the events whose user was told something, or whose
                \* turn ended with nothing to tell

inboxVars == <<inbox, upTo, told>>

Settled(n) == inbox[n] \in Mute \/ n \in told

Init == inbox = << >> /\ upTo = 0 /\ told = {}

Arrive(k) ==
    /\ inbox' = Append(inbox, k)
    /\ UNCHANGED <<upTo, told>>

Tell(n) ==
    /\ \A m \in 1 .. n - 1 : Settled(m)
    /\ told' = told \cup {n}
    /\ UNCHANGED <<inbox, upTo>>

(* One acknowledgement covers all before it. *)
Forget(n) ==
    /\ upTo < n
    /\ \A m \in 1 .. n : Settled(m)
    /\ upTo' = n
    /\ UNCHANGED <<inbox, told>>

Next ==
    \/ \E k \in Kinds : Arrive(k)
    \/ \E n \in 1 .. Len(inbox) : Tell(n) \/ Forget(n)

Spec == Init /\ [][Next]_inboxVars

===============================================================================
