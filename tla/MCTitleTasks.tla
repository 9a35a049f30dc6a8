---------------------------- MODULE MCTitleTasks ----------------------------
(***************************************************************************)
(* A small instance of TitleTasks.                                         *)
(***************************************************************************)
EXTENDS TitleTasks, TLC

CONSTANTS m1, m2, p1

In(on)     == [listed |-> TRUE, enabled |-> on, key |-> TRUE]
Ask(moved) == [listed |-> TRUE, enabled |-> TRUE, key |-> FALSE, moved |-> moved]

(* One model may be switched off at the start, the other one is moved, no  *)
(* key is given, and the routes are changed.                               *)
SmallStarts == {(m1 :> In(on) @@ m2 :> In(TRUE)) : on \in BOOLEAN}
SmallLists  == {(m1 :> Ask(FALSE) @@ m2 :> Ask(TRUE))}
SmallRoutes == {<<m2, m1>>}

=============================================================================
