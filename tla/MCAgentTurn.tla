----------------------------- MODULE MCAgentTurn -----------------------------
(***************************************************************************)
(* A small instance of AgentTurn: two products, the name of one contained  *)
(* in the other's, so that a lookup of the second passes for the first.    *)
(***************************************************************************)
EXTENDS AgentTurn, TLC

CONSTANTS p1, p2, q1, o1

NamesAlike == {<<p, p>> : p \in Products} \cup {<<p2, p1>>}

=============================================================================
