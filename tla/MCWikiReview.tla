---------------------------- MODULE MCWikiReview ----------------------------
(***************************************************************************)
(* A small instance of WikiReview: which operations are called, how many   *)
(* actors call them, and with how many texts.                              *)
(***************************************************************************)
EXTENDS WikiReview, TLC

CONSTANTS a1, a2, t1, h1, g1, g2

Interchangeable ==
    Permutations(Actors) \cup Permutations(HumanNotes) \cup Permutations(AgentNotes)

=============================================================================
