------------------------------ MODULE Selection ------------------------------
(***************************************************************************)
(* What a filtered query, or a loop that skips elements, returns of a      *)
(* sequence: SelectSeq without an operator as its argument, which no       *)
(* prover could expand.                                                    *)
(***************************************************************************)
EXTENDS Naturals, Sequences, FiniteSets

(* The place of i among the members of kept. *)
RankIn(kept, i) == Cardinality({h \in kept : h <= i})

(* The elements of s at the places in kept, in their order. *)
Picked(s, kept) ==
    [j \in 1 .. Cardinality(kept) |-> s[CHOOSE i \in kept : RankIn(kept, i) = j]]

==============================================================================
