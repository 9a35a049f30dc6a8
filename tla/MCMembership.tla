---------------------------- MODULE MCMembership ----------------------------
(***************************************************************************)
(* A small instance of Membership.                                         *)
(***************************************************************************)
EXTENDS Membership, TLC

CONSTANTS u1, u2, t1, t2, s1, s2, r1, r2

RequestSymmetry == Permutations(Requests) \cup Permutations(Sessions)

=============================================================================
