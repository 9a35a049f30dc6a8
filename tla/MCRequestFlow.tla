---------------------------- MODULE MCRequestFlow ----------------------------
(***************************************************************************)
(* A small instance of RequestFlow: one tenant with one session, and two   *)
(* requests at a time.                                                     *)
(***************************************************************************)
EXTENDS RequestFlow, TLC

CONSTANTS q1, q2, x1, x2, k1, j1, j2, u1, u2, c1, c2

OneTenant == [k \in Keys |-> "t1"]

TokenSymmetry == Permutations(Requests) \cup Permutations(Runs)
                 \cup Permutations(Jobs) \cup Permutations(Users) \cup Permutations(Customers)

=============================================================================
