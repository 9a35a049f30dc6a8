---------------------------- MODULE MCRunManager ----------------------------
(***************************************************************************)
(* A small instance of RunManager.                                         *)
(***************************************************************************)
EXTENDS RunManager, TLC

CONSTANTS k1, k2, r1, r2, c1, u1

(* Every session is of a tenant of its own. *)
OneTenantEach == k1 :> "t1" @@ k2 :> "t2"

TokenSymmetry == Permutations(Runs) \cup Permutations(Chans)

=============================================================================
