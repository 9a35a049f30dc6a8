--------------------------- MODULE MCSessionStream ---------------------------
(***************************************************************************)
(* Small instances of SessionStream: one session, its Runs one after the   *)
(* other, and one tab.                                                     *)
(***************************************************************************)
EXTENDS SessionStream, TLC

CONSTANTS k1, r1, r2, c1, c2, t1

OneTenant  == [k \in Keys |-> "t1"]
OneSession == [t \in Tabs |-> k1]

TokenSymmetry == Permutations(Runs) \cup Permutations(Chans)

=============================================================================
