--------------------------- MODULE MCStalledClients ---------------------------
(***************************************************************************)
(* A small instance of StalledClients: one session, two Runs, one tab and  *)
(* one connection.                                                         *)
(***************************************************************************)
EXTENDS StalledClients, TLC

CONSTANTS k1, r1, r2, c1, t1

OneTenant  == [k \in Keys |-> "t1"]
OneSession == [t \in Tabs |-> k1]

=============================================================================
