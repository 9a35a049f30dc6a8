--------------------------- MODULE MCSessionHistory ---------------------------
(***************************************************************************)
(* A small instance of SessionHistory: its configuration has the bounds.   *)
(***************************************************************************)
EXTENDS SessionHistory

=============================================================================
