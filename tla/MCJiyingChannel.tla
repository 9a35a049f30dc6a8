--------------------------- MODULE MCJiyingChannel ---------------------------
(***************************************************************************)
(* A small instance of JiyingChannel.                                      *)
(***************************************************************************)
EXTENDS JiyingChannel, TLC

CONSTANTS j1, j2

=============================================================================
