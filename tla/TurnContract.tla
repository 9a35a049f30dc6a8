----------------------------- MODULE TurnContract -----------------------------
(***************************************************************************)
(* What a turn of the agent promises to the rest of the system, whatever   *)
(* the model does.  An analysis is accepted at most once and never         *)
(* replaced.  A turn that ends well is remembered by the session: exactly  *)
(* what it accepted and noted.  The stored checkpoint is what the session  *)
(* remembers or, when it could not be written, nothing; a turn that fails  *)
(* leaves nothing in either.  A crash loses the memory, not the checkpoint.*)
(***************************************************************************)
CONSTANTS Analyses, None

VARIABLES outcome, analysis, noted, remembered, checkpoint

vars == <<outcome, analysis, noted, remembered, checkpoint>>

Init ==
    /\ outcome = "working"
    /\ analysis = None
    /\ noted = FALSE
    /\ remembered = None
    /\ checkpoint = None

(* analysis_submit passes the gate. *)
Accept ==
    /\ outcome = "working" /\ remembered = None /\ analysis = None
    /\ analysis' \in Analyses
    /\ UNCHANGED <<outcome, noted, remembered, checkpoint>>

(* missing_answer records that a question has been answered. *)
Note ==
    /\ outcome = "working" /\ remembered = None
    /\ noted' = TRUE
    /\ UNCHANGED <<outcome, analysis, remembered, checkpoint>>

Remember ==
    /\ outcome = "working" /\ remembered = None
    /\ remembered' = [analysis |-> analysis, noted |-> noted]
    /\ UNCHANGED <<outcome, analysis, noted, checkpoint>>

Save ==
    /\ outcome = "working" /\ remembered # None /\ checkpoint = None
    /\ checkpoint' = remembered
    /\ UNCHANGED <<outcome, analysis, noted, remembered>>

Finish ==
    /\ outcome = "working" /\ remembered # None
    /\ outcome' = "done"
    /\ UNCHANGED <<analysis, noted, remembered, checkpoint>>

Fail ==
    /\ outcome = "working" /\ remembered = None
    /\ outcome' = "failed"
    /\ UNCHANGED <<analysis, noted, remembered, checkpoint>>

Crash ==
    /\ outcome' = "lost"
    /\ remembered' = None
    /\ UNCHANGED <<analysis, noted, checkpoint>>

Next == Accept \/ Note \/ Remember \/ Save \/ Finish \/ Fail \/ Crash

Spec == Init /\ [][Next]_vars

=============================================================================
