-------------------------- MODULE MCRecoveryWorkflow --------------------------
(* Instances of RecoveryWorkflow for TLC. *)
EXTENDS RecoveryWorkflow

\* The schedule edits that change what a run finds: cancelled, and a budget lowered
\* under a run that is about to count one more attempt.
MCPlanEdits == {[NoWrite EXCEPT !.status = "cancelled"], [NoWrite EXCEPT !.max = 0]}

NoEdits == {}
=============================================================================
