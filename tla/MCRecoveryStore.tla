--------------------------- MODULE MCRecoveryStore ---------------------------
(* Instances of RecoveryStore for TLC. *)
EXTENDS RecoveryStore, TLC

\* One PATCH per kind of edit an operator can make of the schedule.
MCPlanEdits ==
  {[NoWrite EXCEPT !.status = "cancelled"],
   [NoWrite EXCEPT !.status = "scheduled", !.time = "later"],
   [NoWrite EXCEPT !.count = 2],
   [NoWrite EXCEPT !.max = 1]}

NoEdits == {}

Symmetry == Permutations(Sessions)
=============================================================================
