--------------------------- MODULE RecoveryContract ---------------------------
(***************************************************************************)
(* What the payment, retry and mandate services promise their callers: one *)
(* call is one step.  Only what the promises speak of is kept: the         *)
(* mandate's status, each attempt's outcome, and whether the mandate has a *)
(* retry plan and whether it is active.                                    *)
(***************************************************************************)
EXTENDS Sequences, Naturals

VARIABLES mandate, outcome, plan

vars == <<mandate, outcome, plan>>

Init ==
  /\ mandate = "active"
  /\ outcome = <<>>
  /\ plan = "none"

\* Paused mandates may be resumed; a cancelled one stays cancelled.
ChangeMandate ==
  /\ \/ mandate = "active" /\ mandate' \in {"paused", "cancelled"}
     \/ mandate = "paused" /\ mandate' \in {"active", "cancelled"}
  /\ UNCHANGED <<outcome, plan>>

\* Attempts are collected from active mandates only, and start unresolved.
Collect ==
  /\ mandate = "active"
  /\ outcome' = Append(outcome, "pending")
  /\ UNCHANGED <<mandate, plan>>

\* A success closes the plan it finds.
Succeed(i) ==
  /\ outcome' = [outcome EXCEPT ![i] = "succeeded"]
  /\ plan' = IF plan = "none" THEN "none" ELSE "closed"
  /\ UNCHANGED mandate

\* A failure never replaces a success, and is always followed up.
Fail(i) ==
  /\ outcome[i] # "succeeded"
  /\ outcome' = [outcome EXCEPT ![i] = "failed"]
  /\ plan' = "active"
  /\ UNCHANGED mandate

\* Operators create the plan for an active mandate, and edit it once it exists.
EditPlan ==
  /\ \/ plan = "none" /\ mandate = "active" /\ plan' = "active"
     \/ plan # "none" /\ plan' \in {"active", "closed"}
  /\ UNCHANGED <<mandate, outcome>>

Next ==
  \/ ChangeMandate
  \/ Collect
  \/ \E i \in DOMAIN outcome : Succeed(i) \/ Fail(i)
  \/ EditPlan

Spec == Init /\ [][Next]_vars
=============================================================================
