----------------------------- MODULE RetryPolicy -----------------------------
(***************************************************************************)
(* The deterministic policy of the decision engine: what one workflow run  *)
(* decides from the context it took of a mandate,                          *)
(*   ctx = [mandate, attempt (latest row or None), plan (row or None)].    *)
(* The AI service may add an explanation to a decision and never changes   *)
(* one, so the policy alone determines what a run does.                    *)
(***************************************************************************)
EXTENDS RecoveryTypes

Context == [mandate: MandateStatus, attempt: AttemptRow \union {None},
            plan: PlanRow \union {None}]

\* retry_strategy._TERMINAL_DECLINE_CATEGORIES
TerminalDeclines == {"account_closed", "mandate_inactive", "authentication_required"}

MerchantDeclines == {"account_closed", "mandate_inactive"}
SupportDeclines  == {"bank_unavailable", "technical_error"}

RemainingRetryAttempts(ctx) ==
  IF ctx.plan = None \/ ctx.plan.count > ctx.plan.max THEN 0
  ELSE ctx.plan.max - ctx.plan.count

\* Mutant: an attempt that is still in flight does not stop a retry.
RetryUnlessPaid(ctx) ==
  /\ ctx.mandate = "active"
  /\ ctx.plan # None /\ ctx.plan.status \in ActiveRetryStatus
  /\ ctx.attempt # None =>
       ctx.attempt.status # "succeeded" /\ ctx.attempt.category \notin TerminalDeclines
  /\ RemainingRetryAttempts(ctx) > 0

IsRetryAllowed(ctx) ==
  /\ ctx.mandate = "active"
  /\ ctx.plan # None /\ ctx.plan.status \in ActiveRetryStatus
  /\ ctx.attempt # None =>
       ctx.attempt.status = "failed" /\ ctx.attempt.category \notin TerminalDeclines
  /\ RemainingRetryAttempts(ctx) > 0

\* calculate_retry_priority: urgent is a retry after trouble at the bank, or the last one.
RetryPriority(ctx) ==
  IF ~IsRetryAllowed(ctx) THEN "none"
  ELSE IF ctx.attempt # None
          /\ (ctx.attempt.category \in SupportDeclines \/ RemainingRetryAttempts(ctx) = 1)
       THEN "high" ELSE "normal"

\* Nothing to tell anyone: no attempt yet, or the latest one was paid.
Quiet(ctx) == ctx.attempt = None \/ ctx.attempt.status = "succeeded"

\* Mutant: an exhausted budget concerns nobody.
EscalateDeclinesOnly(ctx) ==
  IF Quiet(ctx) THEN "none"
  ELSE IF ctx.attempt.category \in MerchantDeclines THEN "merchant"
  ELSE IF ctx.attempt.category \in SupportDeclines THEN "support" ELSE "none"

DetermineEscalation(ctx) ==
  IF Quiet(ctx) THEN "none"
  ELSE IF ctx.attempt.category \in MerchantDeclines THEN "merchant"
  ELSE IF ctx.attempt.category \in SupportDeclines THEN "support"
  ELSE IF RemainingRetryAttempts(ctx) = 0 THEN "customer" ELSE "none"

\* The status persistence_node gives a schedule it will not retry.
CloseOutStatus(ctx) ==
  IF ctx.attempt # None /\ ctx.attempt.status = "succeeded" THEN "executed"
  ELSE IF ctx.plan.count >= ctx.plan.max THEN "exhausted" ELSE "cancelled"
=============================================================================
