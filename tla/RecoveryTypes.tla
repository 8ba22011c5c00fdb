---------------------------- MODULE RecoveryTypes ----------------------------
(***************************************************************************)
(* The rows the recovery system keeps for one mandate, reduced to the      *)
(* columns its rules read.  Amounts, messages, references and clock values *)
(* are left out: of `recommended_time` only "has it been reached" matters. *)
(***************************************************************************)
EXTENDS Naturals

CONSTANT None   \* "no row" (SELECT found nothing) and "column not written"

MandateStatus == {"active", "paused", "cancelled", "expired", "completed"}
PaymentStatus == {"pending", "processing", "succeeded", "failed", "retry_scheduled"}
RetryStatus   == {"pending", "scheduled", "executed", "skipped", "cancelled", "exhausted"}

DeclineCategory ==
  {"insufficient_funds", "account_closed", "mandate_inactive", "bank_unavailable",
   "authentication_required", "technical_error", "limit_exceeded", "unknown"}
NoDecline == "none"   \* decline_category IS NULL

\* PaymentService._TERMINAL_RETRY_STATUSES, and the complement get_due_retries selects.
TerminalRetryStatus == {"executed", "exhausted", "cancelled", "skipped"}
ActiveRetryStatus   == {"pending", "scheduled"}

\* The statuses list_unresolved selects.
Unresolved == {"pending", "processing"}

PlanTime == {"later", "due"}   \* recommended_time > now, recommended_time <= now

AttemptRow == [number: Nat \ {0}, status: PaymentStatus,
               category: DeclineCategory \union {NoDecline}, order: BOOLEAN]

PlanRow == [status: RetryStatus, count: Nat, max: Nat, time: PlanTime]

\* What one UPDATE sets: SQLAlchemy writes only the columns whose value differs
\* from the value the session loaded, and None stands for a column left out.
PlanWrite == [status: RetryStatus \union {None}, count: Nat \union {None},
              max: Nat \union {None}, time: PlanTime \union {None}]

OutcomeWrite == [status: {"succeeded", "failed", None},
                 category: DeclineCategory \union {NoDecline, None}]

Changed(loaded, new) == IF new = loaded THEN None ELSE new
Written(current, write) == IF write = None THEN current ELSE write

NoWrite == [status |-> None, count |-> None, max |-> None, time |-> None]

ApplyPlanWrite(plan, w) ==
  [status |-> Written(plan.status, w.status), count |-> Written(plan.count, w.count),
   max |-> Written(plan.max, w.max), time |-> Written(plan.time, w.time)]

ASSUME NoneIsNoRow == None \notin PlanRow /\ None \notin AttemptRow
ASSUME NoneIsNoStatus == None \notin PaymentStatus \union RetryStatus
ASSUME NoneIsNoCount == None \notin Nat
=============================================================================
