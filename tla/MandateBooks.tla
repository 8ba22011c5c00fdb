----------------------------- MODULE MandateBooks -----------------------------
(***************************************************************************)
(* The rows of several mandates, and what one call of a service makes of   *)
(* them.  RecoveryStore studies how all the calls of one mandate overlap;  *)
(* here a call is the step that commits, an outcome is checked against the *)
(* copy of the attempt read before, and mandates come and go.              *)
(***************************************************************************)
EXTENDS RetryPolicy, Sequences

CONSTANTS
  Mandates,
  DefaultMaxRetries   \* max_retries of a plan that a failed attempt creates

VARIABLE book         \* book[m]: the rows of mandate m, None before and after it exists

ASSUME BooksAssumption == DefaultMaxRetries \in Nat

Attempt == [status: PaymentStatus, category: DeclineCategory \union {NoDecline}]

Book == [mandate: MandateStatus, attempts: Seq(Attempt), plan: PlanRow \union {None},
         open: Nat]   \* open escalations

ASSUME NoneIsNoBook == None \notin Book \union Attempt

Exists(m) == book[m] # None

NewBook == [mandate |-> "active", attempts |-> <<>>, plan |-> None, open |-> 0]

NewestAttempt(b) == IF b.attempts = <<>> THEN None ELSE b.attempts[Len(b.attempts)]

ContextOf(b) == [mandate |-> b.mandate, attempt |-> NewestAttempt(b), plan |-> b.plan]

HasDuePlan(b) == b.plan # None /\ b.plan.status \in ActiveRetryStatus /\ b.plan.time = "due"

-----------------------------------------------------------------------------
(* PaymentService *)

MayRecord(b) == b.mandate = "active"

Recorded(b) ==
  [b EXCEPT !.attempts = Append(@, [status |-> "pending", category |-> NoDecline])]

\* The UPDATE of an attempt of which the caller's session holds the copy seen.
Marked(attempt, seen, status, category) ==
  [status   |-> Written(attempt.status, Changed(seen.status, status)),
   category |-> Written(attempt.category, Changed(seen.category, category))]

\* decline_category is left as it is.
Paid(b, i, seen) ==
  [b EXCEPT !.attempts[i] = Marked(@, seen, "succeeded", seen.category),
            !.plan = IF @ # None /\ @.status \in ActiveRetryStatus
                     THEN [@ EXCEPT !.status = "executed"] ELSE @]

\* The guard of _apply_outcome looks at the copy; no lock keeps the row as it is.
MayFail(seen) == seen.status # "succeeded"

\* A first plan is created, a closed one starts over, an active one is left alone.
Pursued(plan) ==
  IF plan = None
  THEN [status |-> "pending", count |-> 0, max |-> DefaultMaxRetries, time |-> "later"]
  ELSE IF plan.status \in ActiveRetryStatus THEN plan
  ELSE [plan EXCEPT !.status = "pending", !.count = 0, !.time = "later"]

Declined(b, i, seen, category) ==
  [b EXCEPT !.attempts[i] = Marked(@, seen, "failed", category),
            !.plan = Pursued(@)]

-----------------------------------------------------------------------------
(* RetryService *)

Planned(b, edit) == [b EXCEPT !.plan = ApplyPlanWrite(@, edit)]

-----------------------------------------------------------------------------
(* EscalationService *)

HasOpen(b) == b.open > 0
Opened(b) == [b EXCEPT !.open = @ + 1]
Resolved(b) == [b EXCEPT !.open = @ - 1]

-----------------------------------------------------------------------------

\* A recommended time is reached.
ComesDue(m) ==
  /\ Exists(m) /\ book[m].plan # None
  /\ book[m].plan.status \in ActiveRetryStatus /\ book[m].plan.time = "later"
  /\ book' = [book EXCEPT ![m].plan.time = "due"]

BooksTypeOK ==
  \A m \in Mandates : Exists(m) =>
    book[m] \in Book /\ (book[m].plan # None => book[m].plan.count <= book[m].plan.max)
=============================================================================
