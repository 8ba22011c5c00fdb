--------------------------- MODULE RecoveryWorkflow ---------------------------
(***************************************************************************)
(* Runs of the recovery workflow on the mandate of RecoveryStore.          *)
(*                                                                         *)
(* A run reads the schedule, then the mandate and its latest attempt; it   *)
(* decides from that snapshot; then it escalates, books the next attempt   *)
(* and advances the schedule, or closes the schedule, each in a            *)
(* transaction of its own.  Runs are started by the retry job for a due    *)
(* schedule (Jobs), and by webhook deliveries and the development endpoint *)
(* at any time (Reruns).  Everyone else who calls a service is a Caller.   *)
(*                                                                         *)
(* Left out: the communications a run records and the execution row it     *)
(* persists.  Both tables are only ever appended to here, and no decision  *)
(* reads them.                                                             *)
(***************************************************************************)
EXTENDS RecoveryStore, RetryPolicy, FiniteSets

CONSTANTS
  Jobs,         \* sessions of the retry job: one, as it has max_instances=1
  Reruns,       \* sessions of webhook handlers and of POST /dev/workflow/run
  Callers,      \* sessions of request threads and of the settlement job
  CallerOps,    \* what the callers of this instance do
  MaxFailures   \* bound: database errors and kills that end a run part-way

VARIABLES
  run,          \* run[r]: where the run is, and the context it decided from
  escalations,  \* the mandate's open escalations
  spent,        \* history: attempts booked by runs since the plan was (re)activated
  failures      \* how many runs have failed

Runners == Jobs \union Reruns

vars == <<storeVars, run, escalations, spent, failures>>

ASSUME WorkflowAssumption ==
  /\ Jobs \union Reruns \union Callers = Sessions
  /\ Runners \intersect Callers = {}
  /\ CallerOps \subseteq {"transition", "collect", "settle", "report", "create", "edit", "resolve"}
  /\ MaxFailures \in Nat

NoContext == [mandate |-> "active", attempt |-> None, plan |-> None]
NoRun == [pc |-> "idle", ctx |-> NoContext]

WInit ==
  /\ Init
  /\ run = [r \in Runners |-> NoRun]
  /\ escalations = 0
  /\ spent = 0
  /\ failures = 0

At(r, pc) == run[r].pc = pc
Goto(r, pc) == run' = [run EXCEPT ![r].pc = pc]
EndRun(r) == run' = [run EXCEPT ![r] = NoRun]

LatestAttempt == IF attempts = <<>> THEN None ELSE attempts[Latest]

PlanIsDue == /\ schedule # None
             /\ schedule.status \in ActiveRetryStatus
             /\ schedule.time = "due"

-----------------------------------------------------------------------------
(* One run *)

\* Bound: no run starts once MaxAttempts attempts are recorded.
Picked(r) ==
  /\ At(r, "idle")
  /\ LatestNumber < MaxAttempts
  /\ run' = [run EXCEPT ![r] = [pc |-> "picked", ctx |-> [NoContext EXCEPT !.plan = schedule]]]
  /\ UNCHANGED <<storeVars, escalations, spent, failures>>

\* run_due_retries picks the due schedules...
PickDueRetry(r) == r \in Jobs /\ PlanIsDue /\ Picked(r)

\* ...and run_workflows runs every mandate, due or not.
RunWorkflow(r) == r \in Reruns /\ Picked(r)

Start(r) == PickDueRetry(r) \/ RunWorkflow(r)

\* A SELECT does not overwrite a row its session still holds: the first run of a
\* batch sees the schedule as it was picked, and the commits of that run make the
\* session load the other schedules of the batch again.
ReadPlan(r) ==
  /\ At(r, "picked")
  /\ \E plan \in {schedule} \union (IF r \in Jobs THEN {run[r].ctx.plan} ELSE {}) :
       run' = [run EXCEPT ![r] = [pc |-> "context", ctx |-> [@.ctx EXCEPT !.plan = plan]]]
  /\ UNCHANGED <<storeVars, escalations, spent, failures>>

ReadContext(r) ==
  /\ At(r, "context")
  /\ run' = [run EXCEPT ![r] = [pc |-> "escalate",
                                ctx |-> [@.ctx EXCEPT !.mandate = mandate,
                                                      !.attempt = LatestAttempt]]]
  /\ UNCHANGED <<storeVars, escalations, spent, failures>>

\* Mutant: does not look.
EscalateAlways(r) ==
  /\ At(r, "escalate")
  /\ IF DetermineEscalation(run[r].ctx) # "none"
     THEN Goto(r, "escalating") ELSE Goto(r, "act")
  /\ UNCHANGED <<storeVars, escalations, spent, failures>>

\* escalation_node looks for an open escalation...
CheckEscalations(r) ==
  /\ At(r, "escalate")
  /\ IF DetermineEscalation(run[r].ctx) # "none" /\ escalations = 0
     THEN Goto(r, "escalating") ELSE Goto(r, "act")
  /\ UNCHANGED <<storeVars, escalations, spent, failures>>

\* ...and then, in another transaction, creates one.
CreateEscalation(r) ==
  /\ At(r, "escalating")
  /\ escalations' = escalations + 1
  /\ Goto(r, "act")
  /\ UNCHANGED <<storeVars, spent, failures>>

\* No schedule: nothing to execute.
ActWithoutPlan(r) ==
  /\ At(r, "act")
  /\ run[r].ctx.plan = None
  /\ EndRun(r)
  /\ UNCHANGED <<storeVars, escalations, spent, failures>>

\* The row update_retry_schedule gets from the session.  A run that has committed
\* nothing since it took its context still holds the row it loaded then.
LoadedPlan(r) == IF Quiet(run[r].ctx) THEN run[r].ctx.plan ELSE schedule

\* Mutant: a schedule that may not be retried is left alone.
LeavePlan(r) ==
  /\ At(r, "act")
  /\ run[r].ctx.plan # None
  /\ ~IsRetryAllowed(run[r].ctx)
  /\ EndRun(r)
  /\ UNCHANGED <<storeVars, escalations, spent, failures>>

ClosePlan(r) ==
  /\ At(r, "act")
  /\ run[r].ctx.plan # None
  /\ ~IsRetryAllowed(run[r].ctx)
  /\ BeginUpdatePlan(r, LoadedPlan(r), [NoWrite EXCEPT !.status = CloseOutStatus(run[r].ctx)])
  /\ Goto(r, "closing")
  /\ UNCHANGED <<escalations, spent, failures>>

BookAttempt(r) ==
  /\ At(r, "act")
  /\ IsRetryAllowed(run[r].ctx)
  /\ BeginRecord(r, FALSE)   \* this PaymentService has no gateway client
  /\ Goto(r, "booking")
  /\ UNCHANGED <<escalations, spent, failures>>

\* record_payment_attempt finds the mandate no longer active: the run fails.
BookingRefused(r) ==
  /\ At(r, "act")
  /\ IsRetryAllowed(run[r].ctx)
  /\ mandate # "active"
  /\ EndRun(r)
  /\ UNCHANGED <<storeVars, escalations, spent, failures>>

AttemptBooked(r) ==
  /\ At(r, "booking")
  /\ CommitRecord(r)
  /\ Goto(r, "advance")
  /\ spent' = spent + 1
  /\ UNCHANGED <<escalations, failures>>

BookingLost(r) ==
  /\ At(r, "booking")
  /\ RejectDuplicateAttempt(r)
  /\ EndRun(r)
  /\ UNCHANGED <<escalations, spent, failures>>

\* Mutant: postpones the schedule without counting the attempt.
AdvanceUncounted(plan) == [NoWrite EXCEPT !.time = "later"]

\* What persistence_node writes after booking, counted from the snapshot.
Advancement(plan) ==
  IF plan.count + 1 >= plan.max
  THEN [NoWrite EXCEPT !.count = plan.count + 1, !.status = "exhausted"]
  ELSE [NoWrite EXCEPT !.count = plan.count + 1, !.time = "later"]

AdvancePlan(r) ==
  /\ At(r, "advance")
  /\ BeginUpdatePlan(r, schedule, Advancement(run[r].ctx.plan))
  /\ Goto(r, "advancing")
  /\ UNCHANGED <<escalations, spent, failures>>

\* max_retries was lowered below the new count: ValidationError, the run fails.
AdvanceRefused(r) ==
  /\ At(r, "advance")
  /\ ~WithinMax(ApplyPlanWrite(schedule, Advancement(run[r].ctx.plan)))
  /\ EndRun(r)
  /\ UNCHANGED <<storeVars, escalations, spent, failures>>

PlanUpdated(r) ==
  /\ At(r, "advancing") \/ At(r, "closing")
  /\ CommitUpdatePlan(r) \/ RejectUpdatePlan(r)
  /\ EndRun(r)
  /\ UNCHANGED <<escalations, spent, failures>>

\* A database error, or the process dying: what was committed stays committed.
RunFails(r) ==
  /\ ~At(r, "idle")
  /\ failures < MaxFailures
  /\ failures' = failures + 1
  /\ txn' = [txn EXCEPT ![r] = Idle]
  /\ EndRun(r)
  /\ UNCHANGED <<store, escalations, spent>>

RunStep(r) ==
  \/ ReadPlan(r) \/ ReadContext(r)
  \/ CheckEscalations(r) \/ CreateEscalation(r)
  \/ ActWithoutPlan(r) \/ ClosePlan(r)
  \/ BookAttempt(r) \/ BookingRefused(r) \/ AttemptBooked(r) \/ BookingLost(r)
  \/ AdvancePlan(r) \/ AdvanceRefused(r) \/ PlanUpdated(r)

-----------------------------------------------------------------------------
(* Everyone else *)

\* A failure that creates or reactivates the plan starts its budget over.
Restarts(t) == t.op = "flushed" /\ t.status = "failed" /\ t.plan.status = "pending"

CallerBegins(s) ==
  \/ /\ "transition" \in CallerOps
     /\ \E target \in DOMAIN AllowedFrom : BeginTransition(s, target)
  \/ \* the mandate's first collection; further attempts are the workflow's
     /\ "collect" \in CallerOps
     /\ attempts = <<>>
     /\ \E order \in OrderOutcomes : BeginRecord(s, order)
  \/ \* the settlement job resolves attempts that are still unresolved
     /\ "settle" \in CallerOps
     /\ \E a \in DOMAIN attempts :
          /\ attempts[a].status \in Unresolved
          /\ \/ BeginOutcome(s, a, "succeeded", NoDecline, "later")
             \/ \E c \in Categories : BeginOutcome(s, a, "failed", c, "later")
  \/ \* webhooks and operators report any attempt, in any order
     /\ "report" \in CallerOps
     /\ \E a \in DOMAIN attempts :
          \/ BeginOutcome(s, a, "succeeded", NoDecline, "later")
          \/ \E c \in Categories : BeginOutcome(s, a, "failed", c, "later")
  \/ \* operators plan the retries of a mandate that is being collected
     /\ "create" \in CallerOps
     /\ attempts # <<>> /\ schedule = None
     /\ \E max \in 0..DefaultMaxRetries : BeginCreatePlan(s, max, "later")
  \/ /\ "edit" \in CallerOps
     /\ \E edit \in PlanEdits : BeginUpdatePlan(s, schedule, edit)

CallerStep(s) ==
  /\ CallerBegins(s) \/ FlushOutcome(s) \/ Finish(s)
  /\ spent' = IF Restarts(txn[s]) /\ schedule' # schedule THEN 0 ELSE spent
  /\ UNCHANGED <<run, escalations, failures>>

ResolveEscalation ==
  /\ "resolve" \in CallerOps
  /\ escalations > 0
  /\ escalations' = escalations - 1
  /\ UNCHANGED <<storeVars, run, spent, failures>>

TimePasses == RetryComesDue /\ UNCHANGED <<run, escalations, spent, failures>>

WNext ==
  \/ \E r \in Runners : Start(r) \/ RunStep(r) \/ RunFails(r)
  \/ \E s \in Callers : CallerStep(s)
  \/ ResolveEscalation
  \/ TimePasses

WSpec == WInit /\ [][WNext]_vars

\* The retry job ticks for ever and each of its runs is carried on; so is a caller's
\* transaction once begun.  Nobody has to call, and time need not pass.
Fairness ==
  /\ \A r \in Jobs : WF_vars(Start(r)) /\ WF_vars(RunStep(r))
  /\ \A s \in Callers : WF_vars(txn[s] # Idle /\ CallerStep(s))

FairWSpec == WSpec /\ Fairness

-----------------------------------------------------------------------------

\* Every variable holds a value of its kind, and a run its snapshot.
WTypeOK ==
  /\ TypeOK
  /\ run \in [Runners -> [pc: {"idle", "picked", "context", "escalate", "escalating", "act",
                               "booking", "advance", "advancing", "closing"}, ctx: Context]]
  /\ escalations \in Nat /\ spent \in Nat
  /\ failures \in 0..MaxFailures

\* "A new retry may only be booked once the previous attempt has resolved to a
\* failure -- never while it's still pending/processing or already succeeded."
BooksOnlyAfterFailure ==
  [][Len(attempts') > Len(attempts) /\ attempts # <<>> =>
       attempts[Latest].status = "failed"]_vars

\* No second charge is in flight beside an unresolved one.
OneInFlight == Cardinality({i \in DOMAIN attempts : attempts[i].status \in Unresolved}) <= 1

\* Runs book at most max_retries attempts between two (re)activations of the plan,
\* and one more for each run that died between booking an attempt and counting it.
BudgetKept == schedule # None => spent <= schedule.max + failures

\* "must not accumulate a new Escalation row every time this node runs"
OneOpenEscalation == escalations <= 1

\* No run gives up on a plan over a merchant-side decline, or with its budget gone,
\* without a human being told.
GivingUpIsEscalated ==
  \A r \in Runners :
    /\ At(r, "closing") /\ ~Quiet(run[r].ctx)
    /\ run[r].ctx.attempt.category \in MerchantDeclines \/ RemainingRetryAttempts(run[r].ctx) = 0
    => escalations > 0

\* "otherwise it stays due forever": once the mandate is no longer being paused and
\* resumed, a due plan is retried or closed (or the bound on attempts is reached).
DuePlanHandled ==
  (<>[](mandate = "active") \/ <>[](mandate # "active")) =>
    (PlanIsDue ~> (~PlanIsDue \/ LatestNumber = MaxAttempts))

\* "Every reason is_retry_allowed() can return False for a schedule already in this
\* state is terminal": the job closes no plan whose latest attempt may still fail or
\* succeed.  (Declines that a retry cannot fix count as terminal too.)
ClosesOnlyForGood ==
  \A r \in Jobs :
    At(r, "closing") =>
      \/ run[r].ctx.mandate # "active"
      \/ run[r].ctx.attempt # None /\ run[r].ctx.attempt.status = "succeeded"
      \/ run[r].ctx.attempt # None /\ run[r].ctx.attempt.category \in TerminalDeclines
      \/ RemainingRetryAttempts(run[r].ctx) = 0

\* The retry policy's terminal declines "mirror the categories escalation_strategy /
\* communication_strategy already treat as terminal": refusing a retry over the
\* decline means escalating it.
TerminalDeclinesAgree ==
  \A r \in Runners :
    /\ At(r, "act") /\ run[r].ctx.attempt # None
    /\ run[r].ctx.attempt.status = "failed"
    /\ run[r].ctx.attempt.category \in TerminalDeclines
    => DetermineEscalation(run[r].ctx) # "none"
=============================================================================
