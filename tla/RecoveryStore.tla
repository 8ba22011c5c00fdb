---------------------------- MODULE RecoveryStore ----------------------------
(***************************************************************************)
(* The rows of one mandate (its status, its payment attempts, its retry    *)
(* schedule) and the service transactions that change them, as the         *)
(* database runs them: READ COMMITTED, nothing locked by a SELECT.         *)
(*                                                                         *)
(* A transaction of MandateService, PaymentService or RetryService reads   *)
(* and checks first, and its writes reach other sessions when it commits.  *)
(* Every session that has a transaction open holds it in `txn`; between    *)
(* Begin... and Commit... any other session may commit.  Attempt outcomes  *)
(* read twice: the attempt (Begin), then, once the attempt row is flushed  *)
(* and so locked, the schedule (Flush).                                    *)
(***************************************************************************)
EXTENDS RecoveryTypes, Sequences

CONSTANTS
  Sessions,            \* database sessions: request threads and background jobs
  DefaultMaxRetries,   \* PaymentService._DEFAULT_MAX_RETRIES (3 in the code)
  MaxAttempts,         \* bound: attempts recorded for the mandate
  OrderOutcomes,       \* what creating a gateway order for an attempt may come to
  Categories,          \* decline categories outcomes are reported with
  PlanEdits            \* rows a PATCH of the schedule may ask for

VARIABLES
  mandate,    \* mandates.status
  attempts,   \* payment_attempts rows in insertion order
  schedule,   \* the retry_schedules row, or None
  txn         \* txn[s]: what session s has read and will write

store == <<mandate, attempts, schedule>>
storeVars == <<mandate, attempts, schedule, txn>>

ASSUME StoreAssumption ==
  /\ DefaultMaxRetries \in Nat
  /\ MaxAttempts \in Nat
  /\ OrderOutcomes \subseteq BOOLEAN
  /\ Categories \subseteq DeclineCategory \union {NoDecline}
  /\ PlanEdits \subseteq [status: RetryStatus \union {None}, count: Nat \union {None},
                          max: Nat \union {None}, time: PlanTime \union {None}]

Idle == [op |-> "idle"]

TxnState ==
  {Idle}
  \union [op: {"transition"}, target: MandateStatus]
  \union [op: {"record"}, number: Nat \ {0}, order: BOOLEAN]
  \union [op: {"outcome"}, attempt: Nat \ {0}, status: {"succeeded", "failed"},
          write: OutcomeWrite, time: PlanTime]
  \union [op: {"flushed"}, attempt: Nat \ {0}, status: {"succeeded", "failed"},
          write: OutcomeWrite, insert: BOOLEAN, plan: PlanWrite]
  \union [op: {"create"}, row: PlanRow]
  \union [op: {"update"}, write: PlanWrite]

Init ==
  /\ mandate = "active"        \* register_mandate
  /\ attempts = <<>>
  /\ schedule = None
  /\ txn = [s \in Sessions |-> Idle]

Open(s, t) ==
  /\ txn[s] = Idle
  /\ txn' = [txn EXCEPT ![s] = t]

Close(s, op) ==
  /\ txn[s].op = op
  /\ txn' = [txn EXCEPT ![s] = Idle]

-----------------------------------------------------------------------------
(* MandateService *)

AllowedFrom == [active    |-> {"paused"},
                paused    |-> {"active"},
                cancelled |-> {"active", "paused"}]

BeginTransition(s, target) ==
  /\ mandate \in AllowedFrom[target]
  /\ Open(s, [op |-> "transition", target |-> target])
  /\ UNCHANGED store

CommitTransition(s) ==
  /\ Close(s, "transition")
  /\ mandate' = txn[s].target
  /\ UNCHANGED <<attempts, schedule>>

-----------------------------------------------------------------------------
(* PaymentService.record_payment_attempt *)

\* get_latest_attempt: the row with the highest attempt_number.
Latest == CHOOSE i \in DOMAIN attempts :
            \A j \in DOMAIN attempts : attempts[j].number <= attempts[i].number

LatestNumber == IF attempts = <<>> THEN 0 ELSE attempts[Latest].number

\* Mutant: the next number is the latest one, so numbering starts at 0.
BeginRecordFromZero(s, order) ==
  /\ mandate = "active"
  /\ LatestNumber < MaxAttempts
  /\ Open(s, [op |-> "record", number |-> LatestNumber, order |-> order])
  /\ UNCHANGED store

\* order: whether the best-effort gateway order could be created.
BeginRecord(s, order) ==
  /\ mandate = "active"
  /\ LatestNumber < MaxAttempts
  /\ Open(s, [op |-> "record", number |-> LatestNumber + 1, order |-> order])
  /\ UNCHANGED store

\* uq_payment_attempt_mandate_number
NumberFree(n) == \A i \in DOMAIN attempts : attempts[i].number # n

NewAttempt(t) == [number |-> t.number, status |-> "pending",
                  category |-> NoDecline, order |-> t.order]

\* Mutant: no UNIQUE on (mandate_id, attempt_number).
CommitRecordUnchecked(s) ==
  /\ Close(s, "record")
  /\ attempts' = Append(attempts, NewAttempt(txn[s]))
  /\ UNCHANGED <<mandate, schedule>>

CommitRecord(s) ==
  /\ Close(s, "record")
  /\ NumberFree(txn[s].number)
  /\ attempts' = Append(attempts, NewAttempt(txn[s]))
  /\ UNCHANGED <<mandate, schedule>>

RejectDuplicateAttempt(s) ==
  /\ Close(s, "record")
  /\ ~NumberFree(txn[s].number)
  /\ UNCHANGED store

-----------------------------------------------------------------------------
(* PaymentService.mark_payment_success and mark_payment_failure *)

\* Mutant: no guard.
OutcomeUnguarded(row, status) == TRUE

\* _apply_outcome's only guard.
OutcomeAllowed(row, status) == row.status # "succeeded" \/ status = "succeeded"

\* time: next_retry_at, or now + 24h when the caller gives none.
BeginOutcome(s, a, status, category, time) ==
  /\ a \in DOMAIN attempts
  /\ OutcomeAllowed(attempts[a], status)
  /\ Open(s, [op |-> "outcome", attempt |-> a, status |-> status, time |-> time,
              write |-> [status   |-> Changed(attempts[a].status, status),
                         category |-> IF status = "failed"
                                      THEN Changed(attempts[a].category, category)
                                      ELSE None]])
  /\ UNCHANGED store

RowLocked(a) == \E s \in Sessions : txn[s].op = "flushed" /\ txn[s].attempt = a

\* _resolve_active_retry_schedule
ResolvePlan(plan) ==
  [insert |-> FALSE,
   plan   |-> IF plan # None /\ plan.status \notin TerminalRetryStatus
              THEN [NoWrite EXCEPT !.status = "executed"]
              ELSE NoWrite]

\* Mutant: reactivates a schedule, never creates the first one.
EnsureExistingPlan(plan, time) ==
  [insert |-> FALSE,
   plan   |-> IF plan # None /\ plan.status \in TerminalRetryStatus
              THEN [status |-> "pending", count |-> Changed(plan.count, 0),
                    max |-> None, time |-> time]
              ELSE NoWrite]

\* Mutant: creates the first schedule, never reactivates it.
EnsureFirstPlan(plan, time) ==
  [insert |-> plan = None,
   plan   |-> IF plan = None
              THEN [status |-> "pending", count |-> 0,
                    max |-> DefaultMaxRetries, time |-> time]
              ELSE NoWrite]

\* Mutant: every failure starts the schedule over, active or not.
EnsureFreshPlan(plan, time) ==
  [insert |-> plan = None,
   plan   |-> [status |-> "pending", count |-> 0, time |-> time,
               max |-> IF plan = None THEN DefaultMaxRetries ELSE None]]

\* _ensure_active_retry_schedule
EnsurePlan(plan, time) ==
  IF plan = None
  THEN [insert |-> TRUE,
        plan   |-> [status |-> "pending", count |-> 0,
                    max |-> DefaultMaxRetries, time |-> time]]
  ELSE [insert |-> FALSE,
        plan   |-> IF plan.status \in TerminalRetryStatus
                   THEN [status |-> "pending", count |-> Changed(plan.count, 0),
                         max |-> None, time |-> time]
                   ELSE NoWrite]

PlanEffect(t, plan) ==
  IF t.status = "succeeded" THEN ResolvePlan(plan) ELSE EnsurePlan(plan, t.time)

FlushOutcome(s) ==
  /\ txn[s].op = "outcome"
  /\ ~RowLocked(txn[s].attempt)
  /\ LET effect == PlanEffect(txn[s], schedule) IN
     txn' = [txn EXCEPT ![s] = [op |-> "flushed", attempt |-> @.attempt,
                                status |-> @.status, write |-> @.write,
                                insert |-> effect.insert, plan |-> effect.plan]]
  /\ UNCHANGED store

ApplyOutcome(row, w) == [row EXCEPT !.status = Written(@, w.status),
                                    !.category = Written(@, w.category)]

\* The schedule a flushed outcome leaves behind.
PlanAfter(t) ==
  IF t.insert THEN t.plan
  ELSE IF schedule = None THEN None ELSE ApplyPlanWrite(schedule, t.plan)

CommitOutcome(s) ==
  /\ Close(s, "flushed")
  /\ ~(txn[s].insert /\ schedule # None)
  /\ attempts' = [attempts EXCEPT ![txn[s].attempt] = ApplyOutcome(@, txn[s].write)]
  /\ schedule' = PlanAfter(txn[s])
  /\ UNCHANGED mandate

\* Two sessions insert the mandate's first schedule: the later one breaks the
\* UNIQUE on mandate_id and its whole transaction, outcome included, is undone.
RejectDuplicatePlan(s) ==
  /\ Close(s, "flushed")
  /\ txn[s].insert /\ schedule # None
  /\ UNCHANGED store

-----------------------------------------------------------------------------
(* RetryService *)

BeginCreatePlan(s, max, time) ==
  /\ mandate = "active"
  /\ Open(s, [op |-> "create", row |-> [status |-> "pending", count |-> 0,
                                        max |-> max, time |-> time]])
  /\ UNCHANGED store

CommitCreatePlan(s) ==
  /\ Close(s, "create")
  /\ schedule' = IF schedule = None THEN txn[s].row ELSE schedule
  /\ UNCHANGED <<mandate, attempts>>

\* ck_retry_schedule_count_within_max
WithinMax(plan) == plan.count <= plan.max

\* The columns update_retry_schedule sets, for a session that loaded `plan`.
PlanColumns(plan, edit) ==
  [status |-> Changed(plan.status, Written(plan.status, edit.status)),
   count  |-> Changed(plan.count, Written(plan.count, edit.count)),
   max    |-> Changed(plan.max, Written(plan.max, edit.max)),
   time   |-> edit.time]

BeginUpdatePlan(s, plan, edit) ==
  /\ plan # None
  /\ WithinMax(ApplyPlanWrite(plan, edit))
  /\ Open(s, [op |-> "update", write |-> PlanColumns(plan, edit)])
  /\ UNCHANGED store

\* Mutant: no CHECK (retry_count <= max_retries).
CommitUpdateUnchecked(s) ==
  /\ Close(s, "update")
  /\ schedule # None
  /\ schedule' = ApplyPlanWrite(schedule, txn[s].write)
  /\ UNCHANGED <<mandate, attempts>>

CommitUpdatePlan(s) ==
  /\ Close(s, "update")
  /\ schedule # None
  /\ WithinMax(ApplyPlanWrite(schedule, txn[s].write))
  /\ schedule' = ApplyPlanWrite(schedule, txn[s].write)
  /\ UNCHANGED <<mandate, attempts>>

\* Another session lowered max_retries after this one validated its count.
RejectUpdatePlan(s) ==
  /\ Close(s, "update")
  /\ schedule = None \/ ~WithinMax(ApplyPlanWrite(schedule, txn[s].write))
  /\ UNCHANGED store

-----------------------------------------------------------------------------

\* A failed or killed session: _in_transaction rolls back, nothing is written.
Rollback(s) ==
  /\ txn[s] # Idle
  /\ txn' = [txn EXCEPT ![s] = Idle]
  /\ UNCHANGED store

\* recommended_time is reached.
RetryComesDue ==
  /\ schedule # None
  /\ schedule.time = "later"
  /\ schedule' = [schedule EXCEPT !.time = "due"]
  /\ UNCHANGED <<mandate, attempts, txn>>

\* Every way an open transaction ends.
Finish(s) ==
  \/ CommitTransition(s)
  \/ CommitRecord(s)     \/ RejectDuplicateAttempt(s)
  \/ CommitOutcome(s)    \/ RejectDuplicatePlan(s)
  \/ CommitCreatePlan(s)
  \/ CommitUpdatePlan(s) \/ RejectUpdatePlan(s)

\* PATCH of a mandate, and its DELETE, which cancels.
MandateRequest(s) ==
  \E target \in DOMAIN AllowedFrom : BeginTransition(s, target)

\* POST of an attempt, PATCH of its outcome.
AttemptRequest(s) ==
  \/ \E order \in OrderOutcomes : BeginRecord(s, order)
  \/ \E a \in DOMAIN attempts : BeginOutcome(s, a, "succeeded", NoDecline, "later")
  \/ \E a \in DOMAIN attempts, c \in Categories, time \in PlanTime :
       BeginOutcome(s, a, "failed", c, time)

\* POST and PATCH of the schedule.
ScheduleRequest(s) ==
  \/ \E max \in 0..DefaultMaxRetries, time \in PlanTime : BeginCreatePlan(s, max, time)
  \/ \E edit \in PlanEdits : BeginUpdatePlan(s, schedule, edit)

Begin(s) == MandateRequest(s) \/ AttemptRequest(s) \/ ScheduleRequest(s)

Next ==
  \/ \E s \in Sessions : Begin(s) \/ FlushOutcome(s) \/ Finish(s) \/ Rollback(s)
  \/ RetryComesDue

Spec == Init /\ [][Next]_storeVars

-----------------------------------------------------------------------------
(* What holds however the sessions' transactions overlap. *)

\* Every row holds values of its column types, and an open outcome names a row.
TypeOK ==
  /\ mandate \in MandateStatus
  /\ attempts \in Seq(AttemptRow)
  /\ schedule \in PlanRow \union {None}
  /\ txn \in [Sessions -> TxnState]

\* The retry budget: no interleaving of update_retry_schedule validations,
\* reactivations and PATCHes leaves retry_count above max_retries.
CountWithinMax == schedule # None => WithinMax(schedule)

\* Attempts are numbered 1, 2, 3, ... without a gap or a repeat, although every
\* session computes the next number from its own earlier read.
NumbersGapless == \A i \in DOMAIN attempts : attempts[i].number = i

\* "every failure gets followed up on": no failed attempt without a schedule row,
\* whichever of two sessions inserts the first one.
FailureHasPlan ==
  (\E i \in DOMAIN attempts : attempts[i].status = "failed") => schedule # None

-----------------------------------------------------------------------------
(* What one call promises, and keeps as long as no other transaction       *)
(* overlaps it, that is with a single session.                             *)

Outcomes == [i \in DOMAIN attempts |-> attempts[i].status]

PlanView == IF schedule = None THEN "none"
            ELSE IF schedule.status \in ActiveRetryStatus THEN "active" ELSE "closed"

Contract == INSTANCE RecoveryContract WITH outcome <- Outcomes, plan <- PlanView

\* With one session, begin-flush-commit implements the one-step calls of the
\* contract: every transaction takes effect as if it ran alone.
ContractSpec == Contract!Spec

\* "A successful payment attempt cannot be changed": no commit turns a succeeded
\* attempt into anything else.
SucceededFinal ==
  [][\A i \in DOMAIN attempts :
       attempts[i].status = "succeeded" => attempts'[i].status = "succeeded"]_storeVars

\* "It's mid-cycle, and its own retry_count/recommended_time must not be reset out
\* from under it": a commit that records a failure leaves an active plan as it is.
FailureKeepsActivePlan ==
  [][\A i \in DOMAIN attempts :
       /\ attempts[i].status # "failed" /\ attempts'[i].status = "failed"
       /\ schedule # None /\ schedule.status \in ActiveRetryStatus
       => schedule' = schedule]_storeVars
=============================================================================
