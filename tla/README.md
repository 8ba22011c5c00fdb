# Redial: a TLA+ model of payment recovery

Redial collects recurring payments (mandates), records the outcome of each
attempt, and recovers the failed ones: a background job runs a decision
workflow for every mandate whose retry is due, which books the next attempt,
notifies, escalates, or gives up. Gateway webhooks and, in development, a
settlement job report what became of the attempts. This directory models all of
that and checks it with TLC on small instances. Every safety property the runs
check is also proved with TLAPS, for any values of the constants; only the
liveness properties rest on the runs alone.

Paths below are relative to `src/backend/app/` unless they start with `src/`.

## 1. Inventory

| Component | Keeps | Operations | Right when |
|---|---|---|---|
| Mandate service (`services/mandate_service.py`) | `mandates.status` | register, activate, pause, cancel | only the listed transitions; cancelled is final |
| Payment service (`services/payment_service.py`) | `payment_attempts` (number, status, decline category, order) | record attempt, mark success, mark failure; the last two also resolve, create or reactivate the schedule | numbers gapless; a success is final; every failure is followed up; an active schedule is not reset |
| Retry service (`services/retry_service.py`) | `retry_schedules`, at most one row per mandate | create, update, list due | `retry_count <= max_retries` |
| Transactions (`services/base_service.py`, `repositories/base_repository.py`) | one SQLAlchemy session per request or job | commit together or roll back | nothing partial |
| Decision engine (`decision_engine/`) | nothing | retry allowed?, escalation type, channel, priority | terminal declines agree everywhere; never a retry over an attempt in flight |
| Workflow (`workflow/`, `services/workflow_runner_service.py`) | the context of one run | read, decide, communicate, escalate, book or close, persist | one charge at a time; budget kept; no silent giving up |
| Jobs (`scheduler/jobs.py`, `scheduler/settlement.py`) | nothing between ticks | run due retries; settle unresolved attempts (development) | no plan stays due for ever |
| Escalation service (`services/escalation_service.py`) | open and resolved escalations | create, resolve | at most one open per mandate |
| Webhook ingestion (`services/razorpay_service.py`, `api/routes/webhooks.py`) | `webhook_events` with a unique key per provider, event type and entity | verify, dedupe, apply, record, rerun the workflow | applied exactly once, never lost |
| Razorpay client (`payments/razorpay_client.py`) | nothing | create order, with retries | no duplicate orders |
| Orchestrator and AI service (`orchestration/`, `llm/`, `prompts/`) | traces | enrich a decision, fall back without it | the deterministic decision is never altered |
| Execution records (`services/workflow_execution_service.py`) | the latest execution of each mandate and its nodes | upsert twice per run, failed runs too | a row says how the run ended; the timeline is complete |
| Scheduler (`scheduler/scheduler.py`, `main.py`) | one process-wide scheduler | start, stop | jobs never overlap themselves; one broken mandate blocks no other |
| Seed data (`services/dev_seed_service.py`) | demonstration mandates | seed by scenario, delete | leaves what the services promise intact |
| Schema bootstrap (`src/backend/init_db.py`, `src/alembic/`) | the schema and its version | wait, create and stamp, or upgrade | a server never runs on a partial schema |
| Communication and decision log services | append-only rows | record | an AI decision is logged exactly when a run used one |
| Dashboard, HTTP layer, configuration, frontend | - | read, translate | - |

**How they meet.** Synchronous routes run concurrently in a thread pool, each
with its own session. Webhook handlers are `async` without an await between the
database calls, so they serialise among themselves on the event loop. The two
jobs run in scheduler threads, each with `max_instances=1`. Everything else they
share is the database: PostgreSQL at READ COMMITTED, no `SELECT ... FOR UPDATE`
anywhere, so what protects a rule is a constraint, a row lock taken by an
UPDATE, or nothing. SQLAlchemy adds two effects: an UPDATE writes only the
columns whose value differs from the one the session loaded, and a session keeps
the rows it loaded until it commits or rolls back, even if it selects them again.

**What is hard.** Two transactions that each read before the other commits; a
workflow run that is a dozen transactions long and decides from a snapshot; a
process that dies between two of them; outcomes that arrive late or twice. The
hazards in `PROJECT.json` name the line where each bites.

## 2. Modules

| Module | Models |
|---|---|
| `RecoveryTypes` | enums, row types, and what one UPDATE writes |
| `RecoveryStore` | mandate, payment and retry services on one mandate, as overlapping transactions |
| `RecoveryContract` | abstract: what those services promise, one step per call |
| `RetryPolicy` | the pure decisions: retry allowed, remaining attempts, escalation, close-out status |
| `RecoveryWorkflow` | `RecoveryStore` composed with runs of the workflow, the jobs and the operators |
| `RazorpayClient` | the retry loop of `POST /orders`, and the orders the gateway then holds |
| `WebhookIngestion` | `RecoveryWorkflow` composed with `RazorpayClient` and the webhook route |
| `MandateBooks` | the rows of several mandates, and what one service call commits to them |
| `AiDecision` | the decision node: deterministic policy, provider retries, fallback |
| `SchemaBootstrap` | container start: schema preparation, then the server |
| `RetryBatch` | the retry job over several mandates, node by node, with its execution rows; uses the three above |
| `DevSeed` | development: `RetryBatch` beside the settlement job, the seeding scenarios, restarts |
| `MCRecoveryStore`, `MCRecoveryWorkflow`, `MCWebhookIngestion`, `MCDevSeed` | instances for TLC |
| `RecoveryStore_proofs`, `RecoverySerial_proofs`, `RecoveryWorkflow_proofs`, `RecoveryOneRunner_proofs`, `WebhookIngestion_proofs`, `DevSeed_proofs`, `DevBooks_proofs`, `DevScenarios_proofs` | theorems and proofs (section 4) |

**RecoveryStore.** The rows of one mandate (`mandate`, `attempts`, `schedule`)
and, per session, the transaction it has open (`txn`). Mandates share no rows, so
one is enough for every rule here. A service call is two actions: `Begin...`
makes the call's reads and checks, `Commit...` makes its writes visible, and
between the two any other session may commit. What the database refuses at the
end is an action of its own (`RejectDuplicateAttempt`, `RejectDuplicatePlan`,
`RejectUpdatePlan`), and so is `Rollback`, which also stands for a killed session.
An attempt outcome has a third step, `FlushOutcome`: the code updates the attempt
first and reads the schedule afterwards, when the attempt row is already locked,
so two outcomes of one attempt queue up there (`RowLocked`), each with a check of
the attempt that was made before.

**RecoveryWorkflow.** `run[r]` is where a run is and the context it took.
`Start` is the job picking a due schedule (`PickDueRetry`), or a rerun of any mandate
(`RunWorkflow`: a webhook delivery, `POST /dev/workflows/run`). `ReadPlan` and `ReadContext` are the two
reads of `run_for_mandate`; a job may still see the schedule as it picked it,
because its session kept the row. `CheckEscalations` and `CreateEscalation` are
separate transactions, as in `escalation_node`. Then the run books an attempt
(`BookAttempt`, `AttemptBooked` or `BookingLost`, `BookingRefused`) and counts it
(`AdvancePlan`, `PlanUpdated`, `AdvanceRefused`), or closes the plan (`ClosePlan`).
`RunFails` is a database error or a dead process at any point. `Callers` are the
request threads and the settlement job, doing what `CallerOps` lists.
`spent` and `failures` are history variables, read only by properties and the
bound `MaxFailures`.

**WebhookIngestion.** A request thread records attempts through a client that
asks the gateway for an order inside the transaction (`RequestOrder`,
`GatewayStep`, `LinkOrder`, `RecordCommitted`); a try whose answer is lost may have
made an order nobody here knows (`orphans`). `handler` is the one delivery being
handled: the route is a coroutine without an await after the body, and the
container runs one process. `Deliver` may repeat any event, acknowledged or not, in
any order; `LookUp` is the dedupe query, `Unmatched`/`NotApplied`/`Apply` the
matching, `FlushEvent`/`CommitEvent` the outcome that `PaymentService` commits on
its own, `RecordEvent` the event's row in a second commit, `Rerun`/`RerunStep` the
workflow run, `Acknowledge` the 200. `DeliveryFails` is a database error or a dead
process between any two of them. Type and order stand for the dedupe key; order 0
is an envelope without entity id, whose key every such envelope shares.

**RetryBatch and DevSeed.** Here a call of a service is the step that commits it
(`MandateBooks`; how the calls of one mandate overlap in full is `RecoveryStore`'s
subject), and what counts is the sequence of commits a batch makes in one session.
An outcome is the exception: it is checked against the copy of the attempt that its
session read in an earlier step (`MayFail(seen)`), and writes the columns in which it
differs from that copy (`Marked`). The schedule is read in the step that commits. `job` is the batch: the
mandates left (`todo`), the run under way (`of`, `pc`, `ctx`, `decision`, the length
of its `history`), whether the due schedules are still as they were read (`fresh`),
and whether a failed statement was never rolled back (`broken`). `Tick` reads the
due schedules, `Pick` touches the next one, which raises when its row is gone or
the session is broken (`BatchAborts`). A run goes through the six nodes; `Decide`
takes `AiDecision`'s outcome, `Persist` and `Finish` are the two writes of the row,
`LogDecision` the decision log. Any step that reaches the database may fail
(`StepFails`) or be refused (`StepRefused`); then `RecordFailure` writes the failed
row, or cannot (`FailureUnrecorded`, `FailureFailsAgain`). `executions` holds the one
row a mandate has, `ended` what really happened.

`DevSeed` adds the settlement job. `settling` holds the attempts it has listed and not
reached (`todo`), the one whose turn it is (`of`), and the session's copy of that row
(`seen`): the first attempt is decided on as the listing loaded it (`SettlementTick`),
every further one as it is read again after the commit or rollback that ended the turn
before (`TakeAttempt`). `Settle` writes the outcome whatever the row has become
meanwhile; `NotSettled` is a decline of a copy that is paid, or a database error;
`SettlementAborts` is a row that is gone. The scenarios are sequences of service calls
that each commit (`SeedRegister`, `SeedStep`, `SeedStepVoid`, `SeedAborts`); before an
outcome the scenario reads its attempt again in a step of its own (`SeedLooks`). Then
there are the deletion of what was seeded, the passing of time, and
the process: `Shutdown` lets the batch under way finish (`wait=False`), `KillAll`
takes everything with it, and `Restart` goes through `init_db` again
(`SchemaBootstrap`: `WaitForDatabase`, `UpgradeSchema` or `BeginBaseline` and
`EndBaseline`, `Serve`).

**Abstractions.** `recommended_time` is `"later"` or `"due"`. Amounts, messages,
strategy names, payment ids and decision texts are left out. Of an escalation only
that it is open is kept, of a communication only that recording it is a commit that
may fail; `RecoveryWorkflow` leaves out execution rows, `RetryBatch` has them. Of
the provider's answer only whether it is usable and whether it recommends a retry is
kept. The settlement job's two-minute cutoff is left out: it takes any unresolved
attempt. The decision and communication rows of the scenarios and their backdated
timestamps are left out.

## 3. Runs

| Run | Question | Instance | States |
|---|---|---|---|
| `StoreOverlap` | do the rows stay consistent however two sessions overlap? | 2 sessions, 2 attempts, 4 kinds of edit | 575 000 |
| `StoreSerial` | does one session at a time keep the contract? | 1 session, 2 attempts, 2 decline categories | 172 000 |
| `JobAlone` | is recovery right when only the job runs the workflow? | 1 job, 1 caller who may also create the schedule, 4 attempts, budget 0 to 2, 2 failures, 3 categories | 119 000 |
| `JobAndRerun` | what still holds with a rerun beside the job? | 1 job, 1 rerun, 1 caller, 2 attempts, budget 1, edits and resolutions | 110 000 |
| `Webhooks` | are events answered, applied once and never lost, and do recordings end? | 1 recording thread, the handler, 2 attempts, 2 orders, 2 of 3 events, 1 provider retry, 1 mishap | 183 000 |
| `Batches` | do batches end, is every due mandate handled, do rows tell the truth? | 1 overdue mandate and 1 being seeded in flight, 2 attempts, budget 1, 1 provider retry, 1 mishap | 215 000 |
| `Demonstrations` | is the schema whole wherever scenarios and jobs run, on any initial database? | 1 demonstration mandate, 6 scenarios, 4 databases, otherwise as above | 1 542 000 |
| `LateOutcome`, `DoubleCharge`, `TwoEscalations`, `InFlightClosed`, `SilentDecline` | five promises of comments and messages the code does not keep | smallest instance that shows it | - |

What they show. With the constraints the tables have, no interleaving breaks the
rows: numbers stay gapless (`NumbersGapless`), the budget columns consistent
(`CountWithinMax`), and a failed attempt never goes without a schedule
(`FailureHasPlan`), even when the loser of a race is rolled back. One session at
a time refines `RecoveryContract`. With the retry job as the only runner the
workflow books a retry only over a resolved failure (`BooksOnlyAfterFailure`,
`OneInFlight`), keeps its budget up to one attempt per run that died before
counting (`BudgetKept`), opens one escalation (`OneOpenEscalation`), never gives
up for a merchant-side decline or lack of budget without one
(`GivingUpIsEscalated`), and leaves no plan due for ever (`DuePlanHandled`).

Webhooks: an event the gateway was told has arrived is in the table with a good
signature (`NothingDropped`); a row without error was applied (`ProcessedMeansApplied`)
even when the process died between the two commits, at the price of a second
application per such death (`AppliedOnce`); each delivered event that names its
entity is acknowledged in the end, unless a badly signed delivery took its key
(`EventsAnswered`); a recording ends whatever the gateway does (`RecordingEnds`), and
an order that belongs to no attempt is explained by a lost answer or a rollback
(`OrphansExplained`).

Batches: they end (`BatchEnds`), and every due mandate is handled by this one or a
later one (`EveryDueMandateHandled`). A recorded failure blocks no other mandate; what
does is a mandate deleted mid-batch or a failure that could not be recorded
(`RecordedFailuresBlockNobody`). A plan closed as executed has a paid attempt and one
closed as exhausted has spent its budget (`PlansTellTheTruth`); a closed plan is taken
up again only by an attempt that fails, not by the run that counts what it booked
(`ClosedPlansStayClosed`). A run that raised is listed as failed and one that
returned as completed (`RecordTellsOutcome`); a completed row short of nodes belongs
to a run still going or cut off (`CompletedMeansAllNodes`); the row and the decision
log agree on the AI's help (`AiRunsLogged`); the answer of the provider never decides
(`AIOnlyExplains`). In development every attempt is settled (`AttemptsSettled`).

Demonstrations: a server has every table and column (`ServedSchemaIsWhole`), whenever an
earlier start was killed, and the rows keep their types through every scenario.

The violations mark where that stops. Two overlapping outcomes can turn a success
into a failure (`LateOutcome`). A rerun beside the job can double a charge
(`DoubleCharge`) and an escalation (`TwoEscalations`). A plan whose attempt is
still in flight is closed as cancelled, although the comment there calls every
such reason terminal (`InFlightClosed`). `authentication_required` stops retries
and is escalated to nobody (`SilentDecline`).

**Bounds.** Two sessions are the least that overlap, and every rule here relates
two transactions; the proofs lift the row invariants to any number. Two attempts
let an outcome of an older attempt meet a newer one. A budget of 2 distinguishes the last retry
from the one before it, and 4 attempts let a plan run out, be reactivated and run
again. The `count` edit writes 2 and the `max` edit 1 so that each alone is legal
and the two together are not. In the workflow runs nobody reports an outcome twice
(`"settle"` resolves only unresolved attempts): `LateOutcome` shows what a late
report does, and it would break `BooksOnlyAfterFailure` by changing an attempt
under a run. A schedule created by hand may have a budget of 0, the only way a
plan without schedule edits is due with nothing left to spend (`GivingUpIsEscalated`).

Three things `JobAlone` keeps apart, each of which would break one of its
properties in the code too. Operators do not record further attempts (`"collect"`
is the first one only) and create a schedule only once there is an attempt: an
operator's attempt racing the job's is `DoubleCharge` with another second actor.
They do not edit the schedule: lowering `max_retries` between a booking and its
count leaves one booked attempt above the new maximum, which `JobAndRerun`
contains (`AdvanceRefused`) without claiming `BudgetKept`. Runs stop starting at `MaxAttempts`; `DuePlanHandled` therefore
accepts reaching it. `CHECK_DEADLOCK FALSE` is set everywhere: once the attempts
are used up and every plan is closed nothing need happen.

`Webhooks` has two orders so that a retried request can leave one behind, and events
of the first only; one event fails and one succeeds for the same attempt, so they
contend, and the third has no entity. One mishap is one database error, bad
signature, or crash, at every point in turn; `MAX_RETRIES` 1 distinguishes the last
try from the one before. The rerunner is the handler alone, as `JobAndRerun` has
already overlapped runs. `Batches` needs two mandates, so that one can break the
session under the other, and plays the in-flight scenario, the one whose attempts
settlement races; it starts with a finished schema, the other databases are
`Demonstrations`'. `MaxFailures` counts database errors, shutdowns and kills
together, `MaxAttempts` stops new runs. `AIConfigured` is `TRUE`: a provider that
cannot be constructed behaves like one that raises at once. Seeding registers the
demonstration mandate once, and time does not pass while it runs: a retry is hours
away, a request takes seconds.

`PlansTellTheTruth` and `ClosedPlansStayClosed` are about the mandates no scenario writes
to. For the demonstration mandate neither holds while a scenario and a job both write to
it, and the model contains why. Its attempts are backdated, so the settlement job may list
one between its recording and its outcome; its decline, decided on the copy, then
replaces the success committed since (the race of `LateOutcome`), and the scenario closes
the plan as executed with nothing paid. A plan can be left exhausted with budget to spend.
The in-flight scenario writes `processing` past the guard, over a success too.

**Fairness.** Weak fairness of the job's `Start` and of its steps: the interval
trigger keeps ticking and a started job is a running thread. Weak fairness of a
caller's open transaction: a request that began ends. None on calls, time, or
reruns. `DuePlanHandled` further assumes that the mandate is not paused and
resumed for ever, which can make every booking of the job fail just in time.

In `Webhooks`: weak fairness of the handler's and a recording's steps (requests have
time-outs), strong fairness of the redelivery of an unacknowledged event, which the
gateway repeats but which waits for the handler to be free. In `Batches`: weak
fairness of both ticks and of the steps of what they started, of a seeding request
under way, and of `Restart`. The compose file declares no restart policy, so that a
stopped container is started again, and that the database answers within the 30
tries of `wait_for_database`, is an assumption on the operator, made by
`EveryDueMandateHandled`, `BatchEnds` and `AttemptsSettled`. Nobody has to seed or
delete.

## 4. Proofs

| Module | Extends | Proves |
|---|---|---|
| `RecoveryStore_proofs` | `RecoveryStore` | `TypeOK`, `CountWithinMax`, `NumbersGapless`, `FailureHasPlan` |
| `RecoverySerial_proofs` | the above | `ContractSpec` (refinement), `SucceededFinal`, `FailureKeepsActivePlan`, for one session |
| `RecoveryWorkflow_proofs` | `RecoveryWorkflow`, `RecoveryStore_proofs` | `WTypeOK`, and the row invariants of `RecoveryStore` with runs beside the callers |
| `RecoveryOneRunner_proofs` | the above | `OneOpenEscalation`, `OneInFlight`, `BooksOnlyAfterFailure`, `BudgetKept`, `GivingUpIsEscalated` |
| `WebhookIngestion_proofs` | `WebhookIngestion`, `RecoveryWorkflow_proofs` | `HTypeOK`, `NothingDropped`, `ProcessedMeansApplied`, `AppliedOnce`, `OrphansExplained`, and the row invariants with webhooks |
| `DevSeed_proofs` | `DevSeed` | `ServedSchemaIsWhole`, `RecordTellsOutcome`, `CompletedMeansAllNodes`, `AiRunsLogged`, `AIOnlyExplains`, `RecordedFailuresBlockNobody` |
| `DevBooks_proofs` | the above | lemmas: what a service call makes of a mandate's rows, and what the retry job relies on |
| `DevScenarios_proofs` | the above | `PlansTellTheTruth`, `ClosedPlansStayClosed`, `DevTypeOK` |

None of the invariants is inductive as it stands, and for one reason throughout:
a step writes what an earlier step read. Each proof therefore carries an invariant
that says what is still true of the earlier reading; it has one lemma or step per
action.

**Store.** `IInv` adds to the four invariants what open transactions promise
(`SessionsOK`): a schedule that is inserted or reactivated has a count its max
allows, an open outcome names an existing attempt, a number to be recorded is at
most one more than the attempts there are, and an outcome flushed as a failure
without inserting found a schedule, which is never deleted.

**Serial store.** With `OneSession`, `SerialInv` says that the open transaction's
reads are still true: what it saw is what it will overwrite. That is exactly what a
second session takes away, and what `LateOutcome` shows.

**Workflow.** `WInv` adds to `IInv` that a run which books or counts decided so from
a schedule. This is enough for the rows, for any number of runs.

**One runner.** What a run found must still decide when it acts, which no proof can
show beside a second run: `DoubleCharge` and `TwoEscalations` are the counterexamples.
The theorems name the premises they need, and no more, as hypotheses:

| Property | Premises | Invariant beside `WInv` |
|---|---|---|
| `OneOpenEscalation` | `OneRunner` | `EscalationInv`: a run about to escalate found none open, and none is |
| `OneInFlight` | `OneRunner` | `FlightInv`: all attempts but the last are resolved, and the last too when a run is about to book; a schedule implies an attempt, so that `"collect"` cannot race a run |
| `BooksOnlyAfterFailure` | `OneRunner`, `OneSettler` | `FailedInv`: also, the failure a run found is still a failure, since an outcome being committed is of an unresolved attempt |
| `BudgetKept` | `OneRunner`, `NobodyEdits` | `BudgetInv`: attempts booked are counted, but for one by the run under way and one per run that died; the plan of a run's context has the row's max, and the row's count is not ahead of it; callers change the count only by starting the budget over |
| `GivingUpIsEscalated` | `NobodyResolves` | `ToldInv`: a run past its escalation node has told someone what its context calls for |

`OneRunner` is the deployment without manual reruns and webhooks: one retry job with
`max_instances=1`. `JobAlone` is an instance that satisfies all four premises.

**Webhooks.** `HInv` joins `WInv` with `OrderInv` and `EventInv`. `EventInv` says what
the handler stands on at each of its steps (`HandlerOK`: only an event without a row is
matched and applied, only one with a row is acknowledged), and bounds the
applications of an event by the failures plus one, by the failures alone while the
event has no row and its handler is not about to write one (`AppliedInv`). `OrderInv`
says that no order is in two hands, so that an order leaves the known ones exactly when
it is counted as orphaned.

**Records and schema.** `SchemaInv` follows the version table: it never promises more
than the tables hold. `RunInv` ties a mandate's execution row to the node its run is at
(`RecordOf`), the history and the decision to the program counter (`JobInv`), and
`ended` to the row. `BrokenSession` says that a session is broken only between two runs
and only after a failure nobody could record.

**Books.** What a plan says is one mandate's rows, and to keep it true every actor that
writes them must find what it relies on. Two invariants say so. `BookInv` is about every
mandate: `BooksOfJob` (an exhausted plan has spent its budget, any other has some left; a
mandate of the batch has a plan, and nobody exhausts it before its own run does; the
budget's limit a run read is still so), `SettlingOK` (what the settlement job has in hand
exists), and `SeedOK` (the scenario being played is a suffix of a script, and the
demonstration mandate's rows are what its next step presumes, `DemoBook`, whatever the
jobs do between the steps). `WellMade` is what the proof needs of a script;
`ScriptsWellMade` shows it of the six in the code; of a seventh nothing else would have to
be shown. It claims nothing of what an outcome finds: a copy may be stale.

`HonestInv` is about the mandates that no scenario writes to, and says where copies are
not stale: an attempt the settlement job has in hand is still unresolved, and the copy of
the one whose turn it is is the row; a run that read a paid attempt may rely on it; an
executed plan has a paid attempt. It holds because nobody else resolves their attempts in
development. `Tame` is what every other step makes of such a book, `Resolves` what the
settlement makes of it; `ClosedPlansStayClosed` follows from the two, `PlansTellTheTruth`
from `HonestInv` and the budget part of `BookInv`. A second resolver of the same attempts
takes `HonestInv` away, as a scenario does for its own mandate. `CallTypes` adds the
provider's calls for `DevTypeOK`.

**Assumptions.** `StoreAssumption`, `WorkflowAssumption`, `ClientAssumption`,
`WebhookAssumption`, `AiAssumption`, `BooksAssumption`, `BatchAssumption` and
`DevAssumption` say what kind of value each constant is, that bounds and budgets are
natural numbers, and who is a session. `DevAssumption` wants `SeedMaxRetries` positive
(the scenarios say `max_retries=3`): they also write a count of 1.
The `NoneIsNo...` assumptions (row, status, count, event row, run, decision, book) say
that `None` is none of the values it stands beside. TLC evaluates all of them.

**Only model-checked.** `DuePlanHandled`, `RecordingEnds`, `EventsAnswered`,
`BatchEnds`, `EveryDueMandateHandled` and `AttemptsSettled`: they need fairness, and
with it `ENABLED`, which is out of the prover's reach. The bounds `MaxAttempts`,
`MaxFailures` and `MaxOrders` remain in the models the theorems are about, as parameters
of any size.

## 5. Not modelled, and the plan

What is left, in order:

1. Escalation levels: the open low-level escalation that suppresses a later
   merchant-level one.
2. `POST /dev/workflows/run` as a batch of its own beside the job's, in `RetryBatch`
   (`RecoveryWorkflow` has its runs, one mandate at a time).
3. That `RetryBatch`'s one-step calls are what `RecoveryContract` promises: each call
   of `MandateBooks` as a step of the contract, proved.

Left out for good: the dashboard and the observability pages beyond the lists
`RetryBatch` defines (read-only aggregates), HTTP parsing and error translation,
configuration, prompt texts and the frontend, which hold no state of their own or
only present it; AI traces and process-local metrics, which no decision reads; the
provider calls no node makes (`generate_communication_suggestion`,
`generate_escalation_decision`, `fetch_payment`). A database created from models
older than the migration and never stamped is left out of `Databases`: `init_db`
takes it for a fresh one and stamps over the missing columns (see the hazards).
