------------------------------ MODULE RetryBatch ------------------------------
(***************************************************************************)
(* The retry job: the scheduler's ticks, the batch of due mandates each    *)
(* works off in one database session, the workflow run of each mandate     *)
(* node by node, and the execution row and decision log the run leaves.    *)
(*                                                                         *)
(* A run commits many times, and what it committed stays when a later step *)
(* fails.  A failed run rolls its session back and records itself; when    *)
(* that recording fails too, nothing rolls the session back any more, and  *)
(* the next statement of the batch raises PendingRollbackError.            *)
(***************************************************************************)
EXTENDS AiDecision, MandateBooks, SchemaBootstrap

CONSTANTS
  MaxAttempts,   \* bound: no tick picks a mandate with that many attempts
  MaxFailures    \* bound: database errors, and kills of the process

VARIABLES
  job,          \* the batch under way: what is left of it, and the run it is in
  executions,   \* the row of the latest run of each mandate, once it is written
  logged,       \* mandates whose latest run has its AI decision in the log
  ended,        \* history: how the latest run of each mandate ended
  failures      \* how much has gone wrong

batchVars == <<ask, book, server, job, executions, logged, ended, failures>>

ASSUME BatchAssumption == MaxAttempts \in Nat /\ MaxFailures \in Nat

\* NODE_SEQUENCE: context, decision, communication, escalation, persistence, observability.
Nodes == 6

\* What a row and its timeline say of a run.
Row == [status: {"completed", "failed"}, nodes: 0..Nodes, ai: BOOLEAN]

ASSUME NoneIsNoRun == None \notin Mandates /\ None \notin Row

NoContext == [mandate |-> "active", attempt |-> None, plan |-> None]

\* fresh: nothing was committed or rolled back since the due schedules were read;
\* broken: a failed statement was not rolled back.
NoJob == [pc |-> "idle", todo |-> {}, of |-> None, ctx |-> NoContext, decision |-> None,
          history |-> 0, fresh |-> TRUE, broken |-> FALSE]

BatchInit ==
  /\ AiInit
  /\ process = "down"
  /\ job = NoJob
  /\ executions = [m \in Mandates |-> None]
  /\ logged = {}
  /\ ended = [m \in Mandates |-> "never"]
  /\ failures = 0

At(pc) == job.pc = pc
Mishap == failures < MaxFailures /\ failures' = failures + 1
RowsUnchanged == UNCHANGED <<executions, logged, ended>>

-----------------------------------------------------------------------------
(* scheduler.py, and the lifespan of main.py that calls it *)

\* The next process starts when the last one is gone.
Startup ==
  /\ At("idle")
  /\ WaitForDatabase \/ EnsureSchemaAtHead \/ Serve
  /\ UNCHANGED <<ask, book, job, failures>> /\ RowsUnchanged

\* stop_scheduler: shutdown(wait=False) starts no further batch and lets this one run.
Shutdown ==
  /\ process = "up"
  /\ Mishap
  /\ process' = "down" /\ UNCHANGED schema
  /\ UNCHANGED <<ask, book, job>> /\ RowsUnchanged

\* At any time, init_db included.
Kill ==
  /\ process # "down"
  /\ Mishap
  /\ process' = "down" /\ UNCHANGED schema
  /\ job' = NoJob
  /\ ForgetCall
  /\ ended' = IF job.of = None THEN ended ELSE [ended EXCEPT ![job.of] = "cut"]
  /\ UNCHANGED <<book, executions, logged>>

-----------------------------------------------------------------------------
(* run_due_retries *)

Due(m) == Exists(m) /\ HasDuePlan(book[m]) /\ Len(book[m].attempts) < MaxAttempts

\* Mutant: a mandate whose last run failed is passed over.
SelectedUnlessFailed(m) ==
  Due(m) /\ (executions[m] # None => executions[m].status # "failed")

Selected(m) == Due(m)

Tick ==
  /\ process = "up" /\ At("idle")
  /\ \E m \in Mandates : Selected(m)
  /\ job' = [job EXCEPT !.pc = "pick", !.todo = {m \in Mandates : Selected(m)}]
  /\ UNCHANGED <<ask, book, server, failures>> /\ RowsUnchanged

\* schedule.mandate_id is read from the database again once the session has ended a
\* transaction; that is outside the try of the loop.
Readable(m) == job.fresh \/ (~job.broken /\ Exists(m))

Pick ==
  /\ At("pick")
  /\ \E m \in job.todo :
       /\ Readable(m)
       /\ job' = [job EXCEPT !.pc = "context", !.todo = @ \ {m}, !.of = m]
       /\ executions' = [executions EXCEPT ![m] = None]
       /\ logged' = logged \ {m}
       /\ ended' = [ended EXCEPT ![m] = "running"]
  /\ UNCHANGED <<ask, book, server, failures>>

\* ObjectDeletedError or PendingRollbackError leaves the loop.
BatchAborts ==
  /\ At("pick")
  /\ \E m \in job.todo : ~Readable(m)
  /\ job' = NoJob
  /\ UNCHANGED <<ask, book, server, failures>> /\ RowsUnchanged

BatchDone ==
  /\ At("pick") /\ job.todo = {}
  /\ job' = NoJob
  /\ UNCHANGED <<ask, book, server, failures>> /\ RowsUnchanged

-----------------------------------------------------------------------------
(* One run of the workflow: context, decision, communication, escalation, *)
(* persistence and observability node, and what the runner does after     *)

\* The graph's state, of which nothing but the context is known yet.
Started(ctx) == [job EXCEPT !.ctx = ctx, !.decision = None, !.history = 0]

AddHistory(state) == [state EXCEPT !.history = @ + 1]

\* A node of the graph is done; the next one is at pc.
Advance(state, pc) == AddHistory([state EXCEPT !.pc = pc])

TakeContext ==
  /\ At("context")
  /\ Exists(job.of)
  /\ job' = Advance(Started(ContextOf(book[job.of])), "decide")
  /\ UNCHANGED <<ask, book, server, failures>> /\ RowsUnchanged

AskProvider ==
  /\ At("decide") /\ AIConfigured
  /\ Prompt \/ ProviderStep
  /\ UNCHANGED <<book, server, job, failures>> /\ RowsUnchanged

Decide ==
  /\ At("decide") /\ AiSettled
  /\ job' = Advance([job EXCEPT !.decision = Finalize(job.ctx, ask)], "communicate")
  /\ ForgetCall
  /\ UNCHANGED <<book, server, failures>> /\ RowsUnchanged

\* After a commit the session's rows are read afresh.
Committed(state) == [state EXCEPT !.fresh = FALSE]

CommitTo(pc) == job' = Committed([job EXCEPT !.pc = pc])

\* The message to the customer, which no rule reads.
Communicate ==
  /\ At("communicate")
  /\ IF job.decision.channel = "none" THEN job' = Advance(job, "escalate")
     ELSE Exists(job.of) /\ job' = Advance(Committed(job), "escalate")
  /\ UNCHANGED <<ask, book, server, failures>> /\ RowsUnchanged

NoEscalationNeeded ==
  /\ At("escalate")
  /\ job.decision.escalation = "none" \/ (Exists(job.of) /\ HasOpen(book[job.of]))
  /\ job' = Advance(job, "act")
  /\ UNCHANGED <<ask, book, server, failures>> /\ RowsUnchanged

Escalate ==
  /\ At("escalate") /\ job.decision.escalation # "none"
  /\ Exists(job.of) /\ ~HasOpen(book[job.of])
  /\ book' = [book EXCEPT ![job.of] = Opened(@)]
  /\ job' = Advance(Committed(job), "act")
  /\ UNCHANGED <<ask, server, failures>> /\ RowsUnchanged

BookAttempt ==
  /\ At("act") /\ job.decision.retry
  /\ Exists(job.of) /\ MayRecord(book[job.of])
  /\ book' = [book EXCEPT ![job.of] = Recorded(@)]
  /\ CommitTo("advance")
  /\ UNCHANGED <<ask, server, failures>> /\ RowsUnchanged

\* Mutant: the last retry of the budget closes the plan as if it had been paid.
AdvancementExecutes(plan) ==
  [NoWrite EXCEPT !.count = plan.count + 1,
                  !.status = IF plan.count + 1 >= plan.max THEN "executed" ELSE @]

\* Mutant: the plan is made pending for the retry to come, whatever became of it.
AdvancementReopens(plan) ==
  [NoWrite EXCEPT !.count = plan.count + 1, !.status = "pending", !.time = "later"]

Advancement(plan) ==
  IF plan.count + 1 >= plan.max
  THEN [NoWrite EXCEPT !.count = plan.count + 1, !.status = "exhausted"]
  ELSE [NoWrite EXCEPT !.count = plan.count + 1, !.time = "later"]

AdvancePlan ==
  /\ At("advance") /\ Exists(job.of)
  /\ book' = [book EXCEPT ![job.of] = Planned(@, Advancement(job.ctx.plan))]
  /\ CommitTo("persist")
  /\ UNCHANGED <<ask, server, failures>> /\ RowsUnchanged

ClosePlan ==
  /\ At("act") /\ ~job.decision.retry /\ Exists(job.of)
  /\ LET closed == [NoWrite EXCEPT !.status = CloseOutStatus(job.ctx)]
     IN book' = [book EXCEPT ![job.of] = Planned(@, closed)]
  /\ CommitTo("persist")
  /\ UNCHANGED <<ask, server, failures>> /\ RowsUnchanged

\* Mutant: the status is that of the graph's state, which knows of no failure.
PersistedAsCompleted(status, nodes) ==
  [status |-> "completed", nodes |-> nodes, ai |-> status = "completed" /\ job.decision.ai_used]

\* persist_workflow, for a state with that many entries in its history.
Persisted(status, nodes) ==
  [status |-> status, nodes |-> nodes, ai |-> status = "completed" /\ job.decision.ai_used]

Write(row) == executions' = [executions EXCEPT ![job.of] = row]

\* The persistence node writes the row before it is in the history itself; the
\* observability node, which follows, touches no row.
Persist ==
  /\ At("persist") /\ Exists(job.of)
  /\ Write(Persisted("completed", job.history))
  /\ job' = Advance(Advance(Committed(job), "observe"), "finish")
  /\ UNCHANGED <<ask, book, server, logged, ended, failures>>

\* Mutant: the runner leaves the row as the persistence node wrote it.
FinishUnwritten ==
  /\ At("finish") /\ Exists(job.of)
  /\ CommitTo("log")
  /\ UNCHANGED <<ask, book, server, logged, ended, failures, executions>>

Finish ==
  /\ At("finish") /\ Exists(job.of)
  /\ Write(Persisted("completed", job.history))
  /\ CommitTo("log")
  /\ UNCHANGED <<ask, book, server, logged, ended, failures>>

NextOfBatch(broken) ==
  [NoJob EXCEPT !.pc = "pick", !.todo = job.todo, !.fresh = FALSE, !.broken = broken]

RunEnds(how) == ended' = [ended EXCEPT ![job.of] = how]

\* record_ai_decision
WithDecision(m) == logged \union {m}

\* Mutant: every run's explanation is logged.
LogAlways ==
  /\ At("log") /\ Exists(job.of)
  /\ logged' = WithDecision(job.of)
  /\ job' = NextOfBatch(FALSE)
  /\ RunEnds("returned")
  /\ UNCHANGED <<ask, book, server, executions, failures>>

\* record_ai_decision, if there is one to record.
LogDecision ==
  /\ At("log") /\ (job.decision.ai_used => Exists(job.of))
  /\ logged' = IF job.decision.ai_used THEN WithDecision(job.of) ELSE logged
  /\ job' = NextOfBatch(FALSE)
  /\ RunEnds("returned")
  /\ UNCHANGED <<ask, book, server, executions, failures>>

\* The steps that reach for the database.
Touches ==
  /\ job.of # None /\ job.pc \notin {"decide", "failing"}
  /\ At("communicate") => job.decision.channel # "none"
  /\ At("escalate") => job.decision.escalation # "none"
  /\ At("log") => job.decision.ai_used

\* What the services refuse: the mandate is gone, or may not be charged any more.
Refused ==
  \/ ~Exists(job.of)
  \/ Exists(job.of) /\ At("act") /\ job.decision.retry /\ ~MayRecord(book[job.of])

Fails == job' = [job EXCEPT !.pc = "failing", !.fresh = FALSE]

StepRefused ==
  /\ Touches /\ Refused
  /\ Fails
  /\ UNCHANGED <<ask, book, server, failures>> /\ RowsUnchanged

StepFails ==
  /\ Touches
  /\ Mishap
  /\ Fails
  /\ UNCHANGED <<ask, book, server>> /\ RowsUnchanged

\* Mutant: the failed transaction is not rolled back.
RecordFailureBroken ==
  /\ At("failing") /\ Exists(job.of)
  /\ Write(Persisted("failed", 0))
  /\ job' = NextOfBatch(TRUE)
  /\ RunEnds("raised")
  /\ UNCHANGED <<ask, book, server, logged, failures>>

\* The exception handlers of run_for_mandate, after their rollback.  The state they
\* record is the one the graph was started with: its history is empty.
RecordFailure ==
  /\ At("failing") /\ Exists(job.of)
  /\ Write(Persisted("failed", 0))
  /\ job' = NextOfBatch(FALSE)
  /\ RunEnds("raised")
  /\ UNCHANGED <<ask, book, server, logged, failures>>

\* The INSERT has no mandate to refer to, or the database fails again.
Unrecorded ==
  /\ At("failing")
  /\ job' = NextOfBatch(TRUE)
  /\ RunEnds("unrecorded")
  /\ UNCHANGED <<ask, book, server, executions, logged>>

FailureUnrecorded == Unrecorded /\ ~Exists(job.of) /\ UNCHANGED failures
FailureFailsAgain == Unrecorded /\ Mishap

RunStep ==
  \/ TakeContext \/ AskProvider \/ Decide \/ Communicate \/ NoEscalationNeeded \/ Escalate
  \/ BookAttempt \/ AdvancePlan \/ ClosePlan
  \/ Persist \/ Finish \/ LogDecision
  \/ StepRefused \/ RecordFailure \/ FailureUnrecorded

BatchStep == Pick \/ BatchAborts \/ BatchDone \/ RunStep

-----------------------------------------------------------------------------
(* What WorkflowExecutionService reports *)

\* list_all_for_aggregation
Executed == {m \in Mandates : executions[m] # None}
Successful == {m \in Executed : executions[m].status = "completed"}
ListedErrors == {m \in Executed : executions[m].status = "failed"}
AiRuns == {m \in Executed : executions[m].ai}

\* get_execution_detail: the length of the timeline.
Timeline(m) == executions[m].nodes
=============================================================================
