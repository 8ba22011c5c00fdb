---------------------------- MODULE DevSeed_proofs ----------------------------
(***************************************************************************)
(* Proofs about DevSeed, for any mandates, scenarios and bounds: the       *)
(* schema a server finds, and what the record of a run says of it.         *)
(***************************************************************************)
EXTENDS DevSeed, SequenceTheorems, TLAPS

-----------------------------------------------------------------------------
(* The schema *)

\* The version table never promises more than the tables hold, and what has begun the
\* preparation of a database leaves the tables whole.
SchemaInv ==
  /\ SchemaTypeOK
  /\ schema.version = "absent" => schema.attempts # "base"
  /\ schema.version = "head" => schema.attempts = "head" /\ schema.events
  /\ process \in {"baseline", "prepared", "up"} => schema.attempts = "head" /\ schema.events

LEMMA BootKeepsSchema ==
  ASSUME SchemaInv, WaitForDatabase \/ EnsureSchemaAtHead \/ Serve
  PROVE  SchemaInv'
<1>1. CASE WaitForDatabase
  BY <1>1 DEF SchemaInv, SchemaTypeOK, WaitForDatabase
<1>2. CASE UpgradeSchema
  BY <1>2 DEF SchemaInv, SchemaTypeOK, UpgradeSchema, AddRazorpayIntegration
<1>3. CASE BeginBaseline
  <2>1. schema' = CreateAll(schema)
    BY <1>3 DEF BeginBaseline, Baseline
  <2>. QED  BY <1>3, <2>1 DEF SchemaInv, SchemaTypeOK, BeginBaseline, CreateAll
<1>4. CASE EndBaseline
  <2>1. schema' = Stamp(CreateAll(schema))
    BY <1>4 DEF EndBaseline, Baseline
  <2>. QED  BY <1>4, <2>1 DEF SchemaInv, SchemaTypeOK, EndBaseline, CreateAll, Stamp
<1>5. CASE Serve
  BY <1>5 DEF SchemaInv, SchemaTypeOK, Serve
<1>. QED  BY <1>1, <1>2, <1>3, <1>4, <1>5 DEF EnsureSchemaAtHead

LEMMA InitSchema ==
  ASSUME DevInit
  PROVE  SchemaInv
<1>1. process = "down"
  BY DEF DevInit, BatchInit
<1>2. schema \in {Fresh, CreateAll(Fresh), DropRazorpayIntegration(AtHead), AtHead}
  BY DEF DevInit, Databases
<1> DEFINE Kind == [attempts: {"none", "base", "head"}, events: BOOLEAN,
                    version: {"absent", "base", "head"}]
<1>3. /\ Fresh \in Kind
      /\ Fresh.attempts = "none" /\ Fresh.version = "absent"
  BY DEF Fresh
<1>4. /\ CreateAll(Fresh) \in Kind
      /\ CreateAll(Fresh).attempts = "head" /\ CreateAll(Fresh).version = "absent"
      /\ CreateAll(Fresh).events
  BY <1>3 DEF CreateAll
<1>5. /\ AtHead \in Kind
      /\ AtHead.attempts = "head" /\ AtHead.version = "head" /\ AtHead.events
  BY <1>4 DEF AtHead, Stamp
<1>6. /\ DropRazorpayIntegration(AtHead) \in Kind
      /\ DropRazorpayIntegration(AtHead).version = "base"
  BY <1>5 DEF DropRazorpayIntegration
<1>. QED  BY <1>1, <1>2, <1>3, <1>4, <1>5, <1>6 DEF SchemaInv, SchemaTypeOK

\* Only the start of a process touches the schema; the rest stops the process or leaves it.
LEMMA StepKeepsSchema ==
  ASSUME SchemaInv, [DevNext]_devVars
  PROVE  SchemaInv'
<1>1. CASE Restart
  BY <1>1, BootKeepsSchema DEF Restart, Alone, Startup
<1>2. CASE process' = "down" /\ UNCHANGED schema
  BY <1>2 DEF SchemaInv, SchemaTypeOK
<1>3. CASE UNCHANGED server
  BY <1>3 DEF SchemaInv, SchemaTypeOK, server
<1>4. CASE Alone(Shutdown) \/ KillAll
  BY <1>2, <1>4 DEF Alone, Shutdown, KillAll, Kill
<1>5. CASE Alone(Tick) \/ Alone(StepFails) \/ Alone(FailureFailsAgain)
  BY <1>3, <1>5 DEF Alone, Tick, StepFails, FailureFailsAgain, Unrecorded
<1>6. CASE Alone(BatchStep)
  BY <1>3, <1>6 DEF Alone, BatchStep, Pick, BatchAborts, BatchDone, RunStep, TakeContext,
     AskProvider, Decide, Communicate, NoEscalationNeeded, Escalate, BookAttempt, AdvancePlan,
     ClosePlan, Persist, Finish, LogDecision, StepRefused, RecordFailure, FailureUnrecorded,
     Unrecorded
<1>7. CASE SettlementTick \/ TakeAttempt \/ Settle \/ NotSettled \/ SettlementAborts
  BY <1>3, <1>7 DEF SettlementTick, TakeAttempt, Settle, NotSettled, SettlementAborts, batchVars
<1>8. CASE SeedRegister \/ SeedLooks \/ SeedStep \/ SeedStepVoid \/ SeedAborts
           \/ DeleteSeedData \/ TimePasses
  BY <1>3, <1>8 DEF SeedRegister, SeedLooks, SeedStep, SeedStepVoid, SeedAborts,
     DeleteSeedData, TimePasses,
     batchVars
<1>9. CASE UNCHANGED devVars
  BY <1>3, <1>9 DEF devVars, batchVars
<1>. QED  BY <1>1, <1>4, <1>5, <1>6, <1>7, <1>8, <1>9 DEF DevNext

\* Whatever database a container was started on, and wherever the start of the one before it
\* was cut off, a server finds every table and column of the models.
THEOREM SchemaServed == DevSpec => []ServedSchemaIsWhole
<1>1. DevInit => SchemaInv
  BY InitSchema
<1>2. SchemaInv /\ [DevNext]_devVars => SchemaInv'
  BY StepKeepsSchema
<1>3. SchemaInv => ServedSchemaIsWhole
  BY DEF SchemaInv, ServedSchemaIsWhole
<1>. QED  BY <1>1, <1>2, <1>3, PTL DEF DevSpec

-----------------------------------------------------------------------------
(* The run the job is in *)

\* How many nodes are done at a step of a run; while it fails, nobody asks.
History ==
  [context |-> job.history, decide |-> 1, communicate |-> 2, escalate |-> 3, act |-> 4,
   advance |-> 4, persist |-> 4, finish |-> 6, log |-> 6, failing |-> job.history]

\* The steps after the decision was made.
Decided == {"communicate", "escalate", "act", "advance", "persist", "finish", "log"}

\* The columns of the job, all of them and no other.
JobShape ==
  job = [pc |-> job.pc, todo |-> job.todo, of |-> job.of, ctx |-> job.ctx,
         decision |-> job.decision, history |-> job.history, fresh |-> job.fresh,
         broken |-> job.broken]

\* Between two runs the job is of nobody; in a run its history has the nodes that are done,
\* and its decision is the policy's, with or without the provider's explanation.
JobInv ==
  /\ JobShape
  /\ job.pc \in DOMAIN History \union {"idle", "pick"}
  /\ job.todo \subseteq Mandates
  /\ IF job.pc \in {"idle", "pick"} THEN job.of = None
     ELSE job.of \in Mandates /\ job.history = History[job.pc]
  /\ job.pc \in Decided => /\ job.decision \in Decision
                           /\ job.decision.retry = IsRetryAllowed(job.ctx)

\* Until the demonstration mandate is registered no run can have been its own.
UnusedDemo ==
  seed.pc = "unused" =>
    ~Exists(Demo) /\ ended[Demo] = "never" /\ Demo \notin job.todo /\ job.of # Demo

\* The columns of the scenario, all of them and no other.
SeedShape ==
  seed = [pc |-> seed.pc, script |-> seed.script, attempt |-> seed.attempt, seen |-> seed.seen]

RecordKinds ==
  /\ DOMAIN book = Mandates
  /\ SeedShape
  /\ executions \in [Mandates -> Row \union {None}]
  /\ logged \subseteq Mandates
  /\ ended \in [Mandates -> {"never", "running", "returned", "raised", "unrecorded", "cut"}]

\* A run that is under way has no failure to show and nothing in the log; when all its nodes
\* are done, its row says so, unless the mandate is gone.
RunningRecord(m) ==
  /\ m \notin logged
  /\ executions[m] # None => executions[m].status = "completed"
  /\ job.pc = "log" => /\ Exists(m) => executions[m] # None
                       /\ executions[m] # None => /\ executions[m].nodes = Nodes
                                                  /\ executions[m].ai = job.decision.ai_used

\* What the record of m holds, by how its latest run ended.
RecordOf(m) ==
  /\ ended[m] = "running" <=> job.of = m
  /\ ended[m] = "never" => executions[m] = None
  /\ ended[m] = "running" => RunningRecord(m)
  /\ ended[m] \in {"returned", "raised"} /\ Exists(m) => executions[m] # None
  /\ ended[m] = "returned" /\ executions[m] # None =>
       /\ executions[m].status = "completed" /\ executions[m].nodes = Nodes
       /\ executions[m].ai = (m \in logged)
  /\ ended[m] = "raised" /\ executions[m] # None =>
       executions[m].status = "failed" /\ executions[m].ai = FALSE /\ m \notin logged

RunInv == JobInv /\ UnusedDemo /\ RecordKinds /\ \A m \in Mandates : RecordOf(m)

-----------------------------------------------------------------------------
(* The job's own steps *)

LEMMA NoJobFits ==
  /\ NoJob.pc = "idle" /\ NoJob.of = None /\ NoJob.todo = {}
  /\ NoJob = [pc |-> NoJob.pc, todo |-> NoJob.todo, of |-> NoJob.of, ctx |-> NoJob.ctx,
              decision |-> NoJob.decision, history |-> NoJob.history, fresh |-> NoJob.fresh,
              broken |-> NoJob.broken]
BY DEF NoJob

LEMMA NextOfBatchFits ==
  ASSUME NEW broken, JobInv, job' = NextOfBatch(broken)
  PROVE  JobInv' /\ job'.of = None /\ job'.pc = "pick" /\ job'.todo = job.todo
<1>1. /\ job'.of = None /\ job'.pc = "pick" /\ job'.todo = job.todo
      /\ JobShape'
  BY NoJobFits DEF NextOfBatch, JobShape, NoJob
<1>. QED  BY <1>1 DEF JobInv, Decided, History

\* The deterministic decision is one, and no answer of the provider changes whether to retry.
LEMMA FinalizeDecides ==
  ASSUME NEW ctx, NEW call
  PROVE  /\ Finalize(ctx, call) \in Decision
         /\ Finalize(ctx, call).retry = IsRetryAllowed(ctx)
<1>1. IsRetryAllowed(ctx) \in BOOLEAN
  BY DEF IsRetryAllowed
<1>2. RetryPriority(ctx) \in {"none", "normal", "high"}
  BY DEF RetryPriority
<1>3. DetermineEscalation(ctx) \in {"none", "merchant", "support", "customer"}
  BY DEF DetermineEscalation
<1>4. Channel(ctx) \in {"none", "sms", "email", "whatsapp"}
  BY DEF Channel
<1>5. Usable(call) \in BOOLEAN
  BY DEF Usable
<1>6. /\ Deterministic(ctx) \in Decision
      /\ Deterministic(ctx).retry = IsRetryAllowed(ctx)
  BY <1>1, <1>2, <1>3, <1>4 DEF Deterministic, Decision
<1>. QED  BY <1>5, <1>6 DEF Finalize, Decision

\* A run's own step: the same run, at a step that fits what is decided.
LEMMA StepFits ==
  ASSUME JobInv, JobShape', job.of # None,
         job'.pc \in DOMAIN History, job'.of = job.of, job'.todo = job.todo,
         job'.pc \notin {"context", "failing"} => job'.history = History[job'.pc],
         job'.pc \in Decided => \/ job.pc \in Decided /\ UNCHANGED <<job.decision, job.ctx>>
                                \/ /\ job'.decision \in Decision
                                   /\ job'.decision.retry = IsRetryAllowed(job'.ctx)
  PROVE  JobInv'
BY DEF JobInv, History, Decided

LEMMA StepKeepsJob ==
  ASSUME RunInv, [DevNext]_devVars
  PROVE  JobInv'
<1>. USE DEF RunInv
<1>1. CASE UNCHANGED job
  BY <1>1 DEF JobInv, JobShape, Decided, History
<1>2. CASE job' = NoJob
  BY <1>2, NoJobFits DEF JobInv, JobShape, Decided, History
<1>3. CASE \E broken : job' = NextOfBatch(broken)
  BY <1>3, NextOfBatchFits
<1>4. ASSUME Tick PROVE JobInv'
  <2>1. {m \in Mandates : Selected(m)} \subseteq Mandates
    OBVIOUS
  <2>2. /\ job'.pc = "pick" /\ job'.of = job.of /\ job'.todo \subseteq Mandates
        /\ JobShape' /\ job.pc = "idle"
    BY <1>4, <2>1 DEF Tick, At, JobInv, JobShape
  <2>. QED  BY <2>2 DEF JobInv, Decided, History
<1>5. ASSUME Pick PROVE JobInv'
  <2>1. PICK m \in job.todo :
          job' = [job EXCEPT !.pc = "context", !.todo = @ \ {m}, !.of = m]
    BY <1>5 DEF Pick
  <2>2. /\ job'.pc = "context" /\ job'.of \in Mandates /\ job'.todo \subseteq Mandates
        /\ JobShape'
    BY <2>1 DEF JobInv, JobShape
  <2>. QED  BY <2>2 DEF JobInv, Decided, History
<1>6. ASSUME TakeContext PROVE JobInv'
  <2>0. /\ job.pc = "context" /\ JobShape
        /\ \E ctx : job' = Advance(Started(ctx), "decide")
    BY <1>6 DEF TakeContext, At, JobInv
  <2>a. PICK ctx : job' = Advance(Started(ctx), "decide")
    BY <2>0
  <2> DEFINE begun == Started(ctx)
  <2>b. begun = [job EXCEPT !.ctx = ctx, !.decision = None, !.history = 0]
    BY DEF Started
  <2>c. job' = [[begun EXCEPT !.pc = "decide"] EXCEPT !.history = @ + 1]
    BY <2>a DEF Advance, AddHistory
  <2> HIDE DEF begun
  <2>d. /\ begun.pc = job.pc /\ begun.of = job.of /\ begun.todo = job.todo
        /\ begun.history = 0
        /\ begun = [pc |-> begun.pc, todo |-> begun.todo, of |-> begun.of, ctx |-> begun.ctx,
                    decision |-> begun.decision, history |-> begun.history,
                    fresh |-> begun.fresh, broken |-> begun.broken]
    BY <2>0, <2>b DEF JobShape
  <2>1. /\ job'.pc = "decide" /\ job'.of = job.of /\ job'.todo = job.todo
        /\ job'.history = 0 + 1 /\ JobShape' /\ job.pc = "context"
    BY <2>0, <2>c, <2>d DEF JobShape
  <2>. QED  BY <2>1, StepFits DEF JobInv, Decided, History
<1>7. ASSUME Decide PROVE JobInv'
  <2>1. /\ job'.pc = "communicate" /\ job'.of = job.of /\ job'.todo = job.todo
        /\ job'.history = job.history + 1 /\ JobShape' /\ job.pc = "decide"
        /\ job'.decision = Finalize(job.ctx, ask) /\ job'.ctx = job.ctx
    BY <1>7 DEF Decide, At, Advance, AddHistory, JobInv, JobShape
  <2>2. job'.decision \in Decision /\ job'.decision.retry = IsRetryAllowed(job'.ctx)
    BY <2>1, FinalizeDecides
  <2>. QED  BY <2>1, <2>2, StepFits DEF JobInv, Decided, History
<1>8. ASSUME Communicate PROVE JobInv'
  <2>1. /\ job'.pc = "escalate" /\ job'.of = job.of /\ job'.todo = job.todo
        /\ job'.history = job.history + 1 /\ JobShape' /\ job.pc = "communicate"
        /\ UNCHANGED <<job.decision, job.ctx>>
    BY <1>8 DEF Communicate, At, Advance, AddHistory, Committed, JobInv, JobShape
  <2>. QED  BY <2>1, StepFits DEF JobInv, Decided, History
<1>9. ASSUME NoEscalationNeeded \/ Escalate PROVE JobInv'
  <2>1. /\ job'.pc = "act" /\ job'.of = job.of /\ job'.todo = job.todo
        /\ job'.history = job.history + 1 /\ JobShape' /\ job.pc = "escalate"
        /\ UNCHANGED <<job.decision, job.ctx>>
    BY <1>9 DEF NoEscalationNeeded, Escalate, At, Advance, AddHistory, Committed, JobInv,
       JobShape
  <2>. QED  BY <2>1, StepFits DEF JobInv, Decided, History
<1>10. ASSUME BookAttempt \/ AdvancePlan \/ ClosePlan \/ Finish PROVE JobInv'
  <2>1. /\ job'.of = job.of /\ job'.todo = job.todo /\ job'.history = job.history
        /\ JobShape' /\ UNCHANGED <<job.decision, job.ctx>>
        /\ \/ job.pc \in {"act", "advance"} /\ job'.pc \in {"advance", "persist"}
           \/ job.pc = "finish" /\ job'.pc = "log"
    BY <1>10 DEF BookAttempt, AdvancePlan, ClosePlan, Finish, CommitTo, At, Committed, JobInv,
       JobShape
  <2>. QED  BY <2>1, StepFits DEF JobInv, Decided, History
<1>11. ASSUME Persist PROVE JobInv'
  <2>1. /\ job'.pc = "finish" /\ job'.of = job.of /\ job'.todo = job.todo
        /\ job'.history = (job.history + 1) + 1 /\ JobShape' /\ job.pc = "persist"
        /\ UNCHANGED <<job.decision, job.ctx>>
    BY <1>11 DEF Persist, At, Advance, AddHistory, Committed, JobInv, JobShape
  <2>. QED  BY <2>1, StepFits DEF JobInv, Decided, History
<1>12. ASSUME StepRefused \/ StepFails PROVE JobInv'
  <2>1. /\ job'.pc = "failing" /\ job'.of = job.of /\ job'.todo = job.todo
        /\ JobShape' /\ job.of # None
    BY <1>12 DEF StepRefused, StepFails, Touches, Fails, JobInv, JobShape
  <2>2. job.history = job'.history
    BY <1>12 DEF StepRefused, StepFails, Fails, JobInv, JobShape
  <2>. QED  BY <2>1, <2>2, StepFits DEF JobInv, Decided, History
<1>13. CASE Restart \/ Alone(Shutdown) \/ KillAll
  BY <1>1, <1>2, <1>13 DEF Restart, Alone, Startup, Shutdown, KillAll, Kill
<1>14. CASE Alone(Tick) \/ Alone(StepFails) \/ Alone(FailureFailsAgain)
  BY <1>3, <1>4, <1>12, <1>14 DEF Alone, FailureFailsAgain, Unrecorded
<1>15. CASE Alone(BatchStep)
  BY <1>1, <1>2, <1>3, <1>5, <1>6, <1>7, <1>8, <1>9, <1>10, <1>11, <1>12, <1>15
     DEF Alone, BatchStep, BatchAborts, BatchDone, RunStep, AskProvider, LogDecision,
         RecordFailure, FailureUnrecorded, Unrecorded
<1>16. CASE SettlementTick \/ TakeAttempt \/ Settle \/ NotSettled \/ SettlementAborts
  BY <1>1, <1>16 DEF SettlementTick, TakeAttempt, Settle, NotSettled, SettlementAborts, batchVars
<1>17. CASE SeedRegister \/ SeedLooks \/ SeedStep \/ SeedStepVoid \/ SeedAborts
            \/ DeleteSeedData \/ TimePasses
  BY <1>1, <1>17 DEF SeedRegister, SeedLooks, SeedStep, SeedStepVoid, SeedAborts,
     DeleteSeedData, TimePasses,
     batchVars
<1>18. CASE UNCHANGED devVars
  BY <1>1, <1>18 DEF devVars, batchVars
<1>. QED  BY <1>13, <1>14, <1>15, <1>16, <1>17, <1>18 DEF DevNext

-----------------------------------------------------------------------------
(* Which mandates there are *)

\* Only the registration of the demonstration mandate makes a mandate appear.
LEMMA NothingAppears ==
  ASSUME RunInv, [DevNext]_devVars
  PROVE  /\ DOMAIN book' = Mandates
         /\ \A m \in Mandates : Exists(m)' => Exists(m) \/ (m = Demo /\ SeedRegister)
<1> DEFINE Goal == /\ DOMAIN book' = Mandates
                   /\ \A m \in Mandates :
                        Exists(m)' => Exists(m) \/ (m = Demo /\ SeedRegister)
<1>. USE DevAssumption
<1>0. DOMAIN book = Mandates /\ job.of \in Mandates \union {None}
  BY DEF RunInv, RecordKinds, JobInv
<1>1. CASE UNCHANGED book
  BY <1>0, <1>1 DEF Exists
<1>2. ASSUME NEW m \in Mandates, Exists(m), \E b : book' = [book EXCEPT ![m] = b]
      PROVE  Goal
  BY <1>0, <1>2 DEF Exists
<1>3. CASE Alone(Tick) \/ Alone(StepFails) \/ Alone(FailureFailsAgain) \/ Restart
           \/ Alone(Shutdown) \/ KillAll
  BY <1>1, <1>3 DEF Alone, Tick, StepFails, FailureFailsAgain, Unrecorded, Restart, Startup,
     Shutdown, KillAll, Kill
<1>4. CASE Escalate \/ BookAttempt \/ AdvancePlan \/ ClosePlan
  <2>1. job.of \in Mandates /\ Exists(job.of)
    BY <1>0, <1>4 DEF Escalate, BookAttempt, AdvancePlan, ClosePlan, RunInv, JobInv, At
  <2>2. \E b : book' = [book EXCEPT ![job.of] = b]
    BY <1>4 DEF Escalate, BookAttempt, AdvancePlan, ClosePlan
  <2>. QED  BY <1>2, <2>1, <2>2
<1>5. CASE Alone(BatchStep)
  BY <1>1, <1>4, <1>5 DEF Alone, BatchStep, Pick, BatchAborts, BatchDone, RunStep, TakeContext,
     AskProvider, Decide, Communicate, NoEscalationNeeded, Persist, Finish, LogDecision,
     StepRefused, RecordFailure, FailureUnrecorded, Unrecorded
<1>6. CASE SettlementTick \/ TakeAttempt \/ NotSettled \/ SettlementAborts \/ SeedLooks
           \/ SeedStepVoid \/ SeedAborts \/ UNCHANGED devVars
  BY <1>1, <1>6 DEF SettlementTick, TakeAttempt, NotSettled, SettlementAborts, SeedLooks,
     SeedStepVoid, SeedAborts, devVars, batchVars
<1>7. CASE Settle
  <2>1. PICK x : Exists(x[1]) /\ \E b : book' = [book EXCEPT ![x[1]] = b]
    BY <1>7 DEF Settle
  <2>2. CASE x[1] \in Mandates
    BY <1>2, <2>1, <2>2
  <2>3. CASE x[1] \notin Mandates
    BY <1>0, <2>1, <2>3 DEF Exists
  <2>. QED  BY <2>2, <2>3
<1>8. CASE SeedRegister
  BY <1>0, <1>8 DEF SeedRegister, Exists
<1>9. CASE SeedStep
  BY <1>2, <1>9 DEF SeedStep, SeedReady
<1>10. CASE DeleteSeedData
  BY <1>2, <1>10 DEF DeleteSeedData, Deleted
<1>11. CASE TimePasses
  <2>1. PICK m \in Mandates : ComesDue(m)
    BY <1>11 DEF TimePasses
  <2>2. Exists(m) /\ \E b : book' = [book EXCEPT ![m] = b]
    BY <2>1 DEF ComesDue
  <2>. QED  BY <1>2, <2>2
<1>. QED  BY <1>3, <1>5, <1>6, <1>7, <1>8, <1>9, <1>10, <1>11 DEF DevNext

\* A scenario that has begun stays begun, or is over.
LEMMA SeedMovesOn ==
  ASSUME RunInv, [DevNext]_devVars
  PROVE  SeedShape' /\ (seed'.pc = "unused" => seed.pc = "unused" /\ ~SeedRegister)
<1>0. SeedShape
  BY DEF RunInv, RecordKinds
<1>. USE DEF SeedShape
<1>1. CASE SeedRegister
  <2>1. PICK scenario \in Scenarios :
          seed' = [seed EXCEPT !.pc = "seeding", !.script = Script[scenario]]
    BY <1>1 DEF SeedRegister
  <2>. QED  BY <1>0, <2>1
<1>2. CASE ~SeedRegister /\ UNCHANGED seed
  BY <1>0, <1>2
<1>3. CASE seed' = Over
  BY <1>3 DEF Over, SeedRegister
<1>4. CASE ~SeedRegister /\ seed.pc = "seeding" /\ seed' = AfterScript
  BY <1>0, <1>4 DEF AfterScript, Over
<1>5. CASE ~SeedRegister /\ SeedStep
  <2>1. AfterScript = [pc |-> AfterScript.pc, script |-> AfterScript.script,
                       attempt |-> AfterScript.attempt, seen |-> AfterScript.seen]
        /\ AfterScript.pc # "unused"
    BY <1>0, <1>5 DEF AfterScript, Over, SeedStep, SeedReady
  <2>2. seed' = AfterScript \/ \E n : seed' = [AfterScript EXCEPT !.attempt = n]
    BY <1>5 DEF SeedStep
  <2>. QED  BY <1>5, <2>1, <2>2
<1>10. CASE ~SeedRegister /\ SeedLooks
  BY <1>0, <1>10 DEF SeedLooks
<1>6. CASE ~SeedRegister /\ (SeedStepVoid \/ SeedAborts)
  BY <1>3, <1>4, <1>6 DEF SeedStepVoid, SeedAborts
<1>7. CASE ~SeedRegister /\ KillAll
  BY <1>2, <1>3, <1>7 DEF KillAll
<1>8. CASE /\ ~SeedRegister
           /\ Restart \/ Alone(Shutdown) \/ Alone(Tick) \/ Alone(BatchStep) \/ Alone(StepFails)
              \/ Alone(FailureFailsAgain)
  BY <1>2, <1>8 DEF Alone, Restart
<1>9. CASE /\ ~SeedRegister
           /\ SettlementTick \/ TakeAttempt \/ Settle \/ NotSettled \/ SettlementAborts
              \/ DeleteSeedData
              \/ TimePasses \/ UNCHANGED devVars
  BY <1>2, <1>9 DEF SettlementTick, TakeAttempt, Settle, NotSettled, SettlementAborts,
     DeleteSeedData,
     TimePasses, devVars
<1>. QED  BY <1>1, <1>5, <1>6, <1>7, <1>8, <1>9, <1>10 DEF DevNext

-----------------------------------------------------------------------------
(* What a step leaves of the record *)

\* The run under way stays the same, at a step before its last or where it was.
SameRun ==
  /\ job'.of = job.of
  /\ job'.pc = "log" => job.pc = "log" /\ UNCHANGED job.decision
  /\ job'.todo \subseteq job.todo \union {m \in Mandates : Selected(m)}

\* The steps that write a record, or that take or end a run.
Recording ==
  \/ Pick \/ Persist \/ Finish \/ LogDecision \/ RecordFailure \/ Unrecorded \/ Kill
  \/ DeleteSeedData

LEMMA RunStepsElsewhere ==
  ASSUME RunInv, BatchStep, ~Recording
  PROVE  SameRun /\ RowsUnchanged
<1>. USE DEF RunInv
<1>1. CASE job' = NoJob /\ At("pick") /\ RowsUnchanged
  BY <1>1, NoJobFits DEF SameRun, At, JobInv
<1>2. CASE BatchAborts \/ BatchDone
  BY <1>1, <1>2 DEF BatchAborts, BatchDone
<1>3. CASE TakeContext
  <2>1. PICK ctx : job' = [[Started(ctx) EXCEPT !.pc = "decide"] EXCEPT !.history = @ + 1]
    BY <1>3 DEF TakeContext, Advance, AddHistory
  <2>2. job'.pc = "decide" /\ job'.of = job.of /\ job'.todo = job.todo
    BY <2>1 DEF Started, JobInv, JobShape
  <2>. QED  BY <1>3, <2>2 DEF SameRun, TakeContext
<1>4. CASE AskProvider
  BY <1>4 DEF AskProvider, SameRun
<1>5. CASE Decide
  <2>1. job'.pc = "communicate" /\ job'.of = job.of /\ job'.todo = job.todo
    BY <1>5 DEF Decide, Advance, AddHistory, JobInv, JobShape
  <2>. QED  BY <1>5, <2>1 DEF SameRun, Decide
<1>6. CASE Communicate \/ NoEscalationNeeded \/ Escalate
  <2>1. job'.pc \in {"escalate", "act"} /\ job'.of = job.of /\ job'.todo = job.todo
    BY <1>6 DEF Communicate, NoEscalationNeeded, Escalate, Advance, AddHistory, Committed,
       JobInv, JobShape
  <2>. QED  BY <1>6, <2>1 DEF SameRun, Communicate, NoEscalationNeeded, Escalate
<1>7. CASE BookAttempt \/ AdvancePlan \/ ClosePlan
  <2>1. job'.pc \in {"advance", "persist"} /\ job'.of = job.of /\ job'.todo = job.todo
    BY <1>7 DEF BookAttempt, AdvancePlan, ClosePlan, CommitTo, Committed, JobInv, JobShape
  <2>. QED  BY <1>7, <2>1 DEF SameRun, BookAttempt, AdvancePlan, ClosePlan
<1>8. CASE StepRefused
  <2>1. job'.pc = "failing" /\ job'.of = job.of /\ job'.todo = job.todo
    BY <1>8 DEF StepRefused, Fails, JobInv, JobShape
  <2>. QED  BY <1>8, <2>1 DEF SameRun, StepRefused
<1>. QED
  BY <1>2, <1>3, <1>4, <1>5, <1>6, <1>7, <1>8
     DEF BatchStep, RunStep, FailureUnrecorded, Recording

LEMMA StepsElsewhere ==
  ASSUME RunInv, [DevNext]_devVars, ~Recording
  PROVE  SameRun /\ RowsUnchanged
<1>1. CASE UNCHANGED job /\ RowsUnchanged
  BY <1>1 DEF SameRun
<1>2. CASE Restart \/ Alone(Shutdown)
  BY <1>1, <1>2 DEF Restart, Alone, Startup, Shutdown
<1>3. CASE Alone(BatchStep)
  BY <1>3, RunStepsElsewhere DEF Alone
<1>4. CASE Alone(Tick)
  <2>1. /\ job'.pc = "pick" /\ job'.of = job.of
        /\ job'.todo = {m \in Mandates : Selected(m)}
    BY <1>4 DEF Alone, Tick, RunInv, JobInv, JobShape
  <2>. QED  BY <1>4, <2>1 DEF SameRun, Alone, Tick
<1>5. CASE Alone(StepFails)
  <2>1. job'.pc = "failing" /\ job'.of = job.of /\ job'.todo = job.todo
    BY <1>5 DEF Alone, StepFails, Fails, RunInv, JobInv, JobShape
  <2>. QED  BY <1>5, <2>1 DEF SameRun, Alone, StepFails
<1>6. CASE SettlementTick \/ TakeAttempt \/ Settle \/ NotSettled \/ SettlementAborts
           \/ UNCHANGED devVars
  BY <1>1, <1>6 DEF SettlementTick, TakeAttempt, Settle, NotSettled, SettlementAborts, devVars,
     batchVars,
     RowsUnchanged
<1>7. CASE SeedRegister \/ SeedLooks \/ SeedStep \/ SeedStepVoid \/ SeedAborts \/ TimePasses
  BY <1>1, <1>7 DEF SeedRegister, SeedLooks, SeedStep, SeedStepVoid, SeedAborts, TimePasses,
     batchVars,
     RowsUnchanged
<1>8. ~KillAll /\ ~DeleteSeedData /\ ~Alone(FailureFailsAgain)
  BY DEF KillAll, Alone, FailureFailsAgain, Recording
<1>. QED  BY <1>2, <1>3, <1>4, <1>5, <1>6, <1>7, <1>8 DEF DevNext

\* The job takes a mandate only off its list, and lists only what is due.
LEMMA JobTakes ==
  ASSUME RunInv, [DevNext]_devVars
  PROVE  /\ job'.todo \subseteq job.todo \union {m \in Mandates : Selected(m)}
         /\ job'.of \in {job.of, None} \union job.todo
<1>. USE DEF RunInv, JobInv
<1>1. CASE ~Recording
  BY <1>1, StepsElsewhere DEF SameRun
<1>2. CASE Pick
  <2>1. PICK d \in job.todo :
          job' = [job EXCEPT !.pc = "context", !.todo = @ \ {d}, !.of = d]
    BY <1>2 DEF Pick
  <2>. QED  BY <2>1 DEF JobShape
<1>3. CASE Persist \/ Finish
  BY <1>3 DEF Persist, Finish, CommitTo, Committed, Advance, AddHistory, JobShape
<1>4. CASE LogDecision \/ RecordFailure \/ Unrecorded
  BY <1>4, NextOfBatchFits DEF LogDecision, RecordFailure, Unrecorded
<1>5. CASE Kill
  BY <1>5, NoJobFits DEF Kill
<1>6. CASE DeleteSeedData
  BY <1>6 DEF DeleteSeedData
<1>. QED  BY <1>1, <1>2, <1>3, <1>4, <1>5, <1>6 DEF Recording

\* A step that records nothing keeps what the records say.
LEMMA SameRunKeepsRecord ==
  ASSUME RunInv, [DevNext]_devVars, SameRun, RowsUnchanged, NEW m \in Mandates
  PROVE  RecordOf(m)'
<1>1. RecordOf(m) /\ (seed.pc = "unused" => ended[Demo] = "never")
  BY DEF RunInv, UnusedDemo
<1>2. Exists(m)' => Exists(m) \/ ended[m] = "never"
  BY <1>1, NothingAppears DEF SeedRegister
<1>. QED  BY <1>1, <1>2 DEF RecordOf, RunningRecord, SameRun, RowsUnchanged

-----------------------------------------------------------------------------
(* The steps that write a record, take a run or end it *)

\* What they make of one row, log entry or ending.
LEMMA RowsOf ==
  ASSUME RecordKinds, NEW x, NEW m \in Mandates, NEW d \in Mandates
  PROVE  /\ [executions EXCEPT ![d] = x][m] = IF m = d THEN x ELSE executions[m]
         /\ [ended EXCEPT ![d] = x][m] = IF m = d THEN x ELSE ended[m]
BY DEF RecordKinds

LEMMA CompletedRow ==
  ASSUME NEW nodes \in 0..Nodes, job.decision.ai_used \in BOOLEAN
  PROVE  LET row == Persisted("completed", nodes)
         IN  /\ row \in Row /\ row # None
             /\ row.status = "completed" /\ row.nodes = nodes /\ row.ai = job.decision.ai_used
BY NoneIsNoRun DEF Persisted, Row

LEMMA FailedRow ==
  LET row == Persisted("failed", 0)
  IN  row \in Row /\ row # None /\ row.status = "failed" /\ row.ai = FALSE
<1> DEFINE ai == "failed" = "completed" /\ job.decision.ai_used
<1>1. ai = FALSE
  OBVIOUS
<1>2. Persisted("failed", 0) = [status |-> "failed", nodes |-> 0, ai |-> ai]
  BY DEF Persisted
<1> HIDE DEF ai
<1>3. Persisted("failed", 0) = [status |-> "failed", nodes |-> 0, ai |-> FALSE]
  BY ONLY <1>1, <1>2, Zenon
<1>4. [status |-> "failed", nodes |-> 0, ai |-> FALSE] \in Row
  BY DEF Row, Nodes
<1>5. [status |-> "failed", nodes |-> 0, ai |-> FALSE].status = "failed"
      /\ [status |-> "failed", nodes |-> 0, ai |-> FALSE].ai = FALSE
  OBVIOUS
<1> DEFINE row == Persisted("failed", 0)
<1>6. row \in Row /\ row # None
  BY <1>3, <1>4, NoneIsNoRun, Zenon
<1>7. row.status = "failed" /\ row.ai = FALSE
  BY <1>3, <1>5, Zenon
<1>. QED  BY <1>6, <1>7, Zenon

LEMMA RunIsSomebodys ==
  ASSUME RunInv, job.of # None
  PROVE  job.of \in Mandates /\ ended[job.of] = "running" /\ RunningRecord(job.of)
BY DEF RunInv, JobInv, RecordOf

LEMMA PickKeepsRecord ==
  ASSUME RunInv, [DevNext]_devVars, Pick, NEW m \in Mandates
  PROVE  RecordOf(m)' /\ RecordKinds'
<1>1. PICK d \in job.todo :
        /\ job' = [job EXCEPT !.pc = "context", !.todo = @ \ {d}, !.of = d]
        /\ executions' = [executions EXCEPT ![d] = None]
        /\ logged' = logged \ {d}
        /\ ended' = [ended EXCEPT ![d] = "running"]
  BY DEF Pick
<1>2. /\ d \in Mandates /\ job.of = None /\ job'.of = d /\ job'.pc = "context"
      /\ UNCHANGED book
  BY <1>1 DEF RunInv, JobInv, JobShape, At, Pick
<1>3. RecordKinds'
  BY <1>1, <1>2, SeedMovesOn DEF RunInv, RecordKinds
<1>4. RecordOf(m) /\ m # None
  BY NoneIsNoRun DEF RunInv
<1>5. Exists(m)' = Exists(m)
  BY <1>2 DEF Exists
<1>6. CASE m = d
  <2>1. executions'[m] = None /\ ended'[m] = "running" /\ m \notin logged'
    BY <1>1, <1>2, <1>6 DEF RunInv, RecordKinds
  <2>2. RunningRecord(m)'
    BY <1>2, <2>1 DEF RunningRecord
  <2>. QED  BY <1>2, <1>3, <1>6, <2>1, <2>2 DEF RecordOf
<1>7. CASE m # d
  <2>1. executions'[m] = executions[m] /\ ended'[m] = ended[m] /\ (m \in logged' <=> m \in logged)
    BY <1>1, <1>2, <1>7 DEF RunInv, RecordKinds
  <2>2. ended[m] # "running" /\ ended'[m] # "running" /\ job'.of # m
    BY <1>2, <1>4, <1>7, <2>1 DEF RecordOf
  <2>. QED  BY <1>3, <1>4, <1>5, <2>1, <2>2 DEF RecordOf
<1>. QED  BY <1>3, <1>6, <1>7

\* The record of a mandate the step is not about.
LEMMA OthersKeepRecord ==
  ASSUME RunInv, NEW m \in Mandates, m # job.of, m # job'.of,
         UNCHANGED <<executions[m], ended[m], m \in logged>>,
         Exists(m)' => Exists(m)
  PROVE  RecordOf(m)'
<1>1. RecordOf(m) /\ ended[m] # "running"
  BY DEF RunInv, RecordOf
<1>. QED  BY <1>1 DEF RecordOf

\* A node of the run writes the row, which then has as many nodes as the history.
LEMMA WriteKeepsRecord ==
  ASSUME RunInv, [DevNext]_devVars, Persist \/ Finish, NEW m \in Mandates
  PROVE  RecordOf(m)' /\ RecordKinds'
<1>0. JobShape /\ job.pc \in {"persist", "finish"}
  BY DEF Persist, Finish, At, RunInv, JobInv
<1>a. /\ job.of # None /\ UNCHANGED <<logged, ended, book>>
      /\ executions' = [executions EXCEPT ![job.of] = Persisted("completed", job.history)]
  BY <1>0, NoneIsNoRun DEF Persist, Finish, Write, RunInv, JobInv
<1>1. /\ job.of # None /\ job'.of = job.of /\ UNCHANGED <<logged, ended, book>>
      /\ job.pc \in {"persist", "finish"} /\ job'.pc \in {"finish", "log"}
      /\ job'.pc = "log" => job.pc = "finish" /\ UNCHANGED job.decision
      /\ executions' = [executions EXCEPT ![job.of] = Persisted("completed", job.history)]
  <2>1. CASE Persist
    BY <1>0, <1>a, <2>1 DEF Persist, At, Committed, Advance, AddHistory, JobShape
  <2>2. CASE Finish
    BY <1>0, <1>a, <2>2 DEF Finish, At, CommitTo, Committed, JobShape
  <2>. QED  BY <2>1, <2>2
<1>2. job.of \in Mandates /\ ended[job.of] = "running" /\ RunningRecord(job.of)
  BY <1>1, RunIsSomebodys
<1>3. job.history \in 0..Nodes /\ (job.pc = "finish" => job.history = Nodes)
      /\ job.decision.ai_used \in BOOLEAN
  BY <1>1 DEF RunInv, JobInv, History, Nodes, Decided, Decision
<1> DEFINE row == Persisted("completed", job.history)
<1>4. row \in Row /\ row # None /\ row.status = "completed" /\ row.nodes = job.history
      /\ row.ai = job.decision.ai_used
  BY <1>3, CompletedRow
<1> HIDE DEF row
<1>5. RecordKinds'
  BY <1>1, <1>2, <1>4, SeedMovesOn DEF RunInv, RecordKinds, row
<1>6. Exists(m)' = Exists(m)
  BY <1>1 DEF Exists
<1>7. CASE m # job.of
  <2>1. UNCHANGED <<executions[m], ended[m], m \in logged>>
    BY <1>1, <1>2, <1>7 DEF RunInv, RecordKinds
  <2>. QED  BY <1>1, <1>5, <1>6, <1>7, <2>1, OthersKeepRecord
<1>8. CASE m = job.of
  <2>1. executions'[m] = row /\ ended'[m] = "running" /\ m \notin logged'
    BY <1>1, <1>2, <1>8 DEF RunInv, RecordKinds, RunningRecord, row
  <2>2. RunningRecord(m)'
    BY <1>1, <1>3, <1>4, <1>8, <2>1 DEF RunningRecord
  <2>. QED  BY <1>1, <1>5, <1>8, <2>1, <2>2 DEF RecordOf
<1>. QED  BY <1>7, <1>8

\* The last step of a run finds its row complete.
LEMMA LogKeepsRecord ==
  ASSUME RunInv, [DevNext]_devVars, LogDecision, NEW m \in Mandates
  PROVE  RecordOf(m)' /\ RecordKinds'
<1>1. /\ job.of # None /\ UNCHANGED <<executions, book>> /\ job.pc = "log"
      /\ logged' = IF job.decision.ai_used THEN WithDecision(job.of) ELSE logged
      /\ ended' = [ended EXCEPT ![job.of] = "returned"]
  BY NoneIsNoRun DEF LogDecision, RunEnds, At, RunInv, JobInv
<1>2. job'.of = None
  BY NextOfBatchFits DEF LogDecision, RunInv
<1>3. job.of \in Mandates /\ ended[job.of] = "running" /\ RunningRecord(job.of)
  BY <1>1, RunIsSomebodys
<1>4. job.decision.ai_used \in BOOLEAN
  BY <1>1 DEF RunInv, JobInv, Decided, Decision
<1>5. RecordKinds'
  BY <1>1, <1>3, SeedMovesOn DEF RunInv, RecordKinds, WithDecision
<1>6. Exists(m)' = Exists(m)
  BY <1>1 DEF Exists
<1>7. CASE m # job.of
  <2>1. UNCHANGED <<executions[m], ended[m], m \in logged>>
    BY <1>1, <1>3, <1>7 DEF RunInv, RecordKinds, WithDecision
  <2>. QED  BY <1>2, <1>5, <1>6, <1>7, <2>1, OthersKeepRecord, NoneIsNoRun
<1>8. CASE m = job.of
  <2>1. ended'[m] = "returned" /\ (m \in logged' <=> job.decision.ai_used)
    BY <1>1, <1>3, <1>4, <1>8 DEF RunInv, RecordKinds, RunningRecord, WithDecision
  <2>. QED  BY <1>1, <1>2, <1>3, <1>4, <1>5, <1>6, <1>8, <2>1, NoneIsNoRun
            DEF RecordOf, RunningRecord
<1>. QED  BY <1>7, <1>8

LEMMA FailureKeepsRecord ==
  ASSUME RunInv, [DevNext]_devVars, RecordFailure \/ Unrecorded, NEW m \in Mandates
  PROVE  RecordOf(m)' /\ RecordKinds'
<1>1. /\ job.of # None /\ UNCHANGED logged
      /\ \/ /\ executions' = [executions EXCEPT ![job.of] = Persisted("failed", 0)]
            /\ ended' = [ended EXCEPT ![job.of] = "raised"]
         \/ /\ UNCHANGED executions
            /\ ended' = [ended EXCEPT ![job.of] = "unrecorded"]
  BY NoneIsNoRun DEF RecordFailure, Unrecorded, Write, RunEnds, At, RunInv, JobInv
<1>2. job'.of = None
  BY NextOfBatchFits DEF RecordFailure, Unrecorded, RunInv
<1>3. job.of \in Mandates /\ ended[job.of] = "running" /\ RunningRecord(job.of)
  BY <1>1, RunIsSomebodys
<1> DEFINE row == Persisted("failed", 0)
<1>4. row \in Row /\ row # None /\ row.status = "failed" /\ row.ai = FALSE
  BY FailedRow
<1> HIDE DEF row
<1>5. RecordKinds'
  BY <1>1, <1>3, <1>4, NothingAppears, SeedMovesOn DEF RunInv, RecordKinds, row
<1>6. ~SeedRegister
  BY <1>1, <1>3 DEF SeedRegister, RowsUnchanged, RunInv, RecordKinds
<1>7. Exists(m)' => Exists(m)
  BY <1>6, NothingAppears
<1>8. CASE m # job.of
  <2>1. UNCHANGED <<executions[m], ended[m], m \in logged>>
    BY <1>1, <1>3, <1>8 DEF RunInv, RecordKinds
  <2>. QED  BY <1>2, <1>5, <1>7, <1>8, <2>1, OthersKeepRecord, NoneIsNoRun
<1>9. CASE m = job.of
  <2>1. m # job'.of /\ m \notin logged'
    BY <1>1, <1>2, <1>3, <1>9, NoneIsNoRun DEF RunningRecord
  <2>2. \/ executions'[m] = row /\ ended'[m] = "raised"
        \/ ended'[m] = "unrecorded"
    BY <1>1, <1>3, <1>9 DEF RunInv, RecordKinds, row
  <2>. QED  BY <1>4, <1>5, <2>1, <2>2 DEF RecordOf
<1>. QED  BY <1>8, <1>9

\* A killed process cuts its run off, whatever the row says.
LEMMA KillKeepsRecord ==
  ASSUME RunInv, [DevNext]_devVars, Kill, NEW m \in Mandates
  PROVE  RecordOf(m)' /\ RecordKinds'
<1>1. /\ job'.of = None /\ UNCHANGED <<book, executions, logged>>
      /\ ended' = IF job.of = None THEN ended ELSE [ended EXCEPT ![job.of] = "cut"]
  BY NoJobFits DEF Kill
<1>2. job.of \in Mandates \union {None}
  BY DEF RunInv, JobInv
<1>3. RecordKinds'
  BY <1>1, <1>2, SeedMovesOn DEF RunInv, RecordKinds
<1>4. Exists(m)' = Exists(m)
  BY <1>1 DEF Exists
<1>5. CASE m # job.of
  <2>1. UNCHANGED <<executions[m], ended[m], m \in logged>>
    BY <1>1, <1>2, <1>5 DEF RunInv, RecordKinds
  <2>. QED  BY <1>1, <1>3, <1>4, <1>5, <2>1, OthersKeepRecord, NoneIsNoRun
<1>6. CASE m = job.of
  <2>1. ended'[m] = "cut" /\ m # None
    BY <1>1, <1>6, NoneIsNoRun DEF RunInv, RecordKinds
  <2>. QED  BY <1>1, <1>3, <2>1 DEF RecordOf
<1>. QED  BY <1>5, <1>6

\* The record of a deleted mandate goes with it.
LEMMA DeleteKeepsRecord ==
  ASSUME RunInv, [DevNext]_devVars, DeleteSeedData, NEW m \in Mandates
  PROVE  RecordOf(m)' /\ RecordKinds'
<1>1. /\ UNCHANGED <<job, ended>>
      /\ book' = [book EXCEPT ![Demo] = None]
      /\ executions' = [executions EXCEPT ![Demo] = None]
      /\ logged' = logged \ {Demo}
  BY DEF DeleteSeedData, Deleted
<1>2. RecordKinds'
  BY <1>1, SeedMovesOn, DevAssumption DEF RunInv, RecordKinds
<1>3. RecordOf(m)
  BY DEF RunInv
<1>4. CASE m # Demo
  <2>1. UNCHANGED <<executions[m], book[m], m \in logged>>
    BY <1>1, <1>4 DEF RunInv, RecordKinds
  <2>2. RunningRecord(m) => RunningRecord(m)'
    BY <1>1, <2>1 DEF RunningRecord, Exists
  <2>. QED  BY <1>1, <1>2, <1>3, <2>1, <2>2 DEF RecordOf, Exists
<1>5. CASE m = Demo
  <2>1. executions'[m] = None /\ book'[m] = None /\ m \notin logged'
    BY <1>1, <1>5 DEF RunInv, RecordKinds
  <2>. QED  BY <1>1, <1>2, <1>3, <2>1 DEF RecordOf, RunningRecord, Exists
<1>. QED  BY <1>4, <1>5

-----------------------------------------------------------------------------
(* Every step *)

LEMMA StepKeepsRecords ==
  ASSUME RunInv, [DevNext]_devVars
  PROVE  RecordKinds' /\ \A m \in Mandates : RecordOf(m)'
<1>1. Demo \in Mandates
  BY DevAssumption
<1>2. CASE Recording
  BY <1>1, <1>2, PickKeepsRecord, WriteKeepsRecord, LogKeepsRecord, FailureKeepsRecord,
     KillKeepsRecord, DeleteKeepsRecord DEF Recording
<1>3. CASE ~Recording
  <2>1. SameRun /\ RowsUnchanged
    BY <1>3, StepsElsewhere
  <2>2. RecordKinds'
    BY <2>1, NothingAppears, SeedMovesOn DEF RunInv, RecordKinds, RowsUnchanged
  <2>. QED  BY <2>1, <2>2, SameRunKeepsRecord
<1>. QED  BY <1>2, <1>3

\* No run can be of a mandate that was not there when its batch was selected.
LEMMA StepKeepsDemoUnused ==
  ASSUME RunInv, [DevNext]_devVars
  PROVE  UnusedDemo'
<1>. SUFFICES ASSUME seed'.pc = "unused"
              PROVE  ~Exists(Demo)' /\ ended'[Demo] = "never" /\ Demo \notin job'.todo
                     /\ job'.of # Demo
  BY DEF UnusedDemo
<1>1. /\ ~Exists(Demo) /\ ended[Demo] = "never" /\ Demo \notin job.todo /\ job.of # Demo
      /\ ~SeedRegister
  BY SeedMovesOn DEF RunInv, UnusedDemo
<1>2. ~Exists(Demo)' /\ Demo \in Mandates /\ Demo # None
  BY <1>1, NothingAppears, DevAssumption, NoneIsNoRun
<1>3. Demo \notin job'.todo /\ job'.of # Demo
  BY <1>1, <1>2, JobTakes DEF Selected, Due
<1>4. ended'[Demo] = "never"
  <2>1. CASE ~Recording
    BY <1>1, <2>1, StepsElsewhere DEF RowsUnchanged
  <2>2. CASE Pick
    BY <1>1, <1>2, <2>2 DEF Pick, RunInv, RecordKinds
  <2>3. CASE Persist \/ Finish \/ DeleteSeedData
    BY <1>1, <2>3 DEF Persist, Finish, DeleteSeedData
  <2>4. CASE LogDecision \/ RecordFailure \/ Unrecorded
    <3>1. \E how : RunEnds(how)
      BY <2>4 DEF LogDecision, RecordFailure, Unrecorded
    <3>. QED  BY <1>1, <1>2, <3>1 DEF RunEnds, RunInv, RecordKinds
  <2>5. CASE Kill
    BY <1>1, <1>2, <2>5 DEF Kill, RunInv, RecordKinds
  <2>. QED  BY <2>1, <2>2, <2>3, <2>4, <2>5 DEF Recording
<1>. QED  BY <1>2, <1>3, <1>4

THEOREM RunInvariant == DevSpec => []RunInv
<1>1. DevInit => RunInv
  <2>. SUFFICES ASSUME DevInit PROVE RunInv
    OBVIOUS
  <2>1. JobInv
    BY NoJobFits DEF DevInit, BatchInit, JobInv, JobShape, Decided, History
  <2>2. UnusedDemo
    BY NoJobFits, DevAssumption, NoneIsNoRun DEF DevInit, BatchInit, UnusedDemo, Exists
  <2>3. RecordKinds
    BY DEF DevInit, BatchInit, RecordKinds, SeedShape
  <2>4. \A m \in Mandates : RecordOf(m)
    BY NoJobFits, NoneIsNoRun DEF DevInit, BatchInit, RecordOf
  <2>. QED  BY <2>1, <2>2, <2>3, <2>4 DEF RunInv
<1>2. RunInv /\ [DevNext]_devVars => RunInv'
  BY StepKeepsJob, StepKeepsRecords, StepKeepsDemoUnused DEF RunInv
<1>. QED  BY <1>1, <1>2, PTL DEF DevSpec

-----------------------------------------------------------------------------
(* What the record of a run says *)

\* Unless its row could not be written, or went with the mandate, a run that raised is listed
\* among the errors, and one that returned counts as successful, whatever failed on its way
\* and whatever another actor did meanwhile.
THEOREM RecordTells == DevSpec => []RecordTellsOutcome
<1>1. RunInv => RecordTellsOutcome
  BY DEF RunInv, RecordOf, RecordTellsOutcome, ListedErrors, Successful, Executed
<1>. QED  BY <1>1, RunInvariant, PTL

\* A row that says completed without the last nodes is that of a run still going, cut off by
\* a kill, or whose failure could not be recorded.
THEOREM CompletedHasAllNodes == DevSpec => []CompletedMeansAllNodes
<1>1. RunInv => CompletedMeansAllNodes
  <2>. SUFFICES ASSUME RunInv, NEW m \in Successful, Timeline(m) < Nodes
                PROVE  ended[m] \in {"running", "cut", "unrecorded"}
    BY DEF CompletedMeansAllNodes
  <2>1. m \in Mandates /\ executions[m] # None /\ executions[m].status = "completed"
        /\ executions[m].nodes # Nodes
    BY DEF Successful, Executed, Timeline, Nodes
  <2>. QED  BY <2>1 DEF RunInv, RecordKinds, RecordOf
<1>. QED  BY <1>1, RunInvariant, PTL

\* Once a run is over, its row claims the AI's help exactly if the decision log has it.
THEOREM AiRunsAreLogged == DevSpec => []AiRunsLogged
<1>1. RunInv => AiRunsLogged
  BY DEF RunInv, RecordOf, AiRunsLogged, AiRuns, Executed
<1>. QED  BY <1>1, RunInvariant, PTL

\* Whatever the provider answers, and whatever happened since the decision was made, the job
\* books an attempt only where the policy allowed a retry in the context the run took.
THEOREM AIExplainsOnly == DevSpec => AIOnlyExplains
<1>1. RunInv /\ [DevNext]_devVars
      => [At("act") /\ job'.pc = "advance" => IsRetryAllowed(job.ctx)]_devVars
  <2>. SUFFICES ASSUME RunInv, [DevNext]_devVars, job.pc = "act", job'.pc = "advance"
                PROVE  IsRetryAllowed(job.ctx)
    BY DEF At
  <2>1. job.decision.retry = IsRetryAllowed(job.ctx) /\ JobShape
    BY DEF RunInv, JobInv, Decided
  <2>2. job' # NoJob /\ job' # job
    BY NoJobFits
  <2>3. CASE BookAttempt
    BY <2>1, <2>3 DEF BookAttempt
  <2>4. ~(Pick \/ Kill \/ AdvancePlan \/ Persist \/ Finish \/ LogDecision
          \/ RecordFailure \/ Unrecorded)
    BY <2>2 DEF Pick, Kill, AdvancePlan, Persist, Finish, LogDecision, RecordFailure,
       Unrecorded, At
  <2>5. ~(TakeContext \/ Decide \/ Communicate \/ NoEscalationNeeded \/ Escalate \/ Tick
          \/ BatchDone \/ BatchAborts)
    BY DEF TakeContext, Decide, Communicate, NoEscalationNeeded, Escalate, Tick, BatchDone,
       BatchAborts, At
  <2>6. ~(ClosePlan \/ StepRefused \/ StepFails)
    BY <2>1 DEF ClosePlan, CommitTo, Committed, StepRefused, StepFails, Fails, JobShape
  <2>. QED
    BY <2>2, <2>3, <2>4, <2>5, <2>6 DEF DevNext, devVars, batchVars, Alone, Restart, Startup,
       Shutdown, KillAll, BatchStep, RunStep, AskProvider, FailureFailsAgain, FailureUnrecorded,
       SettlementTick, TakeAttempt, Settle, NotSettled, SettlementAborts, SeedRegister,
       SeedLooks, SeedStep,
       SeedStepVoid, SeedAborts, DeleteSeedData, TimePasses
<1>. QED  BY <1>1, RunInvariant, PTL DEF DevSpec, AIOnlyExplains

-----------------------------------------------------------------------------
(* What stops a batch *)

\* A session is broken only between two runs, after one whose failure was not recorded, and
\* then it reads nothing any more.
BrokenSession ==
  job.broken => /\ job.pc = "pick" /\ job.fresh = FALSE
                /\ \E m \in Mandates : ended[m] = "unrecorded"

LEMMA StepKeepsBrokenSession ==
  ASSUME RunInv, BrokenSession, [DevNext]_devVars
  PROVE  BrokenSession'
<1>. USE DEF RunInv, JobInv
<1>1. CASE UNCHANGED <<job, ended>>
  BY <1>1 DEF BrokenSession
<1>2. ASSUME job'.broken = FALSE PROVE BrokenSession'
  BY <1>2 DEF BrokenSession
<1>3. CASE job' = NoJob
  BY <1>2, <1>3 DEF NoJob
<1>4. ASSUME job.pc # "pick", job'.broken = job.broken PROVE BrokenSession'
  BY <1>4 DEF BrokenSession
<1>5. ASSUME Tick PROVE BrokenSession'
  BY <1>4, <1>5 DEF Tick, At, JobShape
<1>6. ASSUME Pick PROVE BrokenSession'
  <2>1. PICK m \in job.todo :
          Readable(m) /\ job' = [job EXCEPT !.pc = "context", !.todo = @ \ {m}, !.of = m]
    BY <1>6 DEF Pick
  <2>2. ~job.broken /\ job'.broken = job.broken
    BY <2>1 DEF Readable, BrokenSession, JobShape
  <2>. QED  BY <2>2 DEF BrokenSession
<1>7. ASSUME LogDecision \/ RecordFailure PROVE BrokenSession'
  <2>1. job' = NextOfBatch(FALSE)
    BY <1>7 DEF LogDecision, RecordFailure
  <2>2. job'.broken = FALSE
    BY <2>1, NoJobFits DEF NextOfBatch, NoJob
  <2>. QED  BY <1>2, <2>2
<1>8. ASSUME Unrecorded PROVE BrokenSession'
  <2>1. job' = NextOfBatch(TRUE) /\ ended' = [ended EXCEPT ![job.of] = "unrecorded"]
        /\ job.of \in Mandates
    BY <1>8 DEF Unrecorded, RunEnds, At
  <2>2. job'.pc = "pick" /\ job'.fresh = FALSE
    BY <2>1 DEF NextOfBatch, NoJob
  <2>3. ended'[job.of] = "unrecorded"
    BY <2>1 DEF RecordKinds
  <2>. QED  BY <2>1, <2>2, <2>3 DEF BrokenSession
<1>9. ASSUME TakeContext PROVE BrokenSession'
  <2>1. PICK ctx : job' = [[Started(ctx) EXCEPT !.pc = "decide"] EXCEPT !.history = @ + 1]
    BY <1>9 DEF TakeContext, Advance, AddHistory
  <2>2. job.pc # "pick" /\ job'.broken = job.broken
    BY <1>9, <2>1 DEF TakeContext, At, Started, JobShape
  <2>. QED  BY <1>4, <2>2
<1>10. ASSUME \/ Decide \/ Communicate \/ NoEscalationNeeded \/ Escalate \/ BookAttempt
              \/ AdvancePlan \/ ClosePlan \/ Persist \/ Finish
       PROVE  BrokenSession'
  <2>1. job.pc # "pick" /\ job'.broken = job.broken
    BY <1>10 DEF Decide, Communicate, NoEscalationNeeded, Escalate, BookAttempt, AdvancePlan,
       ClosePlan, Persist, Finish, At, CommitTo, Advance, AddHistory, Committed, JobShape
  <2>. QED  BY <1>4, <2>1
<1>11. ASSUME StepRefused \/ StepFails PROVE BrokenSession'
  <2>1. job.pc # "pick" /\ job'.broken = job.broken
    BY <1>11 DEF StepRefused, StepFails, Touches, Fails, JobShape
  <2>. QED  BY <1>4, <2>1
<1>12. CASE Restart \/ Alone(Shutdown) \/ KillAll
  BY <1>1, <1>3, <1>12 DEF Restart, Alone, Startup, Shutdown, KillAll, Kill, RowsUnchanged
<1>13. CASE Alone(Tick) \/ Alone(StepFails) \/ Alone(FailureFailsAgain)
  BY <1>5, <1>8, <1>11, <1>13 DEF Alone, FailureFailsAgain
<1>14. CASE Alone(BatchStep)
  BY <1>1, <1>3, <1>6, <1>7, <1>8, <1>9, <1>10, <1>11, <1>14
     DEF Alone, BatchStep, BatchAborts, BatchDone, RunStep, AskProvider, FailureUnrecorded,
         RowsUnchanged
<1>15. CASE SettlementTick \/ TakeAttempt \/ Settle \/ NotSettled \/ SettlementAborts
            \/ UNCHANGED devVars
  BY <1>1, <1>15 DEF SettlementTick, TakeAttempt, Settle, NotSettled, SettlementAborts,
     devVars, batchVars,
     RowsUnchanged
<1>16. CASE SeedRegister \/ SeedLooks \/ SeedStep \/ SeedStepVoid \/ SeedAborts
            \/ DeleteSeedData \/ TimePasses
  BY <1>1, <1>16 DEF SeedRegister, SeedLooks, SeedStep, SeedStepVoid, SeedAborts,
     DeleteSeedData, TimePasses,
     batchVars, RowsUnchanged
<1>. QED  BY <1>12, <1>13, <1>14, <1>15, <1>16 DEF DevNext

\* A batch that leaves mandates behind met one deleted meanwhile, or a run whose failure could
\* not be recorded: the failure of a run that is recorded blocks no other mandate's retry.
THEOREM RecordedFailuresPass == DevSpec => RecordedFailuresBlockNobody
<1>1. DevInit => BrokenSession
  BY NoJobFits DEF DevInit, BatchInit, BrokenSession, NoJob
<1>2. RunInv /\ BrokenSession /\ [DevNext]_devVars => BrokenSession'
  BY StepKeepsBrokenSession
<1>3. RunInv /\ BrokenSession /\ [DevNext]_devVars
      => [At("pick") /\ job'.pc = "idle" /\ process' = "up" =>
            \/ job.todo = {}
            \/ \E m \in job.todo : ~Exists(m)
            \/ \E m \in Mandates : ended[m] = "unrecorded"]_devVars
  <2>. SUFFICES ASSUME RunInv, BrokenSession, [DevNext]_devVars,
                       job.pc = "pick", job'.pc = "idle", process' = "up"
                PROVE  \/ job.todo = {}
                       \/ \E m \in job.todo : ~Exists(m)
                       \/ \E m \in Mandates : ended[m] = "unrecorded"
    BY DEF At
  <2>0. JobShape /\ job' # job /\ job.of = None
    BY DEF RunInv, JobInv
  <2>1. CASE BatchDone
    BY <2>1 DEF BatchDone
  <2>2. CASE BatchAborts
    BY <2>2 DEF BatchAborts, Readable, BrokenSession
  <2>3. ~KillAll /\ ~Tick
    BY DEF KillAll, Kill, Tick, At
  <2>4. ~Pick
    BY <2>0 DEF Pick, JobShape
  <2>5. ~RunStep /\ ~StepFails /\ ~Unrecorded
    BY <2>0 DEF RunStep, TakeContext, AskProvider, Decide, Communicate, NoEscalationNeeded,
       Escalate, BookAttempt, AdvancePlan, ClosePlan, Persist, Finish, LogDecision, StepRefused,
       RecordFailure, FailureUnrecorded, Unrecorded, StepFails, Touches, At
  <2>. QED
    BY <2>0, <2>1, <2>2, <2>3, <2>4, <2>5 DEF DevNext, devVars, batchVars, Alone, Restart,
       Startup, Shutdown, BatchStep, FailureFailsAgain, SettlementTick, TakeAttempt, Settle,
       NotSettled,
       SettlementAborts, SeedRegister, SeedLooks, SeedStep, SeedStepVoid, SeedAborts,
       DeleteSeedData,
       TimePasses
<1>. QED  BY <1>1, <1>2, <1>3, RunInvariant, PTL DEF DevSpec, RecordedFailuresBlockNobody
=============================================================================
