------------------------ MODULE RecoveryWorkflow_proofs ------------------------
(***************************************************************************)
(* Proofs about RecoveryWorkflow for any number of jobs, reruns and        *)
(* callers, whatever the callers do: the rows stay as consistent as        *)
(* RecoveryStore_proofs shows them to be without runs, although a run      *)
(* writes what it decided from an earlier snapshot, and a run that has     *)
(* booked an attempt has a schedule to advance.                            *)
(***************************************************************************)
EXTENDS RecoveryWorkflow, RecoveryStore_proofs

RunRecord == [pc: {"idle", "picked", "context", "escalate", "escalating", "act",
                   "booking", "advance", "advancing", "closing"}, ctx: Context]

\* A run that books an attempt, or has, decided so from a schedule.
HasPlan(x) == x.pc \in {"booking", "advance", "advancing"} => x.ctx.plan # None

WInv == IInv /\ WTypeOK /\ \A r \in Runners : HasPlan(run[r])

-----------------------------------------------------------------------------
(* The helpers *)

\* get_latest_attempt returns the row inserted last, if there is one.
LEMMA LatestAttemptIsLast ==
  ASSUME IInv
  PROVE  /\ LatestAttempt \in AttemptRow \union {None}
         /\ attempts # <<>> => LatestAttempt = attempts[Len(attempts)]
<1>1. attempts \in Seq(AttemptRow) /\ NumbersGapless
  BY DEF IInv, TypeOK
<1>2. CASE attempts # <<>>
  <2>1. Len(attempts) \in 1..Len(attempts)
    BY <1>1, <1>2, EmptySeq
  <2>2. attempts[Len(attempts)] \in AttemptRow
    BY <1>1, <2>1, ElementOfSeq
  <2>3. Latest = Len(attempts)
    BY <1>1, <1>2, LatestIsLast
  <2>. QED  BY <1>2, <2>2, <2>3 DEF LatestAttempt
<1>. QED  BY <1>2 DEF LatestAttempt

\* A retry is only allowed with a schedule that has attempts left.
LEMMA RetryNeedsPlan ==
  ASSUME NEW ctx \in Context, IsRetryAllowed(ctx)
  PROVE  /\ ctx.mandate = "active"
         /\ ctx.plan \in PlanRow /\ ctx.plan # None /\ ctx.plan.count < ctx.plan.max
         /\ ctx.attempt # None => ctx.attempt.status = "failed"
BY DEF IsRetryAllowed, RemainingRetryAttempts, Context, PlanRow

LEMMA AdvancementIsWrite ==
  ASSUME NEW plan \in PlanRow
  PROVE  Advancement(plan) \in PlanWrite
<1>1. plan.count + 1 \in Nat
  BY DEF PlanRow
<1>2. Advancement(plan) \in {[status |-> "exhausted", count |-> plan.count + 1, max |-> None, time |-> None],
                            [status |-> None, count |-> plan.count + 1, max |-> None, time |-> "later"]}
  BY DEF Advancement, NoWrite
<1>. QED  BY <1>1, <1>2 DEF PlanWrite, RetryStatus, PlanTime

LEMMA CloseOutIsWrite ==
  ASSUME NEW ctx
  PROVE  [NoWrite EXCEPT !.status = CloseOutStatus(ctx)] \in PlanWrite
BY DEF CloseOutStatus, NoWrite, PlanWrite, RetryStatus

-----------------------------------------------------------------------------
(* Steps of a run *)

\* A run moves on: its record is one, and what it stands on is so.
LEMMA RunMoves ==
  ASSUME WInv, IInv', NEW r \in Runners, NEW x \in RunRecord, HasPlan(x),
         run' = [run EXCEPT ![r] = x],
         escalations' \in Nat, spent' \in Nat, failures' \in 0..MaxFailures
  PROVE  WInv'
BY DEF WInv, WTypeOK, IInv, RunRecord, HasPlan

LEMMA RunEnds ==
  ASSUME WInv, IInv', NEW r \in Runners, EndRun(r),
         escalations' \in Nat, spent' \in Nat, failures' \in 0..MaxFailures
  PROVE  WInv'
<1>1. NoRun \in RunRecord /\ HasPlan(NoRun)
  BY DEF NoRun, NoContext, RunRecord, Context, MandateStatus, HasPlan
<1>. QED  BY <1>1, RunMoves DEF EndRun

\* Reaching the next step of the run, with the context it has.
LEMMA RunGoesTo ==
  ASSUME WInv, IInv', NEW r \in Runners,
         NEW pc \in {"escalating", "act", "booking", "advance", "advancing", "closing"},
         Goto(r, pc),
         pc \in {"booking", "advance", "advancing"} => run[r].ctx.plan # None,
         escalations' \in Nat, spent' \in Nat, failures' \in 0..MaxFailures
  PROVE  WInv'
<1>. DEFINE x == [run[r] EXCEPT !.pc = pc]
<1>1. run[r] \in RunRecord
  BY DEF WInv, WTypeOK, RunRecord
<1>2. x \in RunRecord /\ HasPlan(x)
  BY <1>1 DEF RunRecord, HasPlan
<1>3. run' = [run EXCEPT ![r] = x]
  BY DEF Goto
<1>. QED  BY <1>2, <1>3, RunMoves

LEMMA Counters ==
  ASSUME WInv
  PROVE  escalations \in Nat /\ spent \in Nat /\ failures \in 0..MaxFailures
BY DEF WInv, WTypeOK

LEMMA StartStep ==
  ASSUME WInv, NEW r \in Runners, Start(r)
  PROVE  WInv'
<1>. DEFINE x == [pc |-> "picked", ctx |-> [NoContext EXCEPT !.plan = schedule]]
<1>1. Picked(r)
  BY DEF Start, PickDueRetry, RunWorkflow
<1>2. IInv'
  BY <1>1, StoreUntouched DEF Picked, WInv
<1>3. x \in RunRecord /\ HasPlan(x)
  BY DEF WInv, IInv, TypeOK, RunRecord, HasPlan, NoContext, Context, MandateStatus
<1>. QED  BY <1>1, <1>2, <1>3, Counters, RunMoves DEF Picked

LEMMA ReadPlanStep ==
  ASSUME WInv, NEW r \in Runners, ReadPlan(r)
  PROVE  WInv'
<1>1. IInv'
  BY StoreUntouched DEF ReadPlan, WInv
<1>2. run[r] \in RunRecord /\ schedule \in PlanRow \union {None}
  BY DEF WInv, IInv, TypeOK, WTypeOK, RunRecord
<1>3. PICK plan \in {schedule} \union (IF r \in Jobs THEN {run[r].ctx.plan} ELSE {}) :
        run' = [run EXCEPT ![r] = [pc |-> "context", ctx |-> [@.ctx EXCEPT !.plan = plan]]]
  BY DEF ReadPlan
<1>. DEFINE x == [pc |-> "context", ctx |-> [run[r].ctx EXCEPT !.plan = plan]]
<1>4. plan \in PlanRow \union {None}
  BY <1>2, <1>3 DEF RunRecord, Context
<1>5. x \in RunRecord /\ HasPlan(x)
  BY <1>2, <1>4 DEF RunRecord, HasPlan, Context
<1>6. run' = [run EXCEPT ![r] = x]
  BY <1>3
<1>. HIDE DEF x
<1>. QED  BY <1>1, <1>5, <1>6, Counters, RunMoves DEF ReadPlan

LEMMA ReadContextStep ==
  ASSUME WInv, NEW r \in Runners, ReadContext(r)
  PROVE  WInv'
<1>. DEFINE x == [pc |-> "escalate", ctx |-> [run[r].ctx EXCEPT !.mandate = mandate,
                                                               !.attempt = LatestAttempt]]
<1>1. IInv'
  BY StoreUntouched DEF ReadContext, WInv
<1>2. run[r] \in RunRecord /\ mandate \in MandateStatus
  BY DEF WInv, IInv, TypeOK, WTypeOK, RunRecord
<1>3. LatestAttempt \in AttemptRow \union {None}
  BY LatestAttemptIsLast DEF WInv
<1>4. x \in RunRecord /\ HasPlan(x)
  BY <1>2, <1>3 DEF RunRecord, HasPlan, Context
<1>5. run' = [run EXCEPT ![r] = x]
  BY DEF ReadContext
<1>. HIDE DEF x
<1>. QED  BY <1>1, <1>4, <1>5, Counters, RunMoves DEF ReadContext

LEMMA EscalationSteps ==
  ASSUME WInv, NEW r \in Runners, CheckEscalations(r) \/ CreateEscalation(r)
  PROVE  WInv'
<1>1. IInv'
  BY StoreUntouched DEF CheckEscalations, CreateEscalation, storeVars, WInv
<1>2. escalations' \in Nat /\ spent' \in Nat /\ failures' \in 0..MaxFailures
  BY Counters DEF CheckEscalations, CreateEscalation
<1>3. Goto(r, "escalating") \/ Goto(r, "act")
  BY DEF CheckEscalations, CreateEscalation
<1>. QED  BY <1>1, <1>2, <1>3, RunGoesTo

LEMMA ClosePlanStep ==
  ASSUME WInv, NEW r \in Runners, ClosePlan(r)
  PROVE  WInv'
<1>. DEFINE edit == [NoWrite EXCEPT !.status = CloseOutStatus(run[r].ctx)]
<1>1. LoadedPlan(r) \in PlanRow \union {None}
  BY DEF WInv, IInv, TypeOK, WTypeOK, Context, LoadedPlan
<1>2. edit \in PlanWrite
  BY CloseOutIsWrite
<1>3. r \in Sessions
  BY WorkflowAssumption DEF Runners
<1>4. IInv'
  BY <1>1, <1>2, <1>3, BeginUpdatePlanStep DEF ClosePlan, WInv
<1>. QED  BY <1>4, Counters, RunGoesTo DEF ClosePlan

LEMMA BookingSteps ==
  ASSUME WInv, NEW r \in Runners,
         BookAttempt(r) \/ BookingRefused(r) \/ AttemptBooked(r) \/ BookingLost(r)
  PROVE  WInv'
<1>1. r \in Sessions /\ run[r] \in RunRecord
  BY WorkflowAssumption DEF Runners, WInv, WTypeOK, RunRecord
<1>2. CASE BookAttempt(r)
  <2>1. run[r].ctx.plan # None
    BY <1>1, <1>2, RetryNeedsPlan DEF BookAttempt, RunRecord
  <2>2. IInv'
    BY <1>1, <1>2, BeginRecordStep DEF BookAttempt, WInv
  <2>. QED  BY <1>2, <2>1, <2>2, Counters, RunGoesTo DEF BookAttempt
<1>3. CASE BookingRefused(r)
  BY <1>3, StoreUntouched, Counters, RunEnds DEF BookingRefused, WInv
<1>4. CASE AttemptBooked(r)
  <2>1. IInv'
    BY <1>1, <1>4, CommitRecordStep DEF AttemptBooked, WInv
  <2>2. run[r].ctx.plan # None
    BY <1>4 DEF WInv, HasPlan, AttemptBooked, At
  <2>. QED  BY <1>4, <2>1, <2>2, Counters, RunGoesTo DEF AttemptBooked
<1>5. CASE BookingLost(r)
  <2>1. IInv'
    BY <1>1, <1>5, FinishStep DEF BookingLost, Finish, WInv
  <2>. QED  BY <1>5, <2>1, Counters, RunEnds DEF BookingLost
<1>. QED  BY <1>2, <1>3, <1>4, <1>5

LEMMA AdvanceSteps ==
  ASSUME WInv, NEW r \in Runners, AdvancePlan(r) \/ AdvanceRefused(r) \/ PlanUpdated(r)
  PROVE  WInv'
<1>1. r \in Sessions /\ run[r] \in RunRecord /\ schedule \in PlanRow \union {None}
  BY WorkflowAssumption DEF Runners, WInv, WTypeOK, IInv, TypeOK, RunRecord
<1>2. CASE AdvancePlan(r)
  <2>1. run[r].ctx.plan \in PlanRow /\ run[r].ctx.plan # None
    BY <1>1, <1>2 DEF WInv, HasPlan, AdvancePlan, At, RunRecord, Context
  <2>2. IInv'
    BY <1>1, <1>2, <2>1, AdvancementIsWrite, BeginUpdatePlanStep DEF AdvancePlan, WInv
  <2>. QED  BY <1>2, <2>1, <2>2, Counters, RunGoesTo DEF AdvancePlan
<1>3. CASE AdvanceRefused(r)
  BY <1>3, StoreUntouched, Counters, RunEnds DEF AdvanceRefused, WInv
<1>4. CASE PlanUpdated(r)
  <2>1. IInv'
    BY <1>1, <1>4, FinishStep DEF PlanUpdated, Finish, WInv
  <2>. QED  BY <1>4, <2>1, Counters, RunEnds DEF PlanUpdated
<1>. QED  BY <1>2, <1>3, <1>4

LEMMA RunStepStep ==
  ASSUME WInv, NEW r \in Runners, RunStep(r)
  PROVE  WInv'
<1>1. ASSUME ActWithoutPlan(r)
      PROVE  WInv'
  BY <1>1, StoreUntouched, Counters, RunEnds DEF ActWithoutPlan, WInv
<1>. QED  BY <1>1, ReadPlanStep, ReadContextStep, EscalationSteps, ClosePlanStep,
             BookingSteps, AdvanceSteps DEF RunStep

LEMMA RunFailsStep ==
  ASSUME WInv, NEW r \in Runners, RunFails(r)
  PROVE  WInv'
<1>1. r \in Sessions
  BY WorkflowAssumption DEF Runners
<1>2. IInv'
  BY <1>1, ClosedWithoutCommit DEF RunFails, WInv
<1>3. failures' \in 0..MaxFailures /\ escalations' \in Nat /\ spent' \in Nat
  BY WorkflowAssumption DEF RunFails, WInv, WTypeOK
<1>. QED  BY <1>2, <1>3, RunEnds DEF RunFails

\* Only AttemptBooked adds an attempt, none is changed, and no schedule row comes or goes.
LEMMA RunLeaves ==
  ASSUME WInv, NEW r \in Runners, Start(r) \/ RunStep(r) \/ RunFails(r)
  PROVE  /\ \A s \in Callers : txn'[s] = txn[s]
         /\ \A t \in Runners : t # r => run'[t] = run[t]
         /\ schedule' = None <=> schedule = None
         /\ AttemptBooked(r) \/ attempts' = attempts
<1>1. /\ txn \in [Sessions -> TxnState] /\ r \in Sessions /\ r \notin Callers
      /\ run \in [Runners -> RunRecord]
      /\ schedule \in PlanRow \union {None}
  BY WorkflowAssumption DEF WInv, IInv, TypeOK, WTypeOK, Runners, RunRecord
<1>2. CASE Start(r)
  BY <1>1, <1>2 DEF Start, PickDueRetry, RunWorkflow, Picked, storeVars
<1>3. CASE ReadPlan(r) \/ ReadContext(r) \/ CheckEscalations(r) \/ CreateEscalation(r)
           \/ ActWithoutPlan(r) \/ BookingRefused(r) \/ AdvanceRefused(r)
  BY <1>1, <1>3 DEF ReadPlan, ReadContext, CheckEscalations, CreateEscalation, ActWithoutPlan,
     BookingRefused, AdvanceRefused, Goto, EndRun, storeVars
<1>4. CASE ClosePlan(r) \/ BookAttempt(r) \/ BookingLost(r) \/ AdvancePlan(r)
  <2>1. /\ UNCHANGED store
        /\ \E t : txn' = [txn EXCEPT ![r] = t]
        /\ \E x : run' = [run EXCEPT ![r] = x]
    BY <1>4 DEF ClosePlan, BookAttempt, BookingLost, AdvancePlan, BeginUpdatePlan,
       BeginRecord, RejectDuplicateAttempt, Open, Close, Goto, EndRun
  <2>. QED  BY <1>1, <2>1 DEF store
<1>5. CASE AttemptBooked(r)
  BY <1>1, <1>5 DEF AttemptBooked, CommitRecord, Close, Goto
<1>6. CASE PlanUpdated(r)
  <2>1. CASE CommitUpdatePlan(r)
    <3>1. schedule' \in PlanRow
      BY <1>1, <2>1, PlanWriteKeepsRow DEF CommitUpdatePlan, Close, TxnState, Idle
    <3>. QED  BY <1>1, <1>6, <2>1, <3>1, NoneIsNoRow
              DEF PlanUpdated, CommitUpdatePlan, Close, EndRun
  <2>2. CASE RejectUpdatePlan(r)
    BY <1>1, <1>6, <2>2 DEF PlanUpdated, RejectUpdatePlan, Close, EndRun, store
  <2>. QED  BY <1>6, <2>1, <2>2 DEF PlanUpdated
<1>7. CASE RunFails(r)
  BY <1>1, <1>7 DEF RunFails, EndRun, store
<1>. QED  BY <1>2, <1>3, <1>4, <1>5, <1>6, <1>7 DEF RunStep

-----------------------------------------------------------------------------
(* Steps of everyone else *)

LEMMA CallerStoreStep ==
  ASSUME IInv, NEW s \in Callers, CallerStep(s)
  PROVE  IInv'
<1>1. s \in Sessions /\ schedule \in PlanRow \union {None} /\ PlanEdits \subseteq PlanWrite
      /\ OrderOutcomes \subseteq BOOLEAN
  BY WorkflowAssumption, StoreAssumption DEF IInv, TypeOK, PlanWrite
<1>2. ASSUME CallerBegins(s)
      PROVE  IInv'
  BY <1>1, <1>2, BeginTransitionStep, BeginRecordStep, BeginOutcomeStep, BeginCreatePlanStep,
     BeginUpdatePlanStep DEF CallerBegins, PlanTime
<1>. QED  BY <1>1, <1>2, FlushOutcomeStep, FinishStep DEF CallerStep

\* A step that moves no run.
LEMMA RunsUntouched ==
  ASSUME WInv, IInv', run' = run, escalations' \in Nat, spent' \in Nat,
         failures' \in 0..MaxFailures
  PROVE  WInv'
BY DEF WInv, WTypeOK, IInv, HasPlan

LEMMA CallerStepStep ==
  ASSUME WInv, NEW s \in Callers, CallerStep(s)
  PROVE  WInv'
<1>1. IInv'
  BY CallerStoreStep DEF WInv
<1>2. spent' \in Nat /\ escalations' \in Nat /\ failures' \in 0..MaxFailures
  BY Counters DEF CallerStep
<1>. QED  BY <1>1, <1>2, RunsUntouched DEF CallerStep

\* A caller changes its own transaction only, and adds an attempt by recording one.
LEMMA CallerLeaves ==
  ASSUME IInv, NEW s \in Callers, CallerStep(s)
  PROVE  /\ \E t : txn' = [txn EXCEPT ![s] = t]
         /\ Len(attempts') = Len(attempts) \/ (txn[s].op = "record" /\ CommitRecord(s))
<1>1. s \in Sessions
  BY WorkflowAssumption
<1>2. CASE CallerBegins(s) \/ FlushOutcome(s)
  BY <1>2 DEF CallerBegins, BeginTransition, BeginRecord, BeginOutcome, BeginCreatePlan,
     BeginUpdatePlan, Open, FlushOutcome, store
<1>3. CASE Finish(s)
  <2>1. txn' = [txn EXCEPT ![s] = Idle]
    BY <1>3 DEF Finish, CommitTransition, CommitRecord, RejectDuplicateAttempt, CommitOutcome,
       RejectDuplicatePlan, CommitCreatePlan, CommitUpdatePlan, RejectUpdatePlan, Close
  <2>2. CommitOutcome(s) => Len(attempts') = Len(attempts)
    BY <1>1, OutcomeReplaces
  <2>3. CommitRecord(s) => txn[s].op = "record"
    BY DEF CommitRecord, Close
  <2>. QED  BY <1>3, <2>1, <2>2, <2>3 DEF Finish, CommitTransition, RejectDuplicateAttempt,
            RejectDuplicatePlan, CommitCreatePlan, CommitUpdatePlan, RejectUpdatePlan, store
<1>. QED  BY <1>2, <1>3 DEF CallerStep

-----------------------------------------------------------------------------
(* The theorems *)

LEMMA WInvInit == WInit => WInv
<1>. SUFFICES ASSUME WInit PROVE WInv
  OBVIOUS
<1>1. IInv
  BY IInvInit DEF WInit
<1>2. NoRun \in RunRecord /\ HasPlan(NoRun)
  BY DEF NoRun, NoContext, RunRecord, Context, MandateStatus, HasPlan
<1>. QED  BY <1>1, <1>2, WorkflowAssumption DEF WInit, WInv, WTypeOK, IInv, RunRecord

LEMMA WInvStep == WInv /\ [WNext]_vars => WInv'
<1>. SUFFICES ASSUME WInv, [WNext]_vars
              PROVE  WInv'
  OBVIOUS
<1>1. CASE ResolveEscalation
  <2>1. IInv'
    BY <1>1, StoreUntouched DEF ResolveEscalation, WInv
  <2>. QED  BY <1>1, <2>1, Counters, RunsUntouched DEF ResolveEscalation
<1>2. CASE TimePasses
  <2>1. IInv'
    BY <1>2, RetryComesDueStep DEF TimePasses, WInv
  <2>. QED  BY <1>2, <2>1, Counters, RunsUntouched DEF TimePasses
<1>3. CASE UNCHANGED vars
  <2>1. IInv'
    BY <1>3, StoreUntouched DEF vars, WInv
  <2>. QED  BY <1>3, <2>1, Counters, RunsUntouched DEF vars
<1>. QED  BY <1>1, <1>2, <1>3, StartStep, RunStepStep, RunFailsStep, CallerStepStep DEF WNext

THEOREM WorkflowInvariant == WSpec => []WInv
BY WInvInit, WInvStep, PTL DEF WSpec

\* Every variable keeps its type, and the context a run took is one of rows.
THEOREM WorkflowTypes == WSpec => []WTypeOK
<1>1. WInv => WTypeOK
  BY DEF WInv
<1>. QED  BY <1>1, WorkflowInvariant, PTL

\* Any number of runs beside any number of callers leave the budget columns consistent,
\* the attempts numbered without a gap, and no failure without a schedule.
THEOREM RunsKeepRows == WSpec => [](CountWithinMax /\ NumbersGapless /\ FailureHasPlan)
<1>1. WInv => CountWithinMax /\ NumbersGapless /\ FailureHasPlan
  BY DEF WInv, IInv
<1>. QED  BY <1>1, WorkflowInvariant, PTL
=============================================================================
