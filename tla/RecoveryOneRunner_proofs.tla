----------------------- MODULE RecoveryOneRunner_proofs -----------------------
(***************************************************************************)
(* Proofs about RecoveryWorkflow when one session runs the workflow, be it *)
(* the retry job or not: what a run found in its snapshot still decides    *)
(* when it acts.  Any number of callers work beside it.  Three promises    *)
(* need a caller less, as the runs of DoubleCharge.cfg and TwoEscalations  *)
(* .cfg need a runner more to break them:                                  *)
(*   BooksOnlyAfterFailure  attempts are resolved by one caller, once each *)
(*   BudgetKept             nobody edits the schedule                      *)
(*   GivingUpIsEscalated    nobody resolves an escalation                  *)
(***************************************************************************)
EXTENDS RecoveryWorkflow_proofs, FiniteSetTheorems

OneRunner == \A r, t \in Runners : r = t

\* The settlement job alone resolves attempts, those that are still unresolved.
OneSettler == "report" \notin CallerOps /\ \A s, t \in Callers : s = t

-----------------------------------------------------------------------------
(* One escalation is open at most *)

EscalationInv == escalations <= 1 /\ \A r \in Runners : At(r, "escalating") => escalations = 0

\* A step that opens none, and sends no run to open one.
LEMMA NothingEscalated ==
  ASSUME WInv, EscalationInv, NEW r \in Runners, escalations' = escalations,
         \A t \in Runners : t # r => run'[t] = run[t],
         run'[r].pc # "escalating"
  PROVE  EscalationInv'
BY DEF EscalationInv, At

LEMMA EscalationStep ==
  ASSUME OneRunner, WInv, EscalationInv, [WNext]_vars
  PROVE  EscalationInv'
<1>1. /\ run \in [Runners -> RunRecord] /\ escalations \in Nat
  BY DEF WInv, WTypeOK, RunRecord
<1>2. ASSUME NEW r \in Runners, Start(r) \/ RunFails(r)
      PROVE  EscalationInv'
  BY <1>1, <1>2, NothingEscalated DEF Start, PickDueRetry, RunWorkflow, Picked, RunFails,
     EndRun, NoRun
<1>3. ASSUME NEW r \in Runners, CheckEscalations(r)
      PROVE  EscalationInv'
  <2>1. UNCHANGED escalations /\ (Goto(r, "act") \/ (Goto(r, "escalating") /\ escalations = 0))
    BY <1>3 DEF CheckEscalations
  <2>2. CASE Goto(r, "act")
    BY <1>1, <2>1, <2>2, NothingEscalated DEF Goto
  <2>3. CASE escalations = 0
    BY <2>1, <2>3 DEF EscalationInv
  <2>. QED  BY <2>1, <2>2, <2>3
<1>4. ASSUME NEW r \in Runners, CreateEscalation(r)
      PROVE  EscalationInv'
  BY <1>1, <1>4 DEF OneRunner, CreateEscalation, Goto, EscalationInv, At
<1>5. ASSUME NEW r \in Runners, ReadPlan(r) \/ ReadContext(r)
      PROVE  EscalationInv'
  BY <1>1, <1>5, NothingEscalated DEF ReadPlan, ReadContext
<1>6. ASSUME NEW r \in Runners, \/ ActWithoutPlan(r) \/ BookingRefused(r) \/ BookingLost(r)
                                \/ AdvanceRefused(r) \/ PlanUpdated(r)
      PROVE  EscalationInv'
  BY <1>1, <1>6, NothingEscalated DEF ActWithoutPlan, BookingRefused, BookingLost,
     AdvanceRefused, PlanUpdated, EndRun, NoRun
<1>7. ASSUME NEW r \in Runners,
             ClosePlan(r) \/ BookAttempt(r) \/ AttemptBooked(r) \/ AdvancePlan(r)
      PROVE  EscalationInv'
  <2>1. UNCHANGED escalations
        /\ \E pc \in {"closing", "booking", "advance", "advancing"} : Goto(r, pc)
    BY <1>7 DEF ClosePlan, BookAttempt, AttemptBooked, AdvancePlan
  <2>. QED  BY <1>1, <2>1, NothingEscalated DEF Goto
<1>8. ASSUME NEW r \in Runners, RunStep(r)
      PROVE  EscalationInv'
  BY <1>3, <1>4, <1>5, <1>6, <1>7, <1>8 DEF RunStep
<1>9. CASE ResolveEscalation
  BY <1>1, <1>9 DEF ResolveEscalation, EscalationInv, At
<1>10. CASE (\E s \in Callers : CallerStep(s)) \/ TimePasses \/ UNCHANGED vars
  BY <1>10 DEF CallerStep, TimePasses, vars, EscalationInv, At
<1>. QED  BY <1>2, <1>8, <1>9, <1>10 DEF WNext

\* "must not accumulate a new Escalation row every time this node runs": with one session
\* running the workflow the check and the creation cannot be split by another run.
THEOREM OneRunnerOneEscalation == OneRunner /\ WSpec => []OneOpenEscalation
<1>. SUFFICES ASSUME OneRunner PROVE WSpec => []OneOpenEscalation
  OBVIOUS
<1>1. WInit => EscalationInv
  BY DEF WInit, EscalationInv, At, NoRun
<1>2. WInv /\ EscalationInv /\ [WNext]_vars => EscalationInv'
  BY EscalationStep
<1>3. EscalationInv => OneOpenEscalation
  BY DEF EscalationInv, OneOpenEscalation
<1>. QED  BY <1>1, <1>2, <1>3, WorkflowInvariant, PTL DEF WSpec

-----------------------------------------------------------------------------
(* Nobody gives up silently *)

NobodyResolves == "resolve" \notin CallerOps

\* A run past its escalation node has told someone what its snapshot calls for.
ToldInv ==
  \A r \in Runners :
    run[r].pc \in {"act", "closing"} /\ DetermineEscalation(run[r].ctx) # "none" => escalations > 0

\* A step that sends no run past its escalation node.
LEMMA NobodyPasses ==
  ASSUME WInv, ToldInv, NEW r \in Runners, escalations' \in Nat, escalations' >= escalations,
         \A t \in Runners : t # r => run'[t] = run[t],
         run'[r].pc \notin {"act", "closing"}
  PROVE  ToldInv'
BY DEF WInv, WTypeOK, ToldInv

LEMMA ToldStep ==
  ASSUME NobodyResolves, WInv, ToldInv, [WNext]_vars
  PROVE  ToldInv'
<1>1. run \in [Runners -> RunRecord] /\ escalations \in Nat
  BY DEF WInv, WTypeOK, RunRecord
<1>2. ASSUME NEW r \in Runners, Start(r) \/ RunFails(r)
      PROVE  ToldInv'
  BY <1>1, <1>2, NobodyPasses DEF Start, PickDueRetry, RunWorkflow, Picked, RunFails,
     EndRun, NoRun
<1>3. ASSUME NEW r \in Runners, CheckEscalations(r)
      PROVE  ToldInv'
  <2>1. /\ UNCHANGED escalations
        /\ \/ Goto(r, "escalating")
           \/ Goto(r, "act") /\ (DetermineEscalation(run[r].ctx) = "none" \/ escalations # 0)
    BY <1>3 DEF CheckEscalations
  <2>2. CASE Goto(r, "escalating")
    BY <1>1, <2>1, <2>2, NobodyPasses DEF Goto
  <2>3. CASE Goto(r, "act")
    <3>1. /\ run'[r].ctx = run[r].ctx
          /\ \A t \in Runners : t # r => run'[t] = run[t]
      BY <1>1, <2>3 DEF Goto, RunRecord
    <3>2. DetermineEscalation(run[r].ctx) = "none" \/ escalations # 0
      BY <1>1, <2>1, <2>3 DEF Goto, RunRecord
    <3>. QED  BY <1>1, <2>1, <3>1, <3>2 DEF ToldInv
  <2>. QED  BY <2>1, <2>2, <2>3
<1>4. ASSUME NEW r \in Runners, CreateEscalation(r)
      PROVE  ToldInv'
  BY <1>1, <1>4 DEF CreateEscalation, ToldInv
<1>5. ASSUME NEW r \in Runners, ReadPlan(r) \/ ReadContext(r)
      PROVE  ToldInv'
  BY <1>1, <1>5, NobodyPasses DEF ReadPlan, ReadContext
<1>6. ASSUME NEW r \in Runners, \/ ActWithoutPlan(r) \/ BookingRefused(r) \/ BookingLost(r)
                                \/ AdvanceRefused(r) \/ PlanUpdated(r)
      PROVE  ToldInv'
  BY <1>1, <1>6, NobodyPasses DEF ActWithoutPlan, BookingRefused, BookingLost,
     AdvanceRefused, PlanUpdated, EndRun, NoRun
<1>7. ASSUME NEW r \in Runners, BookAttempt(r) \/ AttemptBooked(r) \/ AdvancePlan(r)
      PROVE  ToldInv'
  <2>1. UNCHANGED escalations /\ \E pc \in {"booking", "advance", "advancing"} : Goto(r, pc)
    BY <1>7 DEF BookAttempt, AttemptBooked, AdvancePlan
  <2>. QED  BY <1>1, <2>1, NobodyPasses DEF Goto
<1>8. ASSUME NEW r \in Runners, ClosePlan(r)
      PROVE  ToldInv'
  <2>1. UNCHANGED escalations /\ At(r, "act") /\ Goto(r, "closing")
    BY <1>8 DEF ClosePlan
  <2>2. /\ run'[r].ctx = run[r].ctx /\ run[r].pc = "act"
        /\ \A t \in Runners : t # r => run'[t] = run[t]
    BY <1>1, <2>1 DEF Goto, At, RunRecord
  <2>. QED  BY <2>1, <2>2 DEF ToldInv
<1>9. ASSUME NEW r \in Runners, RunStep(r)
      PROVE  ToldInv'
  BY <1>3, <1>4, <1>5, <1>6, <1>7, <1>8, <1>9 DEF RunStep
<1>10. CASE (\E s \in Callers : CallerStep(s)) \/ TimePasses \/ UNCHANGED vars
  BY <1>10 DEF CallerStep, TimePasses, vars, ToldInv
<1>. QED  BY <1>2, <1>9, <1>10 DEF WNext, ResolveEscalation, NobodyResolves

\* No run closes a schedule over a merchant-side decline, or with its budget gone, without
\* an open escalation -- with any number of runs at once.
THEOREM GivingUpEscalated == NobodyResolves /\ WSpec => []GivingUpIsEscalated
<1>. SUFFICES ASSUME NobodyResolves PROVE WSpec => []GivingUpIsEscalated
  OBVIOUS
<1>1. WInit => ToldInv
  BY DEF WInit, ToldInv, NoRun
<1>2. WInv /\ ToldInv /\ [WNext]_vars => ToldInv'
  BY ToldStep
<1>3. ToldInv => GivingUpIsEscalated
  <2>1. ASSUME NEW ctx, ~Quiet(ctx),
               ctx.attempt.category \in MerchantDeclines \/ RemainingRetryAttempts(ctx) = 0
        PROVE  DetermineEscalation(ctx) # "none"
    BY <2>1 DEF DetermineEscalation
  <2>. QED  BY <2>1 DEF ToldInv, GivingUpIsEscalated, At
<1>. QED  BY <1>1, <1>2, <1>3, WorkflowInvariant, PTL DEF WSpec

-----------------------------------------------------------------------------
(* One attempt is in flight at most *)

LastResolved == attempts[Len(attempts)].status \notin Unresolved

\* A run whose snapshot has a schedule found an attempt too, and a failure stays resolved.
Grounded(x) ==
  /\ x.ctx.plan # None => attempts # <<>>
  /\ x.pc \in {"escalate", "escalating", "act"} /\ x.ctx.plan # None =>
       x.ctx.attempt # None /\ (x.ctx.attempt.status = "failed" => LastResolved)
  /\ x.pc = "booking" => LastResolved

FlightInv ==
  /\ \A i \in 1..(Len(attempts) - 1) : attempts[i].status \notin Unresolved
  /\ \A s \in Callers : /\ txn[s].op = "record" => txn[s].number = 1
                        /\ txn[s].op = "create" => attempts # <<>>
  /\ schedule # None => attempts # <<>>
  /\ \A r \in Runners : Grounded(run[r])

LEMMA FlightInit == WInit => FlightInv
<1>. SUFFICES ASSUME WInit PROVE FlightInv
  OBVIOUS
<1>1. attempts = <<>> /\ Len(attempts) = 0 /\ schedule = None
  BY EmptySeq DEF WInit, Init
<1>2. \A s \in Callers : txn[s].op = "idle"
  BY WorkflowAssumption DEF WInit, Init, Idle
<1>3. \A r \in Runners : Grounded(run[r])
  BY DEF WInit, NoRun, NoContext, Grounded
<1>. QED  BY <1>1, <1>2, <1>3 DEF FlightInv

\* A step that adds no attempt and unresolves none.
LEMMA NoneUnresolved ==
  ASSUME WInv, FlightInv, Len(attempts') = Len(attempts), attempts' = <<>> <=> attempts = <<>>,
         \A i \in 1..Len(attempts) : attempts'[i].status \in Unresolved =>
                                       attempts[i].status \in Unresolved
  PROVE  /\ \A i \in 1..(Len(attempts') - 1) : attempts'[i].status \notin Unresolved
         /\ attempts # <<>> /\ LastResolved => LastResolved'
         /\ \A x : Grounded(x) /\ HasPlan(x) => Grounded(x)'
<1>1. Len(attempts) \in Nat /\ (attempts # <<>> => Len(attempts) \in 1..Len(attempts))
  BY LenProperties, EmptySeq DEF WInv, IInv, TypeOK
<1>2. \A i \in 1..(Len(attempts') - 1) : attempts'[i].status \notin Unresolved
  BY <1>1 DEF FlightInv
<1>3. attempts # <<>> /\ LastResolved => LastResolved'
  BY <1>1 DEF LastResolved
<1>4. \A x : Grounded(x) /\ HasPlan(x) => Grounded(x)'
  BY <1>3 DEF Grounded, HasPlan
<1>. QED  BY <1>2, <1>3, <1>4

LEMMA FlightRunner ==
  ASSUME OneRunner, WInv, FlightInv, NEW r \in Runners, Start(r) \/ RunStep(r) \/ RunFails(r)
  PROVE  FlightInv'
<1>1. /\ \A s \in Callers : txn'[s] = txn[s]
      /\ schedule' = None <=> schedule = None
      /\ AttemptBooked(r) \/ attempts' = attempts
  BY RunLeaves
<1>2. /\ run \in [Runners -> RunRecord] /\ r \in Sessions /\ Len(attempts) \in Nat
      /\ HasPlan(run[r]) /\ Grounded(run[r])
  BY WorkflowAssumption, LenProperties
     DEF WInv, IInv, TypeOK, WTypeOK, Runners, RunRecord, FlightInv
<1>3. CASE attempts' = attempts
  <2>1. SUFFICES Grounded(run[r])'
    BY <1>1, <1>3, <2>1, NoneUnresolved DEF OneRunner, FlightInv
  <2>2. \A x : Grounded(x)' <=> Grounded(x)
    BY <1>3 DEF Grounded, LastResolved
  <2>3. CASE Start(r) \/ RunFails(r)
    BY <1>2, <2>2, <2>3 DEF Start, PickDueRetry, RunWorkflow, Picked, RunFails, EndRun, NoRun,
       NoContext, FlightInv, Grounded
  <2>4. CASE ReadPlan(r)
    BY <1>2, <2>2, <2>4 DEF ReadPlan, FlightInv, Grounded, RunRecord, Context
  <2>5. CASE ReadContext(r)
    <3>. DEFINE x == [pc |-> "escalate",
                      ctx |-> [run[r].ctx EXCEPT !.mandate = mandate, !.attempt = LatestAttempt]]
    <3>1. run'[r] = x /\ x.pc = "escalate" /\ x.ctx.plan = run[r].ctx.plan
          /\ x.ctx.attempt = LatestAttempt
      BY <1>2, <2>5 DEF ReadContext, RunRecord, Context
    <3>2. attempts # <<>> => LatestAttempt = attempts[Len(attempts)] /\ LatestAttempt # None
      <4>1. attempts # <<>> => attempts[Len(attempts)] \in AttemptRow
        BY ElementOfSeq, EmptySeq DEF WInv, IInv, TypeOK
      <4>. QED  BY <4>1, LatestAttemptIsLast, NoneIsNoRow DEF WInv
    <3>. HIDE DEF x
    <3>. QED  BY <1>2, <2>2, <3>1, <3>2 DEF Grounded, LastResolved, Unresolved
  <2>6. CASE CheckEscalations(r) \/ CreateEscalation(r)
    <3>1. (At(r, "escalate") \/ At(r, "escalating")) /\ (Goto(r, "escalating") \/ Goto(r, "act"))
      BY <2>6 DEF CheckEscalations, CreateEscalation
    <3>. QED  BY <1>2, <2>2, <3>1 DEF At, Goto, Grounded, RunRecord
  <2>7. CASE BookAttempt(r)
    <3>1. /\ At(r, "act") /\ Goto(r, "booking")
          /\ run[r].ctx.plan # None
          /\ run[r].ctx.attempt # None => run[r].ctx.attempt.status = "failed"
      BY <1>2, <2>7, RetryNeedsPlan DEF BookAttempt, RunRecord
    <3>. QED  BY <1>2, <2>2, <3>1 DEF At, Goto, Grounded, RunRecord
  <2>8. CASE ClosePlan(r) \/ AttemptBooked(r) \/ AdvancePlan(r)
    <3>1. \E pc \in {"closing", "advance", "advancing"} : Goto(r, pc)
      BY <2>8 DEF ClosePlan, AttemptBooked, AdvancePlan
    <3>. QED  BY <1>2, <2>2, <3>1 DEF Goto, Grounded, RunRecord
  <2>9. CASE ActWithoutPlan(r) \/ BookingRefused(r) \/ BookingLost(r) \/ AdvanceRefused(r)
             \/ PlanUpdated(r)
    BY <1>2, <2>2, <2>9 DEF ActWithoutPlan, BookingRefused, BookingLost, AdvanceRefused,
       PlanUpdated, EndRun, NoRun, NoContext, Grounded
  <2>. QED  BY <2>3, <2>4, <2>5, <2>6, <2>7, <2>8, <2>9 DEF RunStep
\* The booked attempt comes after one that is resolved.
<1>4. CASE AttemptBooked(r)
  <2>1. /\ attempts' \in Seq(AttemptRow) /\ Len(attempts') = Len(attempts) + 1
        /\ \A i \in 1..Len(attempts) : attempts'[i] = attempts[i]
    BY <1>2, <1>4, RecordAppends DEF AttemptBooked, WInv
  <2>2. attempts' # <<>>
    BY <1>2, <2>1, EmptySeq
  <2>3. LastResolved
    BY <1>2, <1>4 DEF AttemptBooked, At, Grounded
  <2>4. \A i \in 1..(Len(attempts') - 1) : attempts'[i].status \notin Unresolved
    BY <1>2, <2>1, <2>3 DEF LastResolved, FlightInv
  <2>5. run'[r].pc = "advance"
    BY <1>2, <1>4 DEF AttemptBooked, Goto
  <2>6. Grounded(run[r])'
    BY <2>2, <2>5 DEF Grounded
  <2>. QED  BY <1>1, <2>2, <2>4, <2>6 DEF OneRunner, FlightInv
<1>. QED  BY <1>1, <1>3, <1>4

LEMMA FlightCaller ==
  ASSUME WInv, FlightInv, NEW s \in Callers, CallerStep(s)
  PROVE  FlightInv'
<1>1. /\ run' = run /\ s \in Sessions /\ txn \in [Sessions -> TxnState]
      /\ Callers \subseteq Sessions
      /\ attempts \in Seq(AttemptRow) /\ Len(attempts) \in Nat
      /\ \A r \in Runners : HasPlan(run[r]) /\ Grounded(run[r])
  BY WorkflowAssumption, LenProperties DEF CallerStep, WInv, IInv, TypeOK, FlightInv
<1>2. CASE CallerBegins(s)
  <2>1. UNCHANGED store /\ \E t : txn' = [txn EXCEPT ![s] = t]
    BY <1>2 DEF CallerBegins, BeginTransition, BeginRecord, BeginOutcome, BeginCreatePlan,
       BeginUpdatePlan, Open
  <2>2. /\ txn'[s].op = "record" => txn'[s].number = 1
        /\ txn'[s].op = "create" => attempts # <<>>
    <3>1. ASSUME NEW order, attempts = <<>>, BeginRecord(s, order)
          PROVE  txn'[s].op = "record" /\ txn'[s].number = 1
      BY <1>1, <3>1 DEF BeginRecord, Open, LatestNumber
    <3>2. ASSUME NEW max, attempts # <<>>, BeginCreatePlan(s, max, "later")
          PROVE  txn'[s].op = "create" /\ attempts # <<>>
      BY <1>1, <3>2 DEF BeginCreatePlan, Open
    <3>3. ASSUME NEW target, BeginTransition(s, target)
          PROVE  txn'[s].op = "transition"
      BY <1>1, <3>3 DEF BeginTransition, Open
    <3>4. ASSUME NEW a, NEW status, NEW c, NEW time, BeginOutcome(s, a, status, c, time)
          PROVE  txn'[s].op = "outcome"
      BY <1>1, <3>4 DEF BeginOutcome, Open
    <3>5. ASSUME NEW edit, BeginUpdatePlan(s, schedule, edit)
          PROVE  txn'[s].op = "update"
      BY <1>1, <3>5 DEF BeginUpdatePlan, Open
    <3>. QED  BY <1>2, <3>1, <3>2, <3>3, <3>4, <3>5 DEF CallerBegins
  <2>. QED  BY <1>1, <2>1, <2>2 DEF FlightInv, Grounded, LastResolved, store
<1>3. CASE FlushOutcome(s)
  <2>1. UNCHANGED store /\ \E t : t.op = "flushed" /\ txn' = [txn EXCEPT ![s] = t]
    BY <1>3 DEF FlushOutcome
  <2>. QED  BY <1>1, <2>1 DEF FlightInv, Grounded, LastResolved, store
<1>4. CASE Finish(s)
  <2>1. txn' = [txn EXCEPT ![s] = Idle]
    BY <1>4 DEF Finish, CommitTransition, CommitRecord, RejectDuplicateAttempt, CommitOutcome,
       RejectDuplicatePlan, CommitCreatePlan, CommitUpdatePlan, RejectUpdatePlan, Close
  <2>2. \A t \in Callers : txn'[t] = txn[t] \/ txn'[t].op = "idle"
    BY <1>1, <2>1 DEF Idle
  <2>3. CASE CommitRecord(s)
    <3>1. /\ txn[s].number = Len(attempts) + 1
          /\ attempts' \in Seq(AttemptRow) /\ Len(attempts') = Len(attempts) + 1
      BY <1>1, <2>3, RecordAppends DEF WInv
    <3>2. txn[s].number = 1
      BY <2>3 DEF CommitRecord, Close, FlightInv
    <3>3. attempts = <<>> /\ Len(attempts') = 1 /\ attempts' # <<>>
      BY <1>1, <3>1, <3>2, EmptySeq
    <3>4. \A r \in Runners : run[r].ctx.plan = None
      BY <3>3 DEF FlightInv, Grounded
    <3>5. \A r \in Runners : Grounded(run[r])'
      BY <1>1, <3>3, <3>4 DEF Grounded, HasPlan
    <3>. QED  BY <2>2, <3>3, <3>5 DEF FlightInv
  <2>4. CASE CommitOutcome(s)
    <3>1. /\ txn[s].attempt \in 1..Len(attempts) /\ Len(attempts') = Len(attempts)
          /\ attempts' \in Seq(AttemptRow)
          /\ \A i \in 1..Len(attempts) :
               attempts'[i].status \in {attempts[i].status, "succeeded", "failed"}
      BY <1>1, <2>4, OutcomeReplaces DEF WInv
    <3>2. attempts # <<>> /\ attempts' # <<>>
      BY <1>1, <3>1, EmptySeq
    <3>3. \A i \in 1..Len(attempts) : attempts'[i].status \in Unresolved =>
                                        attempts[i].status \in Unresolved
      BY <3>1 DEF Unresolved
    <3>. QED  BY <1>1, <2>2, <3>1, <3>2, <3>3, NoneUnresolved DEF FlightInv
  <2>5. CASE CommitCreatePlan(s)
    <3>1. attempts # <<>> /\ attempts' = attempts
      BY <2>5 DEF CommitCreatePlan, Close, FlightInv
    <3>. QED  BY <1>1, <2>2, <3>1 DEF FlightInv, Grounded, LastResolved
  <2>6. CASE CommitTransition(s) \/ CommitUpdatePlan(s) \/ RejectDuplicateAttempt(s)
             \/ RejectDuplicatePlan(s) \/ RejectUpdatePlan(s)
    <3>1. attempts' = attempts /\ (schedule' # None => schedule # None)
      BY <2>6 DEF CommitTransition, CommitUpdatePlan, RejectDuplicateAttempt,
         RejectDuplicatePlan, RejectUpdatePlan, store
    <3>. QED  BY <1>1, <2>2, <3>1 DEF FlightInv, Grounded, LastResolved
  <2>. QED  BY <1>4, <2>3, <2>4, <2>5, <2>6 DEF Finish
<1>. QED  BY <1>2, <1>3, <1>4 DEF CallerStep

LEMMA FlightStep ==
  ASSUME OneRunner, WInv, FlightInv, [WNext]_vars
  PROVE  FlightInv'
<1>1. CASE ResolveEscalation \/ UNCHANGED vars
  BY <1>1 DEF ResolveEscalation, vars, storeVars, FlightInv, Grounded, LastResolved
<1>2. CASE TimePasses
  BY <1>2 DEF TimePasses, RetryComesDue, FlightInv, Grounded, LastResolved
<1>. QED  BY <1>1, <1>2, FlightRunner, FlightCaller DEF WNext

\* "a second real charge could be attempted on top of one that's already in flight": with
\* one session running the workflow two attempts are never unresolved at once, whatever
\* callers collect, report, edit, pause and cancel meanwhile.
THEOREM OneRunnerOneInFlight == OneRunner /\ WSpec => []OneInFlight
<1>. SUFFICES ASSUME OneRunner PROVE WSpec => []OneInFlight
  OBVIOUS
<1>1. WInv /\ FlightInv /\ [WNext]_vars => FlightInv'
  BY FlightStep
<1>2. WInv /\ FlightInv => OneInFlight
  <2>. SUFFICES ASSUME WInv, FlightInv PROVE OneInFlight
    OBVIOUS
  <2>. DEFINE U == {i \in DOMAIN attempts : attempts[i].status \in Unresolved}
  <2>1. DOMAIN attempts = 1..Len(attempts) /\ Len(attempts) \in Nat
    BY LenProperties DEF WInv, IInv, TypeOK
  <2>2. U \subseteq {Len(attempts)}
    BY <2>1 DEF FlightInv
  <2>. DEFINE One == {Len(attempts)}
  <2>3. IsFiniteSet(One) /\ Cardinality(One) = 1
    BY FS_Singleton
  <2>4. U \in SUBSET One
    BY <2>2
  <2>5. Cardinality(U) <= Cardinality(One)
    <3>. HIDE DEF U, One
    <3>. QED  BY <2>3, <2>4, FS_Subset
  <2>. QED  BY <2>3, <2>5 DEF OneInFlight
<1>. QED  BY <1>1, <1>2, FlightInit, WorkflowInvariant, PTL DEF WSpec

-----------------------------------------------------------------------------
(* The retry budget *)

NobodyEdits == "edit" \notin CallerOps

Count == IF schedule = None THEN 0 ELSE schedule.count

\* Between booking an attempt and counting it.
Uncounted(x) == x.pc \in {"advance", "advancing"}

\* The schedule of a run's snapshot is the mandate's, and its count was never behind;
\* what the run is about to write counts one more than it found.
OnPlan(x, t) ==
  /\ x.ctx.plan # None => /\ schedule # None
                          /\ schedule.max = x.ctx.plan.max
                          /\ schedule.count <= x.ctx.plan.count
  /\ x.pc = "booking" \/ Uncounted(x) => x.ctx.plan.count < x.ctx.plan.max
  /\ x.pc = "advancing" => t.write.count = x.ctx.plan.count + 1 /\ t.write.max = None
  /\ x.pc = "closing" => t.write.count = None /\ t.write.max = None

\* Callers write the count only by starting the budget over.
OnlyRestarts(t) ==
  /\ t.op # "update"
  /\ t.op = "create" => t.row.count = 0
  /\ t.op = "flushed" /\ (t.insert \/ t.plan.count # None) => Restarts(t) /\ t.plan.count = 0

SpentCounted ==
  /\ spent <= Count + failures + 1
  /\ (\A r \in Runners : ~Uncounted(run[r])) => spent <= Count + failures

BudgetInv ==
  /\ SpentCounted
  /\ \A s \in Callers : OnlyRestarts(txn[s])
  /\ \A r \in Runners : OnPlan(run[r], txn[r])

LEMMA BudgetInit == WInit => BudgetInv
BY WorkflowAssumption DEF WInit, Init, BudgetInv, SpentCounted, Count, OnlyRestarts, OnPlan,
   Uncounted, NoRun, NoContext, Idle, Runners

\* A step of the one run that neither spends nor counts.
LEMMA NothingSpent ==
  ASSUME OneRunner, BudgetInv, NEW r \in Runners, UNCHANGED <<schedule, spent, failures>>,
         \A s \in Callers : txn'[s] = txn[s],
         Uncounted(run[r]) => Uncounted(run'[r]),
         OnPlan(run'[r], txn'[r])
  PROVE  BudgetInv'
BY DEF OneRunner, BudgetInv, SpentCounted, Count, OnPlan, OnlyRestarts, Restarts, Uncounted

\* A write of the schedule counts what it says, if its columns differ from the row's.
LEMMA ColumnsWritten ==
  ASSUME NEW plan \in PlanRow, NEW edit \in PlanWrite, edit.max = None
  PROVE  /\ PlanColumns(plan, edit).max = None
         /\ edit.count = None => PlanColumns(plan, edit).count = None
         /\ edit.count # None /\ edit.count # plan.count => PlanColumns(plan, edit).count = edit.count
BY DEF PlanColumns, Changed, Written

LEMMA BudgetRunner ==
  ASSUME OneRunner, WInv, BudgetInv, NEW r \in Runners, Start(r) \/ RunStep(r) \/ RunFails(r)
  PROVE  BudgetInv'
<1>1. /\ \A s \in Callers : txn'[s] = txn[s]
      /\ run \in [Runners -> RunRecord] /\ run[r] \in RunRecord
      /\ txn \in [Sessions -> TxnState] /\ r \in Sessions
      /\ schedule \in PlanRow \union {None} /\ schedule # None => WithinMax(schedule)
      /\ failures \in Nat /\ spent \in Nat
      /\ HasPlan(run[r]) /\ OnPlan(run[r], txn[r])
  BY RunLeaves, WorkflowAssumption
     DEF WInv, IInv, TypeOK, WTypeOK, CountWithinMax, Runners, RunRecord, BudgetInv
<1>0. /\ run[r].ctx.plan # None => run[r].ctx.plan \in PlanRow
      /\ schedule # None => schedule \in PlanRow /\ WithinMax(schedule)
      /\ Count \in Nat /\ failures \in Nat /\ spent \in Nat
  <2>1. run[r].ctx.plan \in PlanRow \union {None}
    BY <1>1 DEF RunRecord, Context
  <2>2. schedule # None => schedule \in PlanRow /\ WithinMax(schedule)
    BY DEF WInv, IInv, TypeOK, CountWithinMax
  <2>3. Count \in Nat
    BY <2>2 DEF Count, PlanRow
  <2>. QED  BY <1>1, <2>1, <2>2, <2>3
<1>2. CASE Start(r)
  <2>1. /\ UNCHANGED <<schedule, spent, failures>> /\ At(r, "idle")
        /\ run' = [run EXCEPT ![r] = [pc |-> "picked", ctx |-> [NoContext EXCEPT !.plan = schedule]]]
    BY <1>2 DEF Start, PickDueRetry, RunWorkflow, Picked, storeVars
  <2>2. run'[r].pc = "picked" /\ run'[r].ctx.plan = schedule
    BY <1>1, <2>1 DEF NoContext
  <2>3. OnPlan(run'[r], txn'[r]) /\ ~Uncounted(run[r])
    BY <1>0, <2>1, <2>2 DEF OnPlan, Uncounted, At, PlanRow
  <2>. QED  BY <1>1, <2>1, <2>3, NothingSpent
<1>3. CASE ReadPlan(r)
  <2>1. /\ UNCHANGED <<schedule, spent, failures>> /\ At(r, "picked")
        /\ run'[r].pc = "context" /\ run'[r].ctx.plan \in {schedule, run[r].ctx.plan}
    BY <1>1, <1>3 DEF ReadPlan, storeVars, RunRecord, Context
  <2>2. OnPlan(run'[r], txn'[r]) /\ ~Uncounted(run[r])
    BY <1>0, <1>1, <2>1 DEF OnPlan, Uncounted, At, PlanRow
  <2>. QED  BY <1>1, <2>1, <2>2, NothingSpent
<1>4. CASE ReadContext(r)
  BY <1>1, <1>4, NothingSpent DEF ReadContext, storeVars, At, Uncounted, OnPlan, RunRecord, Context
<1>5. CASE CheckEscalations(r) \/ CreateEscalation(r)
  <2>1. /\ UNCHANGED <<storeVars, spent, failures>>
        /\ At(r, "escalate") \/ At(r, "escalating")
        /\ Goto(r, "escalating") \/ Goto(r, "act")
    BY <1>5 DEF CheckEscalations, CreateEscalation
  <2>. QED  BY <1>1, <2>1, NothingSpent DEF storeVars, At, Goto, Uncounted, OnPlan, RunRecord
<1>6. CASE ActWithoutPlan(r) \/ BookingRefused(r) \/ BookingLost(r)
  <2>1. /\ UNCHANGED <<schedule, spent, failures>>
        /\ At(r, "act") \/ At(r, "booking")
        /\ EndRun(r)
    BY <1>6 DEF ActWithoutPlan, BookingRefused, BookingLost, RejectDuplicateAttempt, storeVars,
       store
  <2>. QED  BY <1>1, <2>1, NothingSpent DEF At, EndRun, NoRun, NoContext, Uncounted, OnPlan
<1>7. CASE ClosePlan(r)
  <2>. DEFINE edit == [NoWrite EXCEPT !.status = CloseOutStatus(run[r].ctx)]
              w == PlanColumns(LoadedPlan(r), edit)
  <2>1. LoadedPlan(r) \in PlanRow
    BY <1>0, <1>7 DEF ClosePlan, BeginUpdatePlan, LoadedPlan
  <2>2. edit \in PlanWrite /\ edit.max = None /\ edit.count = None
    BY CloseOutIsWrite DEF NoWrite
  <2>3. w.max = None /\ w.count = None
    BY <2>1, <2>2, ColumnsWritten
  <2>4. /\ UNCHANGED <<schedule, spent, failures>>
        /\ txn' = [txn EXCEPT ![r] = [op |-> "update", write |-> w]]
        /\ At(r, "act") /\ Goto(r, "closing")
    BY <1>7 DEF ClosePlan, BeginUpdatePlan, Open, store
  <2>. HIDE DEF w
  <2>. QED  BY <1>1, <2>3, <2>4, NothingSpent DEF At, Goto, Uncounted, OnPlan, RunRecord
<1>8. CASE BookAttempt(r)
  <2>1. /\ UNCHANGED <<schedule, spent, failures>> /\ At(r, "act") /\ Goto(r, "booking")
        /\ run[r].ctx.plan.count < run[r].ctx.plan.max
    BY <1>1, <1>8, RetryNeedsPlan DEF BookAttempt, BeginRecord, store, RunRecord
  <2>. QED  BY <1>1, <2>1, NothingSpent DEF At, Goto, Uncounted, OnPlan, RunRecord
<1>9. CASE AttemptBooked(r)
  <2>1. /\ UNCHANGED <<schedule, failures>> /\ spent' = spent + 1
        /\ At(r, "booking") /\ Goto(r, "advance")
    BY <1>9 DEF AttemptBooked, CommitRecord
  <2>2. /\ \A t \in Runners : ~Uncounted(run[t])
        /\ run'[r].pc = "advance" /\ run'[r].ctx = run[r].ctx
    BY <1>1, <2>1 DEF OneRunner, At, Goto, Uncounted, RunRecord
  <2>3. SpentCounted'
    BY <1>0, <2>1, <2>2 DEF BudgetInv, SpentCounted, Count, Uncounted
  <2>4. OnPlan(run[r], txn[r])'
    BY <1>1, <2>1, <2>2 DEF OnPlan, Uncounted, At
  <2>. QED  BY <1>1, <2>3, <2>4 DEF OneRunner, BudgetInv, OnlyRestarts, Restarts
<1>10. CASE AdvancePlan(r)
  <2>. DEFINE plan == run[r].ctx.plan
              edit == Advancement(plan)
              w == PlanColumns(schedule, edit)
  <2>1. /\ UNCHANGED <<schedule, spent, failures>>
        /\ txn' = [txn EXCEPT ![r] = [op |-> "update", write |-> w]]
        /\ At(r, "advance") /\ Goto(r, "advancing")
        /\ schedule \in PlanRow
    BY <1>0, <1>10 DEF AdvancePlan, BeginUpdatePlan, Open, store
  <2>2. plan \in PlanRow /\ schedule.count <= plan.count
    BY <1>0, <1>1, <2>1 DEF At, HasPlan, OnPlan
  <2>3. edit \in PlanWrite /\ edit.max = None /\ edit.count = plan.count + 1
    BY <2>2, AdvancementIsWrite DEF Advancement, NoWrite
  <2>4. edit.count # schedule.count /\ edit.count # None
    <3>1. schedule.count \in Nat /\ plan.count \in Nat
      BY <2>1, <2>2 DEF PlanRow
    <3>2. edit.count # schedule.count
      BY <2>2, <2>3, <3>1
    <3>. QED  BY <3>1, <3>2, <2>3, NoneIsNoCount
  <2>5. w.max = None /\ w.count = plan.count + 1
    BY <2>1, <2>3, <2>4, ColumnsWritten
  <2>. HIDE DEF w
  <2>. QED  BY <1>1, <2>1, <2>5, NothingSpent DEF At, Goto, Uncounted, OnPlan, RunRecord
<1>11. CASE PlanUpdated(r) /\ At(r, "closing")
  <2>1. /\ UNCHANGED <<spent, failures>> /\ EndRun(r)
        /\ txn[r].write.count = None /\ txn[r].write.max = None
        /\ schedule' = schedule \/ (schedule # None /\ schedule' = ApplyPlanWrite(schedule, txn[r].write))
    BY <1>1, <1>11 DEF PlanUpdated, CommitUpdatePlan, RejectUpdatePlan, store, At, OnPlan
  <2>2. Count' = Count
    BY <1>1, <2>1, RunLeaves DEF Count, ApplyPlanWrite, Written
  <2>3. run'[r] = NoRun /\ OnPlan(run[r], txn[r])'
    BY <1>1, <2>1 DEF EndRun, NoRun, NoContext, OnPlan, Uncounted
  <2>4. SpentCounted'
    BY <1>11, <2>1, <2>2, <2>3 DEF OneRunner, BudgetInv, SpentCounted, At, Uncounted
  <2>. QED  BY <1>1, <2>3, <2>4 DEF OneRunner, BudgetInv, OnlyRestarts, Restarts
\* The write counts the attempt, and nothing has lowered the maximum meanwhile.
<1>12. CASE PlanUpdated(r) /\ At(r, "advancing")
  <2>. DEFINE plan == run[r].ctx.plan
              w == txn[r].write
  <2>1. /\ plan \in PlanRow /\ schedule \in PlanRow /\ schedule # None
        /\ plan.count < plan.max /\ schedule.max = plan.max /\ schedule.count <= plan.count
        /\ w.count = plan.count + 1 /\ w.max = None
    BY <1>0, <1>1, <1>12 DEF At, HasPlan, OnPlan, Uncounted
  <2>2. /\ ApplyPlanWrite(schedule, w).count = plan.count + 1
        /\ ApplyPlanWrite(schedule, w).max = schedule.max
    <3>1. plan.count + 1 # None
      BY <2>1, NoneIsNoCount DEF PlanRow
    <3>. QED  BY <2>1, <3>1 DEF ApplyPlanWrite, Written
  <2>3. WithinMax(ApplyPlanWrite(schedule, w))
    BY <2>1, <2>2 DEF WithinMax, PlanRow
  <2>4. /\ UNCHANGED <<spent, failures>> /\ EndRun(r)
        /\ schedule' = ApplyPlanWrite(schedule, w)
    BY <1>12, <2>1, <2>3 DEF PlanUpdated, CommitUpdatePlan, RejectUpdatePlan
  <2>5. schedule' # None
    BY <1>1, <2>1, RunLeaves
  <2>6. Count' = plan.count + 1 /\ Count = schedule.count
    BY <2>1, <2>2, <2>4, <2>5 DEF Count
  <2>7. run'[r] = NoRun /\ OnPlan(run[r], txn[r])'
    BY <1>1, <2>4 DEF EndRun, NoRun, NoContext, OnPlan, Uncounted
  <2>8. SpentCounted'
    <3>. HIDE DEF plan
    <3>1. spent' <= Count' + failures'
      BY <1>1, <2>1, <2>4, <2>6 DEF BudgetInv, SpentCounted, PlanRow
    <3>. QED  BY <1>1, <2>1, <2>4, <2>6, <3>1 DEF SpentCounted, PlanRow
  <2>. QED  BY <1>1, <2>7, <2>8 DEF OneRunner, BudgetInv, OnlyRestarts, Restarts
<1>13. CASE AdvanceRefused(r)
  <2>. DEFINE plan == run[r].ctx.plan
              edit == Advancement(plan)
  <2>1. /\ plan \in PlanRow /\ schedule \in PlanRow /\ schedule # None
        /\ plan.count < plan.max /\ schedule.max = plan.max
    BY <1>0, <1>1, <1>13 DEF AdvanceRefused, At, HasPlan, OnPlan, Uncounted
  <2>2. edit.count = plan.count + 1 /\ edit.max = None
    BY DEF Advancement, NoWrite
  <2>3. plan.count + 1 # None
    BY <2>1, NoneIsNoCount DEF PlanRow
  <2>. HIDE DEF edit
  <2>4. WithinMax(ApplyPlanWrite(schedule, edit))
    BY <2>1, <2>2, <2>3 DEF ApplyPlanWrite, Written, WithinMax, PlanRow
  <2>. QED  BY <1>13, <2>4 DEF AdvanceRefused, edit
<1>14. CASE RunFails(r)
  <2>1. /\ UNCHANGED <<schedule, spent>> /\ failures' = failures + 1 /\ run'[r] = NoRun
    BY <1>1, <1>14 DEF RunFails, EndRun, store
  <2>2. SpentCounted'
    BY <1>0, <2>1 DEF BudgetInv, SpentCounted, Count
  <2>3. OnPlan(run[r], txn[r])'
    BY <2>1 DEF NoRun, NoContext, OnPlan, Uncounted
  <2>. QED  BY <1>1, <2>1, <2>2, <2>3 DEF OneRunner, BudgetInv, OnlyRestarts, Restarts
<1>15. PlanUpdated(r) => At(r, "closing") \/ At(r, "advancing")
  BY DEF PlanUpdated
<1>. QED  BY <1>2, <1>3, <1>4, <1>5, <1>6, <1>7, <1>8, <1>9, <1>10, <1>11, <1>12, <1>13, <1>14,
             <1>15 DEF RunStep

\* A caller's commit keeps the maximum of a schedule, and its count unless it starts over.
LEMMA CallerSchedules ==
  ASSUME WInv, BudgetInv, NEW s \in Callers, Finish(s)
  PROVE  /\ txn' = [txn EXCEPT ![s] = Idle]
         /\ schedule # None => /\ schedule' # None /\ schedule'.max = schedule.max
                               /\ schedule'.count \in {schedule.count, 0}
         /\ Count' = Count \/ (Count' = 0 /\ Restarts(txn[s]) /\ schedule' # schedule)
<1>1. /\ s \in Sessions /\ txn \in [Sessions -> TxnState] /\ schedule \in PlanRow \union {None}
      /\ OnlyRestarts(txn[s]) /\ SessionOK(txn[s])
      /\ schedule' \in PlanRow \union {None}
  BY WorkflowAssumption, FinishStep DEF WInv, IInv, TypeOK, SessionsOK, BudgetInv
<1>2. txn' = [txn EXCEPT ![s] = Idle]
  BY DEF Finish, CommitTransition, CommitRecord, RejectDuplicateAttempt, CommitOutcome,
     RejectDuplicatePlan, CommitCreatePlan, CommitUpdatePlan, RejectUpdatePlan, Close
<1>3. CASE CommitOutcome(s)
  <2>. DEFINE t == txn[s]
  <2>1. /\ schedule' = PlanAfter(t) /\ t.op = "flushed"
        /\ ~(t.insert /\ schedule # None) /\ t.plan \in PlanWrite
        /\ t.insert \/ t.plan.count # None => Restarts(t) /\ t.plan.count = 0
        /\ ~t.insert => t.plan.count \in {0, None} /\ t.plan.max = None
    BY <1>1, <1>3 DEF CommitOutcome, Close, TxnState, Idle, OnlyRestarts, SessionOK
  <2>2. CASE schedule = None
    <3>1. schedule' = None \/ (schedule' = t.plan /\ t.plan.count = 0)
      BY <2>1, <2>2 DEF PlanAfter
    <3>. QED  BY <1>2, <2>2, <3>1 DEF Count
  <2>3. CASE schedule # None
    <3>1. schedule \in PlanRow /\ schedule' = ApplyPlanWrite(schedule, t.plan)
          /\ ~t.insert
      BY <1>1, <2>1, <2>3 DEF PlanAfter
    <3>2. schedule' # None
      BY <2>1, <3>1, PlanWriteKeepsRow, NoneIsNoRow
    <3>3. schedule'.max = schedule.max
      BY <2>1, <3>1 DEF ApplyPlanWrite, Written
    <3>4. CASE t.plan.count = None
      BY <1>2, <2>3, <3>1, <3>2, <3>3, <3>4 DEF Count, ApplyPlanWrite, Written
    <3>5. CASE t.plan.count # None
      <4>1. schedule'.count = 0 /\ Restarts(t)
        BY <2>1, <3>1, <3>5 DEF ApplyPlanWrite, Written
      <4>. QED  BY <1>2, <2>3, <3>2, <3>3, <4>1 DEF Count
    <3>. QED  BY <3>4, <3>5
  <2>. QED  BY <2>2, <2>3
<1>4. CASE CommitCreatePlan(s)
  <2>1. schedule' = (IF schedule = None THEN txn[s].row ELSE schedule) /\ txn[s].row.count = 0
    BY <1>1, <1>4 DEF CommitCreatePlan, Close, OnlyRestarts
  <2>. QED  BY <1>2, <2>1 DEF Count
<1>5. schedule' = schedule \/ CommitOutcome(s) \/ CommitCreatePlan(s)
  BY <1>1 DEF Finish, CommitTransition, CommitRecord, RejectDuplicateAttempt,
     RejectDuplicatePlan, CommitUpdatePlan, RejectUpdatePlan, Close, OnlyRestarts, store
<1>. QED  BY <1>2, <1>3, <1>4, <1>5 DEF Count

LEMMA BudgetCaller ==
  ASSUME NobodyEdits, WInv, BudgetInv, NEW s \in Callers, CallerStep(s)
  PROVE  BudgetInv'
<1>1. /\ s \in Sessions /\ txn \in [Sessions -> TxnState]
      /\ \A r \in Runners : r \in Sessions /\ r # s
      /\ Callers \subseteq Sessions
      /\ UNCHANGED <<run, failures>>
      /\ Count \in Nat /\ failures \in Nat
  BY WorkflowAssumption DEF WInv, IInv, TypeOK, WTypeOK, Count, PlanRow, Runners, CallerStep
\* Beginning and flushing leave the rows alone.
<1>2. ASSUME NEW t, txn' = [txn EXCEPT ![s] = t], schedule' = schedule, OnlyRestarts(t)
      PROVE  BudgetInv'
  <2>1. spent' = spent
    BY <1>2 DEF CallerStep
  <2>2. /\ \A c \in Callers : OnlyRestarts(txn'[c])
        /\ \A r \in Runners : txn'[r] = txn[r]
    BY <1>1, <1>2 DEF BudgetInv
  <2>. QED  BY <1>1, <1>2, <2>1, <2>2 DEF BudgetInv, SpentCounted, Count, OnPlan, OnlyRestarts,
            Restarts
<1>3. CASE CallerBegins(s)
  <2>1. /\ UNCHANGED store
        /\ \E t : /\ \/ t.op \in {"transition", "record", "outcome"}
                     \/ t.op = "create" /\ t.row.count = 0
                  /\ txn' = [txn EXCEPT ![s] = t]
    BY <1>3 DEF NobodyEdits, CallerBegins, BeginTransition, BeginRecord, BeginOutcome,
       BeginCreatePlan, Open
  <2>. QED  BY <1>2, <2>1 DEF OnlyRestarts, store
<1>4. CASE FlushOutcome(s)
  <2>. DEFINE e == PlanEffect(txn[s], schedule)
              t == [op |-> "flushed", attempt |-> txn[s].attempt, status |-> txn[s].status,
                    write |-> txn[s].write, insert |-> e.insert, plan |-> e.plan]
  <2>1. txn[s].status \in {"succeeded", "failed"}
    BY <1>1, <1>4 DEF FlushOutcome, TxnState, Idle
  <2>2. e.insert \/ e.plan.count # None =>
          txn[s].status = "failed" /\ e.plan.status = "pending" /\ e.plan.count = 0
    BY <2>1 DEF PlanEffect, ResolvePlan, EnsurePlan, NoWrite, Changed
  <2>3. OnlyRestarts(t)
    BY <2>2 DEF OnlyRestarts, Restarts
  <2>4. txn' = [txn EXCEPT ![s] = t] /\ UNCHANGED store
    BY <1>4 DEF FlushOutcome
  <2>. QED  BY <1>2, <2>3, <2>4 DEF store
<1>5. CASE Finish(s)
  <2>1. /\ txn' = [txn EXCEPT ![s] = Idle]
        /\ schedule # None => /\ schedule' # None /\ schedule'.max = schedule.max
                              /\ schedule'.count \in {schedule.count, 0}
        /\ Count' = Count \/ (Count' = 0 /\ Restarts(txn[s]) /\ schedule' # schedule)
    BY <1>5, CallerSchedules
  <2>2. \A c \in Callers : OnlyRestarts(txn[c])'
    BY <1>1, <2>1 DEF BudgetInv, Idle, OnlyRestarts, Restarts
  <2>3. \A r \in Runners : OnPlan(run[r], txn[r])'
    <3>. SUFFICES ASSUME NEW r \in Runners PROVE OnPlan(run[r], txn[r])'
      OBVIOUS
    <3>1. txn'[r] = txn[r] /\ run'[r] = run[r] /\ OnPlan(run[r], txn[r])
      BY <1>1, <2>1 DEF BudgetInv
    <3>2. run[r].ctx.plan \in PlanRow \union {None}
      BY DEF WInv, WTypeOK, Context
    <3>3. run[r].ctx.plan # None => schedule'.count <= run[r].ctx.plan.count
      BY <2>1, <3>1, <3>2 DEF OnPlan, PlanRow
    <3>. QED  BY <2>1, <3>1, <3>3 DEF OnPlan, Uncounted
  <2>4. SpentCounted'
    <3>1. spent' = spent \/ spent' = 0
      BY DEF CallerStep
    <3>2. (Count' = Count /\ spent' = spent) \/ spent' = 0
      BY <2>1, <3>1 DEF CallerStep
    <3>3. Count' \in Nat /\ spent \in Nat
      BY <1>1, <2>1 DEF WInv, WTypeOK
    <3>. QED  BY <1>1, <3>2, <3>3 DEF BudgetInv, SpentCounted, Uncounted
  <2>. QED  BY <2>2, <2>3, <2>4 DEF BudgetInv
<1>. QED  BY <1>3, <1>4, <1>5 DEF CallerStep

LEMMA BudgetStep ==
  ASSUME OneRunner, NobodyEdits, WInv, BudgetInv, [WNext]_vars
  PROVE  BudgetInv'
<1>1. CASE ResolveEscalation \/ UNCHANGED vars
  BY <1>1 DEF ResolveEscalation, vars, storeVars, BudgetInv, SpentCounted, Count, OnPlan,
     Uncounted, OnlyRestarts, Restarts
<1>2. CASE TimePasses
  <2>1. /\ schedule' = [schedule EXCEPT !.time = "due"] /\ schedule \in PlanRow /\ schedule # None
        /\ UNCHANGED <<txn, run, spent, failures>>
    BY <1>2 DEF TimePasses, RetryComesDue, WInv, IInv, TypeOK
  <2>2. schedule'.count = schedule.count /\ schedule'.max = schedule.max /\ schedule' # None
    <3>1. schedule' \in PlanRow
      BY <2>1 DEF PlanRow, PlanTime
    <3>. QED  BY <2>1, <3>1, NoneIsNoRow DEF PlanRow
  <2>. QED  BY <2>1, <2>2 DEF BudgetInv, SpentCounted, Count, OnPlan, Uncounted, OnlyRestarts,
            Restarts
<1>. QED  BY <1>1, <1>2, BudgetRunner, BudgetCaller DEF WNext

\* The retry budget: between two (re)activations of its schedule, a mandate with one
\* session running the workflow is charged max_retries times at most, and once more for
\* each run that died after booking an attempt and before counting it.
THEOREM OneRunnerBudgetKept == OneRunner /\ NobodyEdits /\ WSpec => []BudgetKept
<1>. SUFFICES ASSUME OneRunner, NobodyEdits PROVE WSpec => []BudgetKept
  OBVIOUS
<1>1. WInv /\ BudgetInv /\ [WNext]_vars => BudgetInv'
  BY BudgetStep
<1>2. WInv /\ BudgetInv => BudgetKept
  <2>. SUFFICES ASSUME WInv, BudgetInv, schedule # None PROVE spent <= schedule.max + failures
    BY DEF BudgetKept
  <2>1. /\ schedule \in PlanRow /\ schedule.count <= schedule.max /\ Count = schedule.count
        /\ spent \in Nat /\ failures \in Nat
    BY DEF WInv, IInv, TypeOK, WTypeOK, CountWithinMax, WithinMax, Count
  <2>2. CASE \A r \in Runners : ~Uncounted(run[r])
    BY <2>1, <2>2 DEF BudgetInv, SpentCounted, PlanRow
  <2>3. ASSUME NEW r \in Runners, Uncounted(run[r])
        PROVE  schedule.count < schedule.max
    <3>1. run[r].ctx.plan \in PlanRow
      BY <2>3 DEF WInv, WTypeOK, HasPlan, Uncounted, Context
    <3>. QED  BY <2>1, <2>3, <3>1 DEF WInv, HasPlan, BudgetInv, OnPlan, Uncounted, PlanRow
  <2>4. CASE schedule.count < schedule.max
    BY <2>1, <2>4 DEF BudgetInv, SpentCounted, PlanRow
  <2>. QED  BY <2>2, <2>3, <2>4
<1>. QED  BY <1>1, <1>2, BudgetInit, WorkflowInvariant, PTL DEF WSpec

-----------------------------------------------------------------------------
(* A retry follows a failure *)

LastFailed == attempts[Len(attempts)].status = "failed"

\* A failure the run found is still the mandate's last word when it books.
FoundFailure(x) ==
  /\ x.pc \in {"escalate", "escalating", "act"} /\ x.ctx.plan # None
     /\ x.ctx.attempt # None /\ x.ctx.attempt.status = "failed" => LastFailed
  /\ x.pc = "booking" => LastFailed

FailedInv ==
  /\ FlightInv
  /\ \A s \in Callers : txn[s].op \in {"outcome", "flushed"} =>
                          attempts[txn[s].attempt].status \in Unresolved
  /\ \A r \in Runners : FoundFailure(run[r])

LEMMA FailedInit == WInit => FailedInv
<1>. SUFFICES ASSUME WInit PROVE FailedInv
  OBVIOUS
<1>1. FlightInv
  BY FlightInit
<1>2. \A s \in Callers : txn[s].op = "idle"
  BY WorkflowAssumption DEF WInit, Init, Idle
<1>3. \A r \in Runners : FoundFailure(run[r])
  BY DEF WInit, NoRun, NoContext, FoundFailure
<1>. QED  BY <1>1, <1>2, <1>3 DEF FailedInv

LEMMA FailedRunner ==
  ASSUME OneRunner, WInv, FailedInv, NEW r \in Runners, Start(r) \/ RunStep(r) \/ RunFails(r)
  PROVE  FailedInv'
<1>1. /\ \A s \in Callers : txn'[s] = txn[s]
      /\ AttemptBooked(r) \/ attempts' = attempts
      /\ FlightInv'
  BY RunLeaves, FlightRunner DEF FailedInv
<1>2. /\ run \in [Runners -> RunRecord] /\ run[r] \in RunRecord /\ r \in Sessions
      /\ FoundFailure(run[r])
  BY WorkflowAssumption DEF WInv, WTypeOK, Runners, RunRecord, FailedInv
<1>3. CASE attempts' = attempts
  <2>1. SUFFICES FoundFailure(run[r])'
    BY <1>1, <1>3, <2>1 DEF OneRunner, FailedInv
  <2>2. \A x : FoundFailure(x)' <=> FoundFailure(x)
    BY <1>3 DEF FoundFailure, LastFailed
  <2>3. CASE run'[r].pc \notin {"escalate", "escalating", "act", "booking"}
    BY <2>2, <2>3 DEF FoundFailure
  <2>4. CASE ReadContext(r)
    <3>1. /\ run'[r].pc = "escalate" /\ run'[r].ctx.plan = run[r].ctx.plan
          /\ run'[r].ctx.attempt = LatestAttempt
      BY <1>2, <2>4 DEF ReadContext, RunRecord, Context
    <3>2. attempts # <<>> => LatestAttempt = attempts[Len(attempts)]
      BY LatestAttemptIsLast DEF WInv
    <3>3. run[r].ctx.plan # None => attempts # <<>>
      BY DEF FailedInv, FlightInv, Grounded
    <3>. QED  BY <2>2, <3>1, <3>2, <3>3 DEF FoundFailure, LastFailed
  <2>5. CASE CheckEscalations(r) \/ CreateEscalation(r)
    <3>1. (At(r, "escalate") \/ At(r, "escalating")) /\ (Goto(r, "escalating") \/ Goto(r, "act"))
      BY <2>5 DEF CheckEscalations, CreateEscalation
    <3>. QED  BY <1>2, <2>2, <3>1 DEF At, Goto, FoundFailure, RunRecord
  <2>6. CASE BookAttempt(r)
    <3>1. /\ At(r, "act") /\ Goto(r, "booking")
          /\ run[r].ctx.plan # None
          /\ run[r].ctx.attempt # None => run[r].ctx.attempt.status = "failed"
      BY <1>2, <2>6, RetryNeedsPlan DEF BookAttempt, RunRecord
    <3>2. run[r].ctx.attempt # None
      BY <3>1 DEF FailedInv, FlightInv, Grounded, At
    <3>. QED  BY <1>2, <2>2, <3>1, <3>2 DEF At, Goto, FoundFailure, RunRecord
  <2>7. CASE Start(r) \/ ReadPlan(r)
    <3>1. run'[r].pc \in {"picked", "context"}
      BY <1>2, <2>7 DEF Start, PickDueRetry, RunWorkflow, Picked, ReadPlan
    <3>. QED  BY <2>3, <3>1
  <2>8. CASE ClosePlan(r) \/ AttemptBooked(r) \/ AdvancePlan(r)
    <3>1. \E pc \in {"closing", "advance", "advancing"} : Goto(r, pc)
      BY <2>8 DEF ClosePlan, AttemptBooked, AdvancePlan
    <3>. QED  BY <1>2, <2>3, <3>1 DEF Goto
  <2>9. CASE ActWithoutPlan(r) \/ BookingRefused(r) \/ BookingLost(r) \/ AdvanceRefused(r)
             \/ PlanUpdated(r) \/ RunFails(r)
    <3>1. run'[r].pc = "idle"
      BY <1>2, <2>9 DEF ActWithoutPlan, BookingRefused, BookingLost, AdvanceRefused,
         PlanUpdated, RunFails, EndRun, NoRun
    <3>. QED  BY <2>3, <3>1
  <2>. QED  BY <2>4, <2>5, <2>6, <2>7, <2>8, <2>9 DEF RunStep
<1>4. CASE AttemptBooked(r)
  <2>1. /\ Len(attempts') = Len(attempts) + 1
        /\ \A i \in 1..Len(attempts) : attempts'[i] = attempts[i]
    BY <1>2, <1>4, RecordAppends DEF AttemptBooked, WInv
  <2>2. FoundFailure(run[r])'
    BY <1>2, <1>4 DEF AttemptBooked, Goto, FoundFailure
  <2>3. \A s \in Callers : txn[s].op \in {"outcome", "flushed"} => txn[s].attempt \in 1..Len(attempts)
    BY WorkflowAssumption DEF WInv, IInv, SessionsOK, SessionOK
  <2>. QED  BY <1>1, <2>1, <2>2, <2>3 DEF OneRunner, FailedInv
<1>. QED  BY <1>1, <1>3, <1>4

LEMMA FailedCaller ==
  ASSUME OneSettler, WInv, FailedInv, NEW s \in Callers, CallerStep(s)
  PROVE  FailedInv'
<1>1. /\ run' = run /\ s \in Sessions /\ txn \in [Sessions -> TxnState]
      /\ \A c \in Callers : c = s
      /\ attempts \in Seq(AttemptRow) /\ Len(attempts) \in Nat
      /\ FlightInv'
  BY WorkflowAssumption, LenProperties, FlightCaller
     DEF CallerStep, WInv, IInv, TypeOK, FailedInv, OneSettler
<1>2. CASE CallerBegins(s)
  <2>1. CASE \E a \in DOMAIN attempts : \E status, c :
               attempts[a].status \in Unresolved /\ BeginOutcome(s, a, status, c, "later")
    <3>1. \E t : /\ attempts[t.attempt].status \in Unresolved
                 /\ txn' = [txn EXCEPT ![s] = t] /\ UNCHANGED store
      BY <2>1 DEF BeginOutcome, Open
    <3>. QED  BY <1>1, <3>1 DEF FailedInv, FoundFailure, LastFailed, store
  <2>2. CASE \E t : /\ t.op \notin {"outcome", "flushed"} /\ txn' = [txn EXCEPT ![s] = t]
                    /\ UNCHANGED store
    BY <1>1, <2>2 DEF FailedInv, FoundFailure, LastFailed, store
  <2>3. CASE \E target : BeginTransition(s, target)
    BY <2>2, <2>3 DEF BeginTransition, Open
  <2>4. CASE \E order : BeginRecord(s, order)
    BY <2>2, <2>4 DEF BeginRecord, Open
  <2>5. CASE \E max : BeginCreatePlan(s, max, "later")
    BY <2>2, <2>5 DEF BeginCreatePlan, Open
  <2>6. CASE \E edit : BeginUpdatePlan(s, schedule, edit)
    BY <2>2, <2>6 DEF BeginUpdatePlan, Open
  <2>. QED  BY <1>2, <2>1, <2>3, <2>4, <2>5, <2>6 DEF CallerBegins, OneSettler
<1>3. CASE FlushOutcome(s)
  <2>1. /\ UNCHANGED store /\ txn[s].op = "outcome"
        /\ \E t : t.attempt = txn[s].attempt /\ txn' = [txn EXCEPT ![s] = t]
    BY <1>3 DEF FlushOutcome
  <2>. QED  BY <1>1, <2>1 DEF FailedInv, FoundFailure, LastFailed, store
<1>4. CASE Finish(s)
  <2>1. \A c \in Callers : txn'[c].op = "idle"
    BY <1>1, <1>4 DEF Finish, CommitTransition, CommitRecord, RejectDuplicateAttempt,
       CommitOutcome, RejectDuplicatePlan, CommitCreatePlan, CommitUpdatePlan, RejectUpdatePlan,
       Close, Idle
  <2>2. SUFFICES \A r \in Runners : FoundFailure(run[r])'
    BY <1>1, <2>1, <2>2 DEF FailedInv
  <2>3. CASE attempts' = attempts
    BY <1>1, <2>3 DEF FailedInv, FoundFailure, LastFailed
  \* The first attempt: no run has found a schedule yet.
  <2>4. CASE CommitRecord(s)
    <3>1. /\ txn[s].number = Len(attempts) + 1 /\ txn[s].number = 1
      BY <1>1, <2>4, RecordAppends DEF WInv, CommitRecord, Close, FailedInv, FlightInv
    <3>2. attempts = <<>>
      BY <1>1, <3>1, EmptySeq
    <3>3. \A r \in Runners : run[r].ctx.plan = None
      BY <3>2 DEF FailedInv, FlightInv, Grounded
    <3>. QED  BY <1>1, <3>3 DEF FoundFailure, WInv, HasPlan
  \* The only caller resolves an attempt that is not a failure yet.
  <2>5. CASE CommitOutcome(s)
    <3>1. /\ txn[s].attempt \in 1..Len(attempts) /\ Len(attempts') = Len(attempts)
          /\ \A i \in 1..Len(attempts) : i # txn[s].attempt => attempts'[i] = attempts[i]
      BY <1>1, <2>5, OutcomeReplaces DEF WInv
    <3>2. attempts[txn[s].attempt].status # "failed"
      BY <2>5 DEF FailedInv, CommitOutcome, Close, Unresolved
    <3>3. Len(attempts) \in 1..Len(attempts)
      BY <1>1, <3>1
    <3>4. LastFailed => LastFailed'
      BY <3>1, <3>2, <3>3 DEF LastFailed
    <3>. QED  BY <1>1, <3>4 DEF FailedInv, FoundFailure
  <2>. QED  BY <1>4, <2>3, <2>4, <2>5 DEF Finish, CommitTransition, RejectDuplicateAttempt,
            RejectDuplicatePlan, CommitCreatePlan, CommitUpdatePlan, RejectUpdatePlan, store
<1>. QED  BY <1>2, <1>3, <1>4 DEF CallerStep

LEMMA FailedStep ==
  ASSUME OneRunner, OneSettler, WInv, FailedInv, [WNext]_vars
  PROVE  FailedInv'
<1>1. CASE ResolveEscalation \/ UNCHANGED vars \/ TimePasses
  <2>1. /\ FlightInv'
        /\ UNCHANGED <<attempts, txn, run>>
    BY <1>1, FlightStep DEF FailedInv, WNext, ResolveEscalation, TimePasses, RetryComesDue,
       vars, storeVars
  <2>. QED  BY <2>1 DEF FailedInv, FoundFailure, LastFailed
<1>. QED  BY <1>1, FailedRunner, FailedCaller DEF WNext

\* An attempt is added after the first one by a run alone, and that one follows a failure.
LEMMA FailedBooks ==
  ASSUME OneRunner, WInv, FailedInv, [WNext]_vars, Len(attempts') > Len(attempts),
         attempts # <<>>
  PROVE  attempts[Latest].status = "failed"
<1>1. /\ attempts \in Seq(AttemptRow) /\ Len(attempts) \in Nat /\ Latest = Len(attempts)
      /\ Len(attempts) > 0
  BY LatestIsLast, LenProperties, EmptySeq DEF WInv, IInv, TypeOK
<1>2. attempts' # attempts
  BY <1>1
<1>3. ASSUME NEW r \in Runners, Start(r) \/ RunStep(r) \/ RunFails(r)
      PROVE  LastFailed
  <2>1. AttemptBooked(r)
    BY <1>2, <1>3, RunLeaves
  <2>. QED  BY <2>1 DEF AttemptBooked, At, FailedInv, FoundFailure
<1>4. ASSUME NEW s \in Callers, CallerStep(s)
      PROVE  FALSE
  <2>1. s \in Sessions
    BY WorkflowAssumption
  <2>2. CASE CommitRecord(s)
    <3>1. txn[s].number = Len(attempts) + 1 /\ txn[s].number = 1
      BY <2>1, <2>2, RecordAppends DEF WInv, CommitRecord, Close, FailedInv, FlightInv
    <3>. QED  BY <1>1, <3>1
  <2>3. CASE CommitOutcome(s)
    <3>1. Len(attempts') = Len(attempts)
      BY <2>1, <2>3, OutcomeReplaces DEF WInv
    <3>. QED  BY <1>1, <3>1
  <2>4. CASE CallerBegins(s) \/ FlushOutcome(s)
    BY <1>2, <2>4 DEF CallerBegins, BeginTransition, BeginRecord, BeginOutcome, BeginCreatePlan,
       BeginUpdatePlan, FlushOutcome, store
  <2>. QED  BY <1>2, <1>4, <2>2, <2>3, <2>4 DEF CallerStep, Finish, CommitTransition,
            RejectDuplicateAttempt, RejectDuplicatePlan, CommitCreatePlan, CommitUpdatePlan,
            RejectUpdatePlan, store
<1>5. CASE ResolveEscalation \/ UNCHANGED vars \/ TimePasses
  BY <1>2, <1>5 DEF ResolveEscalation, TimePasses, RetryComesDue, vars, storeVars
<1>. QED  BY <1>1, <1>3, <1>4, <1>5 DEF WNext, LastFailed

\* "A new retry may only be booked once the previous attempt has resolved to a failure --
\* never while it's still pending/processing or already succeeded": so it is when one
\* session runs the workflow and one caller resolves attempts.
THEOREM OneRunnerBooksOnlyAfterFailure ==
  OneRunner /\ OneSettler /\ WSpec => BooksOnlyAfterFailure
<1>. SUFFICES ASSUME OneRunner, OneSettler PROVE WSpec => BooksOnlyAfterFailure
  OBVIOUS
<1>1. WInv /\ FailedInv /\ [WNext]_vars => FailedInv'
  BY FailedStep
<1>2. WInv /\ FailedInv /\ [WNext]_vars =>
        [Len(attempts') > Len(attempts) /\ attempts # <<>> => attempts[Latest].status = "failed"]_vars
  BY FailedBooks
<1>. QED  BY <1>1, <1>2, FailedInit, WorkflowInvariant, PTL DEF WSpec, BooksOnlyAfterFailure

=============================================================================
