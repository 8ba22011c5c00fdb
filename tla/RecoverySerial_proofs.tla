------------------------ MODULE RecoverySerial_proofs ------------------------
(***************************************************************************)
(* Proofs about RecoveryStore when no transaction overlaps another: then   *)
(* begin-flush-commit implements the one-step calls of RecoveryContract, a *)
(* success is final, and a failure leaves an active plan alone.  (The run  *)
(* of LateOutcome.cfg shows that two sessions break the second.)           *)
(***************************************************************************)
EXTENDS RecoveryStore_proofs

\* At most one session.
OneSession == \A r, s \in Sessions : r = s

\* With nobody else committing, what the transaction checked is still so.
StillSo(t) ==
  /\ t.op = "transition" => t.target \in DOMAIN AllowedFrom /\ mandate \in AllowedFrom[t.target]
  /\ t.op \in {"record", "create"} => mandate = "active"
  /\ t.op = "create" => t.row.status = "pending"
  /\ t.op \in {"outcome", "flushed"} =>
       /\ OutcomeAllowed(attempts[t.attempt], t.status)
       /\ t.write.status = Changed(attempts[t.attempt].status, t.status)
  /\ t.op = "flushed" =>
       \E time \in PlanTime :
         LET e == PlanEffect([status |-> t.status, time |-> time], schedule)
         IN  t.insert = e.insert /\ t.plan = e.plan

SerialInv == IInv /\ \A s \in Sessions : StillSo(txn[s])

LEMMA SerialInit == Init => SerialInv
BY IInvInit DEF Init, SerialInv, StillSo, Idle

\* The session goes idle: nothing left to be so.
LEMMA IdleAgain ==
  ASSUME OneSession, IInv, IInv', NEW s \in Sessions, txn' = [txn EXCEPT ![s] = Idle]
  PROVE  SerialInv'
<1>1. \A r \in Sessions : txn'[r].op = "idle"
  BY DEF OneSession, IInv, TypeOK, Idle
<1>. QED  BY <1>1 DEF SerialInv, StillSo

LEMMA SerialBegin ==
  ASSUME OneSession, SerialInv, IInv', NEW s \in Sessions, Begin(s)
  PROVE  SerialInv'
<1>. SUFFICES StillSo(txn[s])'
  BY DEF SerialInv, OneSession
<1>0. txn \in [Sessions -> TxnState]
  BY DEF SerialInv, IInv, TypeOK
<1>1. ASSUME NEW target \in DOMAIN AllowedFrom, BeginTransition(s, target)
      PROVE  StillSo(txn[s])'
  BY <1>0, <1>1 DEF BeginTransition, Open, store, StillSo
<1>2. ASSUME NEW order \in OrderOutcomes, BeginRecord(s, order)
      PROVE  StillSo(txn[s])'
  BY <1>0, <1>2 DEF BeginRecord, Open, store, StillSo
<1>3. ASSUME NEW a \in DOMAIN attempts, NEW status, NEW c, NEW time,
             BeginOutcome(s, a, status, c, time)
      PROVE  StillSo(txn[s])'
  BY <1>0, <1>3 DEF BeginOutcome, Open, store, StillSo, OutcomeAllowed, Changed
<1>4. ASSUME NEW max \in 0..DefaultMaxRetries, NEW time \in PlanTime,
             BeginCreatePlan(s, max, time)
      PROVE  StillSo(txn[s])'
  BY <1>0, <1>4 DEF BeginCreatePlan, Open, store, StillSo
<1>5. ASSUME NEW edit \in PlanEdits, BeginUpdatePlan(s, schedule, edit)
      PROVE  StillSo(txn[s])'
  BY <1>0, <1>5 DEF BeginUpdatePlan, Open, store, StillSo
<1>. QED  BY <1>1, <1>2, <1>3, <1>4, <1>5 DEF Begin, MandateRequest, AttemptRequest, ScheduleRequest

LEMMA SerialFlush ==
  ASSUME OneSession, SerialInv, IInv', NEW s \in Sessions, FlushOutcome(s)
  PROVE  SerialInv'
<1>. DEFINE t == txn[s]
            e == PlanEffect(t, schedule)
<1>1. txn \in [Sessions -> TxnState] /\ t.op = "outcome"
  BY DEF SerialInv, IInv, TypeOK, FlushOutcome
<1>2. t.time \in PlanTime
  BY <1>1 DEF TxnState, Idle
<1>3. e = PlanEffect([status |-> t.status, time |-> t.time], schedule)
  BY DEF PlanEffect
<1>4. /\ txn'[s] = [op |-> "flushed", attempt |-> t.attempt, status |-> t.status,
                    write |-> t.write, insert |-> e.insert, plan |-> e.plan]
      /\ UNCHANGED store
  BY <1>1 DEF FlushOutcome
<1>5. OutcomeAllowed(attempts[t.attempt], t.status)
      /\ t.write.status = Changed(attempts[t.attempt].status, t.status)
  BY <1>1 DEF SerialInv, StillSo
<1>. HIDE DEF e
<1>6. StillSo(txn[s])'
  BY <1>2, <1>3, <1>4, <1>5 DEF StillSo, store, OutcomeAllowed, Changed, PlanEffect,
     ResolvePlan, EnsurePlan
<1>. QED  BY <1>6 DEF SerialInv, OneSession

\* The effect on the schedule does not depend on whether its time has come.
LEMMA SerialComesDue ==
  ASSUME SerialInv, IInv', RetryComesDue
  PROVE  SerialInv'
<1>1. /\ schedule \in PlanRow /\ schedule # None
      /\ schedule' = [schedule EXCEPT !.time = "due"]
      /\ UNCHANGED <<mandate, attempts, txn>>
  BY DEF RetryComesDue, SerialInv, IInv, TypeOK
<1>2. /\ schedule' # None
      /\ schedule'.status = schedule.status /\ schedule'.count = schedule.count
  BY <1>1, NoneIsNoRow DEF PlanRow, PlanTime
<1>3. ASSUME NEW status, NEW time
      PROVE  PlanEffect([status |-> status, time |-> time], schedule')
               = PlanEffect([status |-> status, time |-> time], schedule)
  BY <1>1, <1>2 DEF PlanEffect, ResolvePlan, EnsurePlan, Changed
<1>4. ASSUME NEW s \in Sessions PROVE StillSo(txn[s])'
  BY <1>1, <1>3 DEF SerialInv, StillSo
<1>. QED  BY <1>4 DEF SerialInv

LEMMA SerialStep == OneSession /\ SerialInv /\ [Next]_storeVars => SerialInv'
<1>. SUFFICES ASSUME OneSession, SerialInv, [Next]_storeVars
              PROVE  SerialInv'
  OBVIOUS
<1>1. IInv /\ IInv'
  BY IInvStep DEF SerialInv
<1>2. ASSUME NEW s \in Sessions, Finish(s) \/ Rollback(s)
      PROVE  SerialInv'
  <2>1. txn' = [txn EXCEPT ![s] = Idle]
    BY <1>2 DEF Finish, Rollback, CommitTransition, CommitRecord, RejectDuplicateAttempt,
       CommitOutcome, RejectDuplicatePlan, CommitCreatePlan, CommitUpdatePlan,
       RejectUpdatePlan, Close
  <2>. QED  BY <1>1, <2>1, IdleAgain
<1>3. CASE UNCHANGED storeVars
  <2>1. ASSUME NEW s \in Sessions PROVE StillSo(txn[s])'
    BY <1>3 DEF SerialInv, StillSo, storeVars
  <2>. QED  BY <1>1, <2>1 DEF SerialInv
<1>. QED  BY <1>1, <1>2, <1>3, SerialBegin, SerialFlush, SerialComesDue DEF Next

-----------------------------------------------------------------------------
(* The commit of an outcome *)

\* The attempt ends up with the reported status, no other attempt changes, and the
\* schedule is what PlanEffect makes of the one that is there now.
LEMMA OutcomeCommitted ==
  ASSUME SerialInv, NEW s \in Sessions, CommitOutcome(s)
  PROVE  LET a == txn[s].attempt  st == txn[s].status IN
         /\ a \in DOMAIN attempts /\ st \in {"succeeded", "failed"}
         /\ OutcomeAllowed(attempts[a], st)
         /\ DOMAIN attempts' = DOMAIN attempts
         /\ \A i \in DOMAIN attempts :
              attempts'[i].status = IF i = a THEN st ELSE attempts[i].status
         /\ mandate' = mandate
<1>. DEFINE t == txn[s]
            row == ApplyOutcome(attempts[t.attempt], t.write)
<1>1. t.op = "flushed" /\ t.write \in OutcomeWrite /\ t.status \in {"succeeded", "failed"}
  BY DEF SerialInv, IInv, TypeOK, TxnState, Idle, CommitOutcome, Close
<1>2. t.attempt \in 1..Len(attempts)
  BY <1>1 DEF SerialInv, IInv, SessionsOK, SessionOK
<1>3. attempts \in Seq(AttemptRow) /\ DOMAIN attempts = 1..Len(attempts)
  BY LenProperties DEF SerialInv, IInv, TypeOK
<1>4. /\ OutcomeAllowed(attempts[t.attempt], t.status)
      /\ t.write.status = Changed(attempts[t.attempt].status, t.status)
  BY <1>1 DEF SerialInv, StillSo
<1>5. attempts[t.attempt] \in AttemptRow
  BY <1>2, <1>3, ElementOfSeq
<1>6. row \in AttemptRow /\ row.status = Written(attempts[t.attempt].status, t.write.status)
  BY <1>1, <1>5, OutcomeKeepsRow
<1>7. row.status = t.status
  BY <1>1, <1>4, <1>6, NoneIsNoStatus DEF Written, Changed, PaymentStatus
<1>. HIDE DEF row
<1>8. attempts' = [attempts EXCEPT ![t.attempt] = row] /\ mandate' = mandate
  BY DEF CommitOutcome, row
<1>. QED  BY <1>1, <1>2, <1>3, <1>4, <1>6, <1>7, <1>8, ExceptSeq

LEMMA PlanCommitted ==
  ASSUME SerialInv, NEW s \in Sessions, CommitOutcome(s)
  PROVE  /\ txn[s].status = "succeeded" =>
              PlanView' = IF PlanView = "none" THEN "none" ELSE "closed"
         /\ txn[s].status = "failed" => PlanView' = "active"
         /\ txn[s].status = "failed" /\ PlanView = "active" => schedule' = schedule
<1>. DEFINE t == txn[s]
<1>1. t.op = "flushed" /\ schedule \in PlanRow \union {None}
  BY DEF SerialInv, IInv, TypeOK, CommitOutcome, Close
<1>2. PICK time \in PlanTime :
        LET e == PlanEffect([status |-> t.status, time |-> time], schedule)
        IN  t.insert = e.insert /\ t.plan = e.plan
  BY <1>1 DEF SerialInv, StillSo
<1>3. schedule' = PlanAfter(t)
  BY DEF CommitOutcome
<1>4. ASSUME t.status = "succeeded"
      PROVE  PlanView' = IF PlanView = "none" THEN "none" ELSE "closed"
  <2>1. CASE schedule = None
    BY <1>2, <1>3, <1>4, <2>1 DEF PlanEffect, ResolvePlan, PlanAfter, PlanView
  <2>2. CASE schedule # None
    <3>1. schedule' = ApplyPlanWrite(schedule, t.plan) /\ schedule \in PlanRow
      BY <1>1, <1>2, <1>3, <1>4, <2>2 DEF PlanEffect, ResolvePlan, PlanAfter
    <3>2. schedule'.status \in TerminalRetryStatus
      BY <1>2, <1>4, <2>2, <3>1, NoneIsNoStatus
         DEF PlanEffect, ResolvePlan, ApplyPlanWrite, Written, NoWrite, TerminalRetryStatus,
             RetryStatus
    <3>3. schedule' # None
      BY <3>1, NoneIsNoRow, PlanWriteKeepsRow, <1>1 DEF SerialInv, IInv, TypeOK, TxnState, Idle
    <3>. QED  BY <2>2, <3>2, <3>3 DEF PlanView, TerminalRetryStatus, ActiveRetryStatus
  <2>. QED  BY <2>1, <2>2
<1>5. ASSUME t.status = "failed"
      PROVE  /\ PlanView' = "active"
             /\ PlanView = "active" => schedule' = schedule
  <2>1. CASE schedule = None
    <3>1. schedule' = [status |-> "pending", count |-> 0, max |-> DefaultMaxRetries, time |-> time]
      BY <1>2, <1>3, <1>5, <2>1 DEF PlanEffect, EnsurePlan, PlanAfter
    <3>2. schedule' # None
      BY <3>1, NoneIsNoRow, StoreAssumption DEF PlanRow, RetryStatus
    <3>. QED  BY <2>1, <3>1, <3>2 DEF PlanView, ActiveRetryStatus
  <2>2. CASE schedule # None /\ schedule.status \in TerminalRetryStatus
    <3>1. schedule' = ApplyPlanWrite(schedule, t.plan) /\ schedule \in PlanRow
      BY <1>1, <1>2, <1>3, <1>5, <2>2 DEF PlanEffect, EnsurePlan, PlanAfter
    <3>2. schedule'.status = "pending"
      BY <1>2, <1>5, <2>2, <3>1, NoneIsNoStatus
         DEF PlanEffect, EnsurePlan, ApplyPlanWrite, Written, RetryStatus
    <3>3. schedule' # None
      BY <3>1, NoneIsNoRow, PlanWriteKeepsRow, <1>1 DEF SerialInv, IInv, TypeOK, TxnState, Idle
    <3>. QED  BY <2>2, <3>2, <3>3 DEF PlanView, TerminalRetryStatus, ActiveRetryStatus
  <2>3. CASE schedule # None /\ schedule.status \notin TerminalRetryStatus
    <3>1. schedule' = ApplyPlanWrite(schedule, NoWrite) /\ schedule \in PlanRow
      BY <1>1, <1>2, <1>3, <1>5, <2>3 DEF PlanEffect, EnsurePlan, PlanAfter
    <3>2. schedule' = schedule
      BY <3>1 DEF ApplyPlanWrite, Written, NoWrite, PlanRow
    <3>3. PlanView = "active"
      BY <2>3, <3>1 DEF PlanView, PlanRow, RetryStatus, TerminalRetryStatus, ActiveRetryStatus
    <3>. QED  BY <3>2, <3>3 DEF PlanView
  <2>. QED  BY <2>1, <2>2, <2>3
<1>. QED  BY <1>4, <1>5

-----------------------------------------------------------------------------
(* Every step is a step of the contract, or none *)

LEMMA Unseen ==
  ASSUME UNCHANGED store
  PROVE  UNCHANGED Contract!vars
BY DEF store, Contract!vars, Outcomes, PlanView

LEMMA TransitionIsChange ==
  ASSUME SerialInv, NEW s \in Sessions, CommitTransition(s)
  PROVE  Contract!ChangeMandate
<1>1. mandate \in AllowedFrom[txn[s].target] /\ txn[s].target \in DOMAIN AllowedFrom
  BY DEF SerialInv, StillSo, CommitTransition, Close
<1>2. mandate' = txn[s].target /\ UNCHANGED <<Outcomes, PlanView>>
  BY DEF CommitTransition, Outcomes, PlanView
<1>. QED  BY <1>1, <1>2 DEF Contract!ChangeMandate, AllowedFrom

LEMMA RecordIsCollect ==
  ASSUME SerialInv, NEW s \in Sessions, CommitRecord(s)
  PROVE  Contract!Collect
<1>. DEFINE row == NewAttempt(txn[s])
            n == Len(attempts)
<1>1. mandate = "active" /\ UNCHANGED <<mandate, schedule>>
  BY DEF SerialInv, StillSo, CommitRecord, Close
<1>2. txn[s].number \in Nat \ {0} /\ txn[s].order \in BOOLEAN
  BY DEF SerialInv, IInv, TypeOK, TxnState, Idle, CommitRecord, Close
<1>3. row \in AttemptRow /\ row.status = "pending"
  BY <1>2 DEF NewAttempt, AttemptRow, PaymentStatus
<1>. HIDE DEF row
<1>4. attempts \in Seq(AttemptRow) /\ n \in Nat /\ DOMAIN attempts = 1..n
      /\ attempts' = Append(attempts, row)
  BY LenProperties DEF SerialInv, IInv, TypeOK, CommitRecord, row
<1>5. /\ DOMAIN attempts' = 1..(n + 1)
      /\ \A i \in 1..n : attempts'[i] = attempts[i]
      /\ attempts'[n + 1] = row
  BY <1>3, <1>4, AppendProperties, LenProperties
<1>6. /\ Outcomes \in [1..n -> PaymentStatus]
      /\ Outcomes' = [i \in 1..(n + 1) |-> IF i = n + 1 THEN "pending" ELSE Outcomes[i]]
  <2>1. \A i \in 1..n : attempts[i] \in AttemptRow
    BY <1>4, ElementOfSeq
  <2>. QED  BY <1>3, <1>4, <1>5, <2>1 DEF Outcomes, AttemptRow
<1>7. Outcomes \in Seq(PaymentStatus) /\ Len(Outcomes) = n
  <2>1. Outcomes \in Seq(PaymentStatus)
    BY <1>4, <1>6, SeqDef
  <2>2. DOMAIN Outcomes = 1..Len(Outcomes) /\ Len(Outcomes) \in Nat
    BY <2>1, LenProperties
  <2>. QED  BY <1>4, <1>6, <2>1, <2>2
<1>8. Outcomes' = Append(Outcomes, "pending")
  <2>. DEFINE o == Append(Outcomes, "pending")
  <2>1. /\ DOMAIN o = 1..(n + 1) /\ o \in Seq(PaymentStatus) /\ Len(o) = n + 1
        /\ \A i \in 1..n : o[i] = Outcomes[i]
        /\ o[n + 1] = "pending"
    BY <1>7, AppendProperties, LenProperties DEF PaymentStatus
  <2>2. o = [i \in 1..(n + 1) |-> o[i]]
    BY <2>1, LenProperties
  <2>3. \A i \in 1..(n + 1) : o[i] = IF i = n + 1 THEN "pending" ELSE Outcomes[i]
    BY <1>4, <2>1
  <2>. HIDE DEF o
  <2>4. Outcomes' = o
    BY <1>6, <2>2, <2>3
  <2>. QED  BY <2>4 DEF o
<1>9. PlanView' = PlanView
  BY <1>1 DEF PlanView
<1>. QED  BY <1>1, <1>8, <1>9 DEF Contract!Collect

LEMMA OutcomeIsReport ==
  ASSUME SerialInv, NEW s \in Sessions, CommitOutcome(s)
  PROVE  \E i \in DOMAIN Outcomes : Contract!Succeed(i) \/ Contract!Fail(i)
<1>. DEFINE a == txn[s].attempt
            st == txn[s].status
<1>1. /\ a \in DOMAIN attempts /\ st \in {"succeeded", "failed"}
      /\ OutcomeAllowed(attempts[a], st)
      /\ DOMAIN attempts' = DOMAIN attempts
      /\ \A i \in DOMAIN attempts :
           attempts'[i].status = IF i = a THEN st ELSE attempts[i].status
      /\ mandate' = mandate
  BY OutcomeCommitted
<1>2. /\ a \in DOMAIN Outcomes
      /\ Outcomes' = [Outcomes EXCEPT ![a] = st]
      /\ Outcomes[a] = attempts[a].status
  BY <1>1 DEF Outcomes
<1>3. CASE st = "succeeded"
  BY <1>1, <1>2, <1>3, PlanCommitted DEF Contract!Succeed
<1>4. CASE st = "failed"
  BY <1>1, <1>2, <1>4, PlanCommitted DEF Contract!Fail, OutcomeAllowed
<1>. QED  BY <1>1, <1>2, <1>3, <1>4

LEMMA CreateIsEdit ==
  ASSUME SerialInv, NEW s \in Sessions, CommitCreatePlan(s)
  PROVE  Contract!EditPlan \/ UNCHANGED Contract!vars
<1>1. mandate = "active"
  BY DEF SerialInv, StillSo, CommitCreatePlan, Close
<1>2. CASE schedule # None
  BY <1>2, Unseen DEF CommitCreatePlan, store
<1>3. CASE schedule = None
  <2>1. txn[s].row \in PlanRow /\ txn[s].row.status = "pending"
    BY DEF SerialInv, StillSo, IInv, TypeOK, TxnState, Idle, CommitCreatePlan, Close
  <2>2. PlanView = "none" /\ PlanView' = "active"
    BY <1>3, <2>1, NoneIsNoRow DEF PlanView, CommitCreatePlan, ActiveRetryStatus
  <2>. QED  BY <1>1, <2>2 DEF Contract!EditPlan, CommitCreatePlan, Outcomes
<1>. QED  BY <1>2, <1>3

LEMMA UpdateIsEdit ==
  ASSUME SerialInv, NEW s \in Sessions, CommitUpdatePlan(s)
  PROVE  Contract!EditPlan
<1>1. txn[s].write \in PlanWrite /\ schedule \in PlanRow
  BY DEF SerialInv, IInv, TypeOK, TxnState, Idle, CommitUpdatePlan, Close
<1>2. schedule' \in PlanRow /\ schedule # None /\ schedule' # None
  BY <1>1, PlanWriteKeepsRow, NoneIsNoRow DEF CommitUpdatePlan
<1>3. PlanView # "none" /\ PlanView' \in {"active", "closed"}
  BY <1>2 DEF PlanView
<1>. QED  BY <1>3 DEF Contract!EditPlan, CommitUpdatePlan, Outcomes

LEMMA FinishIsCall ==
  ASSUME SerialInv, NEW s \in Sessions, Finish(s)
  PROVE  [Contract!Next]_(Contract!vars)
<1>1. CASE RejectDuplicateAttempt(s) \/ RejectDuplicatePlan(s) \/ RejectUpdatePlan(s)
  BY <1>1, Unseen DEF RejectDuplicateAttempt, RejectDuplicatePlan, RejectUpdatePlan
<1>. QED  BY <1>1, TransitionIsChange, RecordIsCollect, OutcomeIsReport, CreateIsEdit,
             UpdateIsEdit DEF Finish, Contract!Next

LEMMA StepIsCall ==
  SerialInv /\ [Next]_storeVars => [Contract!Next]_(Contract!vars)
<1>. SUFFICES ASSUME SerialInv, [Next]_storeVars
              PROVE  [Contract!Next]_(Contract!vars)
  OBVIOUS
<1>1. ASSUME NEW s \in Sessions, Begin(s) \/ FlushOutcome(s) \/ Rollback(s)
      PROVE  UNCHANGED Contract!vars
  <2>1. UNCHANGED store
    BY <1>1 DEF Begin, MandateRequest, AttemptRequest, ScheduleRequest, FlushOutcome, Rollback,
       BeginTransition, BeginRecord, BeginOutcome,
       BeginCreatePlan, BeginUpdatePlan
  <2>. QED  BY <2>1, Unseen
<1>2. CASE RetryComesDue
  <2>1. /\ schedule \in PlanRow /\ schedule # None
        /\ schedule' = [schedule EXCEPT !.time = "due"]
        /\ UNCHANGED <<mandate, attempts>>
    BY <1>2 DEF RetryComesDue, SerialInv, IInv, TypeOK
  <2>2. schedule' # None /\ schedule'.status = schedule.status
    BY <2>1, NoneIsNoRow DEF PlanRow, PlanTime
  <2>. QED  BY <2>1, <2>2 DEF Contract!vars, Outcomes, PlanView
<1>3. CASE UNCHANGED storeVars
  BY <1>3, Unseen DEF storeVars, store
<1>. QED  BY <1>1, <1>2, <1>3, FinishIsCall DEF Next

LEMMA InitIsInit == Init => Contract!Init
BY DEF Init, Contract!Init, Outcomes, PlanView

-----------------------------------------------------------------------------
(* The theorems *)

LEMMA SerialInvariant == ASSUME OneSession PROVE Spec => []SerialInv
<1>1. SerialInv /\ [Next]_storeVars => SerialInv'
  BY SerialStep
<1>. QED  BY SerialInit, <1>1, PTL DEF Spec

\* Transactions that do not overlap implement the one-step calls of the contract.
THEOREM SerialImplementsContract == ASSUME OneSession PROVE Spec => ContractSpec
<1>. QED  BY InitIsInit, StepIsCall, SerialInvariant, PTL DEF Spec, ContractSpec, Contract!Spec

\* What a step does to the attempts: nothing, or it adds one, or it resolves one.
LEMMA AttemptsChange ==
  ASSUME SerialInv, Next
  PROVE  \/ UNCHANGED attempts
         \/ \A i \in DOMAIN attempts : attempts'[i] = attempts[i]
         \/ \E s \in Sessions : CommitOutcome(s)
<1>1. ASSUME NEW s \in Sessions, CommitRecord(s)
      PROVE  \A i \in DOMAIN attempts : attempts'[i] = attempts[i]
  <2>1. txn[s].number \in Nat \ {0} /\ txn[s].order \in BOOLEAN
    BY <1>1 DEF SerialInv, IInv, TypeOK, TxnState, Idle, CommitRecord, Close
  <2>2. NewAttempt(txn[s]) \in AttemptRow
    BY <2>1 DEF NewAttempt, AttemptRow, PaymentStatus
  <2>3. attempts \in Seq(AttemptRow)
    BY DEF SerialInv, IInv, TypeOK
  <2>. QED  BY <1>1, <2>2, <2>3, AppendProperties, LenProperties DEF CommitRecord
<1>2. ASSUME NEW s \in Sessions, Begin(s) \/ FlushOutcome(s) \/ Rollback(s)
      PROVE  UNCHANGED attempts
  BY <1>2 DEF Begin, MandateRequest, AttemptRequest, ScheduleRequest, FlushOutcome, Rollback,
       BeginTransition, BeginRecord, BeginOutcome,
     BeginCreatePlan, BeginUpdatePlan, store
<1>3. ASSUME NEW s \in Sessions, Finish(s), ~CommitRecord(s), ~CommitOutcome(s)
      PROVE  UNCHANGED attempts
  BY <1>3 DEF Finish, CommitTransition, RejectDuplicateAttempt, RejectDuplicatePlan,
     CommitCreatePlan, CommitUpdatePlan, RejectUpdatePlan, store
<1>. QED  BY <1>1, <1>2, <1>3 DEF Next, RetryComesDue

\* "A successful payment attempt cannot be changed", without overlap.
THEOREM SerialSuccessFinal == ASSUME OneSession PROVE Spec => SucceededFinal
<1>. DEFINE Kept == \A i \in DOMAIN attempts :
                      attempts[i].status = "succeeded" => attempts'[i].status = "succeeded"
<1>1. SerialInv /\ [Next]_storeVars => [Kept]_storeVars
  <2>. SUFFICES ASSUME SerialInv, Next
                PROVE  Kept
    OBVIOUS
  <2>1. ASSUME NEW s \in Sessions, CommitOutcome(s)
        PROVE  Kept
    BY <2>1, OutcomeCommitted DEF OutcomeAllowed
  <2>. QED  BY <2>1, AttemptsChange
<1>. QED  BY <1>1, SerialInvariant, PTL DEF Spec, SucceededFinal

\* A failure leaves an active plan as it is, without overlap.
THEOREM SerialFailureKeepsPlan == ASSUME OneSession PROVE Spec => FailureKeepsActivePlan
<1>. DEFINE Kept == \A i \in DOMAIN attempts :
                      /\ attempts[i].status # "failed" /\ attempts'[i].status = "failed"
                      /\ schedule # None /\ schedule.status \in ActiveRetryStatus
                      => schedule' = schedule
<1>1. SerialInv /\ [Next]_storeVars => [Kept]_storeVars
  <2>. SUFFICES ASSUME SerialInv, Next
                PROVE  Kept
    OBVIOUS
  <2>1. ASSUME NEW s \in Sessions, CommitOutcome(s)
        PROVE  Kept
    <3>. SUFFICES ASSUME NEW i \in DOMAIN attempts,
                         attempts[i].status # "failed", attempts'[i].status = "failed",
                         schedule # None, schedule.status \in ActiveRetryStatus
                  PROVE  schedule' = schedule
      OBVIOUS
    <3>1. txn[s].status = "failed"
      BY <2>1, OutcomeCommitted
    <3>2. PlanView = "active"
      BY DEF PlanView
    <3>. QED  BY <2>1, <3>1, <3>2, PlanCommitted
  <2>. QED  BY <2>1, AttemptsChange
<1>. QED  BY <1>1, SerialInvariant, PTL DEF Spec, FailureKeepsActivePlan
=============================================================================
