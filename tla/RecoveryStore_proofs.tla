------------------------- MODULE RecoveryStore_proofs -------------------------
(***************************************************************************)
(* Proofs about RecoveryStore, for any number of overlapping sessions and  *)
(* any bounds: the row types, the retry budget's CHECK, the numbering of   *)
(* attempts and the follow-up of failures.                                 *)
(*                                                                         *)
(* The four are not inductive as they stand: what a session commits was    *)
(* computed from rows it read earlier.  SessionsOK says what remains true  *)
(* of those values until the commit, whatever other sessions commit.       *)
(***************************************************************************)
EXTENDS RecoveryStore, SequenceTheorems, TLAPS

\* What an open transaction may still rely on when it commits.
SessionOK(t) ==
  /\ t.op = "record" => t.number <= Len(attempts) + 1 /\ t.number <= MaxAttempts
  /\ t.op \in {"outcome", "flushed"} => /\ t.attempt \in 1..Len(attempts)
                                        /\ t.write.status \in {t.status, None}
  /\ t.op = "flushed" => IF t.insert
                         THEN t.plan \in PlanRow /\ WithinMax(t.plan)
                         ELSE /\ t.plan.count \in {0, None} /\ t.plan.max = None
                              /\ t.status = "failed" => schedule # None
  /\ t.op = "create" => WithinMax(t.row)

SessionsOK == \A s \in Sessions : SessionOK(txn[s])

AttemptsBounded == Len(attempts) <= MaxAttempts

IInv ==
  TypeOK /\ CountWithinMax /\ NumbersGapless /\ FailureHasPlan /\ SessionsOK /\ AttemptsBounded

-----------------------------------------------------------------------------
(* The helpers *)

\* Without gaps, the highest number is the number of rows.
LEMMA LatestIsLast ==
  ASSUME attempts \in Seq(AttemptRow), NumbersGapless
  PROVE  LatestNumber = Len(attempts) /\ (attempts # <<>> => Latest = Len(attempts))
<1>1. CASE attempts = <<>>
  BY <1>1 DEF LatestNumber
<1>2. CASE attempts # <<>>
  <2>1. Len(attempts) \in Nat \ {0} /\ DOMAIN attempts = 1..Len(attempts)
    BY <1>2, EmptySeq, LenProperties
  <2>2. \A i \in 1..Len(attempts) : attempts[i].number = i
    BY <2>1 DEF NumbersGapless
  <2>3. Len(attempts) \in DOMAIN attempts
        /\ \A j \in DOMAIN attempts : attempts[j].number <= attempts[Len(attempts)].number
    BY <2>1, <2>2
  <2>4. /\ Latest \in DOMAIN attempts
        /\ \A j \in DOMAIN attempts : attempts[j].number <= attempts[Latest].number
    BY <2>3 DEF Latest
  <2>5. Latest <= Len(attempts) /\ Len(attempts) <= Latest
    BY <2>1, <2>2, <2>4
  <2>6. Latest = Len(attempts)
    BY <2>1, <2>4, <2>5
  <2>. QED  BY <1>2, <2>1, <2>2, <2>6 DEF LatestNumber
<1>. QED  BY <1>1, <1>2

\* A write leaves a row a row, and changes a column to the written value or not at all.
LEMMA PlanWriteKeepsRow ==
  ASSUME NEW plan \in PlanRow, NEW w \in PlanWrite
  PROVE  ApplyPlanWrite(plan, w) \in PlanRow
BY DEF PlanRow, PlanWrite, ApplyPlanWrite, Written

\* Resetting the count, or leaving it, respects the maximum.
LEMMA ResetWithinMax ==
  ASSUME NEW plan \in PlanRow, NEW w \in PlanWrite, WithinMax(plan),
         w.count \in {0, None}, w.max = None
  PROVE  WithinMax(ApplyPlanWrite(plan, w))
BY DEF PlanRow, PlanWrite, ApplyPlanWrite, Written, WithinMax

LEMMA OutcomeKeepsRow ==
  ASSUME NEW row \in AttemptRow, NEW w \in OutcomeWrite
  PROVE  /\ ApplyOutcome(row, w) \in AttemptRow
         /\ ApplyOutcome(row, w).number = row.number
         /\ ApplyOutcome(row, w).status = Written(row.status, w.status)
BY DEF AttemptRow, OutcomeWrite, ApplyOutcome, Written, PaymentStatus

LEMMA PlanColumnsAreWrite ==
  ASSUME NEW plan \in PlanRow, NEW edit \in PlanWrite
  PROVE  PlanColumns(plan, edit) \in PlanWrite
BY DEF PlanRow, PlanWrite, PlanColumns, Changed, Written

\* What the flush of an outcome decides about the schedule.
LEMMA EffectOK ==
  ASSUME NEW t, t.status \in {"succeeded", "failed"}, t.time \in PlanTime,
         schedule \in PlanRow \union {None}
  PROVE  LET e == PlanEffect(t, schedule) IN
         /\ e.insert \in BOOLEAN
         /\ e.plan \in PlanWrite
         /\ IF e.insert THEN e.plan \in PlanRow /\ WithinMax(e.plan)
                        ELSE /\ e.plan.count \in {0, None} /\ e.plan.max = None
                             /\ t.status = "failed" => schedule # None
BY StoreAssumption DEF PlanEffect, ResolvePlan, EnsurePlan, NoWrite, Changed, PlanRow,
   PlanWrite, RetryStatus, TerminalRetryStatus, WithinMax

-----------------------------------------------------------------------------
(* The invariant *)

LEMMA IInvInit == Init => IInv
BY EmptySeq, StoreAssumption DEF Init, IInv, TypeOK, CountWithinMax, NumbersGapless, FailureHasPlan,
   SessionsOK, SessionOK, Idle, TxnState, MandateStatus, AttemptsBounded

\* A step of something else.
LEMMA StoreUntouched == IInv /\ UNCHANGED storeVars => IInv'
BY DEF IInv, TypeOK, CountWithinMax, NumbersGapless, FailureHasPlan, SessionsOK, SessionOK,
   storeVars, WithinMax, AttemptsBounded

\* A step that leaves the rows alone: only the session that moved needs a look.
LEMMA RowsUntouched ==
  ASSUME IInv, UNCHANGED store, NEW s \in Sessions, NEW t \in TxnState,
         txn' = [txn EXCEPT ![s] = t], SessionOK(t)
  PROVE  IInv'
<1>1. TypeOK'
  BY DEF IInv, TypeOK, store
<1>2. CountWithinMax' /\ NumbersGapless' /\ FailureHasPlan'
  BY DEF IInv, CountWithinMax, NumbersGapless, FailureHasPlan, store, WithinMax
<1>3. SessionsOK' /\ AttemptsBounded'
  BY DEF IInv, TypeOK, SessionsOK, SessionOK, AttemptsBounded, store
<1>. QED  BY <1>1, <1>2, <1>3 DEF IInv

RowsKept ==
  /\ Len(attempts) \in Nat /\ Len(attempts') \in Nat
  /\ Len(attempts) <= Len(attempts')
  /\ schedule # None => schedule' # None

\* The sessions that are not committing keep what they rely on, as long as no
\* attempt row disappears and the schedule row stays once it exists.
LEMMA OthersUndisturbed ==
  ASSUME IInv, NEW s \in Sessions, txn' = [txn EXCEPT ![s] = Idle], RowsKept
  PROVE  SessionsOK'
<1>. SUFFICES ASSUME NEW r \in Sessions
              PROVE  SessionOK(txn[r])'
  BY DEF SessionsOK
<1>1. CASE r = s
  BY <1>1 DEF IInv, TypeOK, SessionOK, Idle
<1>2. CASE r # s
  <2>1. txn'[r] = txn[r] /\ txn[r] \in TxnState /\ SessionOK(txn[r])
    BY <1>2 DEF IInv, TypeOK, SessionsOK
  <2>2. txn[r].op = "record" => txn[r].number \in Nat
    BY <2>1 DEF TxnState, Idle
  <2>. QED  BY <2>1, <2>2 DEF SessionOK, RowsKept
<1>. QED  BY <1>1, <1>2

\* Closing a transaction without a commit.
LEMMA ClosedWithoutCommit ==
  ASSUME IInv, UNCHANGED store, NEW s \in Sessions, txn' = [txn EXCEPT ![s] = Idle]
  PROVE  IInv'
<1>1. Idle \in TxnState /\ SessionOK(Idle)
  BY DEF Idle, TxnState, SessionOK
<1>. QED  BY <1>1, RowsUntouched

-----------------------------------------------------------------------------
(* Transactions begin *)

LEMMA BeginTransitionStep ==
  ASSUME IInv, NEW s \in Sessions, NEW target \in DOMAIN AllowedFrom, BeginTransition(s, target)
  PROVE  IInv'
<1>. DEFINE t == [op |-> "transition", target |-> target]
<1>1. t \in TxnState
  BY DEF TxnState, AllowedFrom, MandateStatus
<1>2. SessionOK(t)
  BY DEF SessionOK
<1>. QED  BY <1>1, <1>2, RowsUntouched DEF BeginTransition, Open

LEMMA BeginRecordStep ==
  ASSUME IInv, NEW s \in Sessions, NEW order \in BOOLEAN, BeginRecord(s, order)
  PROVE  IInv'
<1>. DEFINE t == [op |-> "record", number |-> LatestNumber + 1, order |-> order]
<1>1. LatestNumber = Len(attempts) /\ Len(attempts) \in Nat
  BY LatestIsLast, LenProperties DEF IInv, TypeOK
<1>2. t \in TxnState
  BY <1>1, StoreAssumption DEF TxnState
<1>3. SessionOK(t)
  BY <1>1, StoreAssumption DEF SessionOK, BeginRecord
<1>. QED  BY <1>2, <1>3, RowsUntouched DEF BeginRecord, Open

LEMMA BeginOutcomeStep ==
  ASSUME IInv, NEW s \in Sessions, NEW a \in DOMAIN attempts,
         NEW status \in {"succeeded", "failed"}, NEW category \in Categories \union {NoDecline},
         NEW time \in PlanTime, BeginOutcome(s, a, status, category, time)
  PROVE  IInv'
<1>. DEFINE w == [status   |-> Changed(attempts[a].status, status),
                  category |-> IF status = "failed"
                               THEN Changed(attempts[a].category, category)
                               ELSE None]
            t == [op |-> "outcome", attempt |-> a, status |-> status, time |-> time,
                  write |-> w]
<1>1. a \in 1..Len(attempts) /\ a \in Nat \ {0}
  BY LenProperties DEF IInv, TypeOK
<1>2. w \in OutcomeWrite /\ w.status \in {status, None}
  BY StoreAssumption DEF OutcomeWrite, Changed
<1>3. t \in TxnState
  BY <1>1, <1>2 DEF TxnState
<1>4. SessionOK(t)
  BY <1>1, <1>2 DEF SessionOK
<1>. QED  BY <1>3, <1>4, RowsUntouched DEF BeginOutcome, Open

LEMMA BeginCreatePlanStep ==
  ASSUME IInv, NEW s \in Sessions, NEW max \in 0..DefaultMaxRetries, NEW time \in PlanTime,
         BeginCreatePlan(s, max, time)
  PROVE  IInv'
<1>. DEFINE row == [status |-> "pending", count |-> 0, max |-> max, time |-> time]
            t == [op |-> "create", row |-> row]
<1>1. row \in PlanRow /\ WithinMax(row)
  BY StoreAssumption DEF PlanRow, RetryStatus, WithinMax
<1>2. t \in TxnState /\ SessionOK(t)
  BY <1>1 DEF TxnState, SessionOK
<1>. QED  BY <1>2, RowsUntouched DEF BeginCreatePlan, Open

LEMMA BeginUpdatePlanStep ==
  ASSUME IInv, NEW s \in Sessions, NEW plan \in PlanRow \union {None}, NEW edit \in PlanWrite,
         BeginUpdatePlan(s, plan, edit)
  PROVE  IInv'
<1>. DEFINE t == [op |-> "update", write |-> PlanColumns(plan, edit)]
<1>1. plan \in PlanRow
  BY DEF BeginUpdatePlan
<1>2. t \in TxnState /\ SessionOK(t)
  BY <1>1, PlanColumnsAreWrite DEF TxnState, SessionOK
<1>. QED  BY <1>2, RowsUntouched DEF BeginUpdatePlan, Open

LEMMA BeginStep ==
  ASSUME IInv, NEW s \in Sessions, Begin(s)
  PROVE  IInv'
<1>1. schedule \in PlanRow \union {None} /\ PlanEdits \subseteq PlanWrite /\ OrderOutcomes \subseteq BOOLEAN
  BY StoreAssumption DEF IInv, TypeOK, PlanWrite
<1>. QED  BY <1>1, BeginTransitionStep, BeginRecordStep, BeginOutcomeStep, BeginCreatePlanStep,
             BeginUpdatePlanStep
             DEF Begin, MandateRequest, AttemptRequest, ScheduleRequest, PlanTime

LEMMA FlushOutcomeStep ==
  ASSUME IInv, NEW s \in Sessions, FlushOutcome(s)
  PROVE  IInv'
<1>. DEFINE e == PlanEffect(txn[s], schedule)
            t == [op |-> "flushed", attempt |-> txn[s].attempt, status |-> txn[s].status,
                  write |-> txn[s].write, insert |-> e.insert, plan |-> e.plan]
<1>1. /\ txn[s].attempt \in Nat \ {0} /\ txn[s].status \in {"succeeded", "failed"}
      /\ txn[s].write \in OutcomeWrite /\ txn[s].time \in PlanTime
  BY DEF IInv, TypeOK, TxnState, Idle, FlushOutcome
<1>2. SessionOK(txn[s]) /\ txn[s].op = "outcome"
  BY DEF IInv, SessionsOK, FlushOutcome
<1>3. schedule \in PlanRow \union {None}
  BY DEF IInv, TypeOK
<1>4. /\ e.insert \in BOOLEAN /\ e.plan \in PlanWrite
      /\ IF e.insert THEN e.plan \in PlanRow /\ WithinMax(e.plan)
                     ELSE /\ e.plan.count \in {0, None} /\ e.plan.max = None
                          /\ txn[s].status = "failed" => schedule # None
  BY <1>1, <1>3, EffectOK
<1>. HIDE DEF e
<1>5. t \in TxnState
  BY <1>1, <1>4 DEF TxnState
<1>6. SessionOK(t)
  BY <1>2, <1>4 DEF SessionOK
<1>7. UNCHANGED store /\ txn' = [txn EXCEPT ![s] = t]
  BY DEF FlushOutcome, IInv, TypeOK, e
<1>. QED  BY <1>5, <1>6, <1>7, RowsUntouched

-----------------------------------------------------------------------------
(* Transactions end *)

LEMMA CommitTransitionStep ==
  ASSUME IInv, NEW s \in Sessions, CommitTransition(s)
  PROVE  IInv'
<1>1. txn[s].target \in MandateStatus
  BY DEF IInv, TypeOK, TxnState, Idle, CommitTransition, Close
<1>2. TypeOK'
  BY <1>1 DEF IInv, TypeOK, CommitTransition, Close, TxnState
<1>3. CountWithinMax' /\ NumbersGapless' /\ FailureHasPlan'
  BY DEF IInv, CommitTransition, CountWithinMax, NumbersGapless, FailureHasPlan, WithinMax
<1>4. RowsKept
  BY LenProperties DEF IInv, TypeOK, CommitTransition, RowsKept
<1>5. SessionsOK' /\ AttemptsBounded'
  BY <1>4, OthersUndisturbed DEF CommitTransition, Close, IInv, AttemptsBounded
<1>. QED  BY <1>2, <1>3, <1>5 DEF IInv

\* The number is free, so it lies beyond the rows; SessionOK keeps it next to them.
LEMMA RecordAppends ==
  ASSUME IInv, NEW s \in Sessions, CommitRecord(s)
  PROVE  /\ NewAttempt(txn[s]) \in AttemptRow
         /\ txn[s].number = Len(attempts) + 1
         /\ attempts' \in Seq(AttemptRow) /\ Len(attempts') = Len(attempts) + 1
         /\ \A i \in 1..Len(attempts) : attempts'[i] = attempts[i]
         /\ attempts'[Len(attempts) + 1] = NewAttempt(txn[s])
<1>. DEFINE row == NewAttempt(txn[s])
<1>1. txn[s].number \in Nat \ {0} /\ txn[s].order \in BOOLEAN
  BY DEF IInv, TypeOK, TxnState, Idle, CommitRecord, Close
<1>2. row \in AttemptRow
  BY <1>1 DEF NewAttempt, AttemptRow, PaymentStatus
<1>3. attempts \in Seq(AttemptRow) /\ Len(attempts) \in Nat /\ DOMAIN attempts = 1..Len(attempts)
  BY LenProperties DEF IInv, TypeOK
<1>4. txn[s].number = Len(attempts) + 1
  <2>1. txn[s].number <= Len(attempts) + 1
    BY DEF IInv, SessionsOK, SessionOK, CommitRecord, Close
  <2>2. \A i \in 1..Len(attempts) : i # txn[s].number
    BY <1>3 DEF IInv, NumbersGapless, CommitRecord, NumberFree
  <2>. QED  BY <1>1, <1>3, <2>1, <2>2
<1>. HIDE DEF row
<1>5. attempts' = Append(attempts, row)
  BY DEF CommitRecord, row
<1>. QED  BY <1>2, <1>3, <1>4, <1>5, AppendProperties DEF row

LEMMA CommitRecordStep ==
  ASSUME IInv, NEW s \in Sessions, CommitRecord(s)
  PROVE  IInv'
<1>. DEFINE row == NewAttempt(txn[s])
<1>1. row.number = txn[s].number /\ row.status = "pending"
  BY DEF NewAttempt
<1>2. Len(attempts) \in Nat /\ DOMAIN attempts = 1..Len(attempts)
  BY LenProperties DEF IInv, TypeOK
<1>3. /\ txn[s].number = Len(attempts) + 1
      /\ attempts' \in Seq(AttemptRow) /\ Len(attempts') = Len(attempts) + 1
      /\ \A i \in 1..Len(attempts) : attempts'[i] = attempts[i]
      /\ attempts'[Len(attempts) + 1] = row
  BY RecordAppends
<1>4. DOMAIN attempts' = 1..(Len(attempts) + 1)
  BY <1>3, LenProperties
<1>. HIDE DEF row
<1>5. TypeOK'
  BY <1>3 DEF IInv, TypeOK, CommitRecord, Close, TxnState
<1>6. CountWithinMax'
  BY DEF IInv, CommitRecord, CountWithinMax, WithinMax
<1>7. NumbersGapless'
  BY <1>1, <1>2, <1>3, <1>4 DEF IInv, NumbersGapless
<1>8. FailureHasPlan'
  <2>1. ASSUME NEW i \in DOMAIN attempts', attempts'[i].status = "failed"
        PROVE  i \in DOMAIN attempts /\ attempts[i].status = "failed"
    BY <1>1, <1>2, <1>3, <1>4, <2>1
  <2>. QED  BY <2>1 DEF IInv, FailureHasPlan, CommitRecord
<1>9. RowsKept
  BY <1>2, <1>3 DEF CommitRecord, RowsKept
<1>10. SessionsOK'
  BY <1>9, OthersUndisturbed DEF CommitRecord, Close
<1>11. AttemptsBounded'
  BY <1>3 DEF IInv, SessionsOK, SessionOK, CommitRecord, Close, AttemptsBounded
<1>. QED  BY <1>5, <1>6, <1>7, <1>8, <1>10, <1>11 DEF IInv

\* An outcome replaces one row, and its status by the outcome or not at all.
LEMMA OutcomeReplaces ==
  ASSUME IInv, NEW s \in Sessions, CommitOutcome(s)
  PROVE  LET a == txn[s].attempt
             row == ApplyOutcome(attempts[a], txn[s].write) IN
         /\ a \in 1..Len(attempts) /\ txn[s].status \in {"succeeded", "failed"}
         /\ row \in AttemptRow /\ row.number = attempts[a].number
         /\ row.status \in {attempts[a].status, txn[s].status}
         /\ attempts' \in Seq(AttemptRow) /\ Len(attempts') = Len(attempts)
         /\ \A i \in 1..Len(attempts) : attempts'[i] = IF i = a THEN row ELSE attempts[i]
<1>. DEFINE t == txn[s]
            row == ApplyOutcome(attempts[t.attempt], t.write)
<1>1. t.op = "flushed" /\ t.status \in {"succeeded", "failed"} /\ t.write \in OutcomeWrite
  BY DEF IInv, TypeOK, TxnState, Idle, CommitOutcome, Close
<1>2. t.attempt \in 1..Len(attempts) /\ t.write.status \in {t.status, None}
  BY <1>1 DEF IInv, SessionsOK, SessionOK
<1>3. attempts \in Seq(AttemptRow) /\ attempts[t.attempt] \in AttemptRow
  BY <1>2, ElementOfSeq DEF IInv, TypeOK
<1>4. /\ row \in AttemptRow /\ row.number = attempts[t.attempt].number
      /\ row.status = Written(attempts[t.attempt].status, t.write.status)
  BY <1>1, <1>3, OutcomeKeepsRow
<1>. HIDE DEF row
<1>5. attempts' = [attempts EXCEPT ![t.attempt] = row]
  BY DEF CommitOutcome, row
<1>6. /\ attempts' \in Seq(AttemptRow) /\ Len(attempts') = Len(attempts)
      /\ \A i \in 1..Len(attempts) : attempts'[i] = IF i = t.attempt THEN row ELSE attempts[i]
  BY <1>2, <1>3, <1>4, <1>5, ExceptSeq
<1>7. row.status \in {attempts[t.attempt].status, t.status}
  BY <1>2, <1>4 DEF Written
<1>. QED  BY <1>1, <1>2, <1>4, <1>6, <1>7 DEF row

LEMMA CommitOutcomeStep ==
  ASSUME IInv, NEW s \in Sessions, CommitOutcome(s)
  PROVE  IInv'
<1>. DEFINE t == txn[s]
            row == ApplyOutcome(attempts[t.attempt], t.write)
<1>1. t.op = "flushed" /\ t.insert \in BOOLEAN /\ t.plan \in PlanWrite
  BY DEF IInv, TypeOK, TxnState, Idle, CommitOutcome, Close
<1>2. SessionOK(t)
  BY DEF IInv, SessionsOK
<1>3. /\ schedule \in PlanRow \union {None}
      /\ Len(attempts) \in Nat /\ DOMAIN attempts = 1..Len(attempts)
  BY LenProperties DEF IInv, TypeOK
<1>4. /\ t.attempt \in 1..Len(attempts) /\ t.status \in {"succeeded", "failed"}
      /\ row.number = attempts[t.attempt].number
      /\ row.status \in {attempts[t.attempt].status, t.status}
      /\ attempts' \in Seq(AttemptRow) /\ Len(attempts') = Len(attempts)
      /\ \A i \in 1..Len(attempts) : attempts'[i] = IF i = t.attempt THEN row ELSE attempts[i]
  BY OutcomeReplaces
<1>5. DOMAIN attempts' = DOMAIN attempts
  BY <1>3, <1>4, LenProperties
<1>. HIDE DEF row
<1>6. schedule' = PlanAfter(t)
  BY DEF CommitOutcome
<1>7. schedule' \in PlanRow \union {None}
  BY <1>1, <1>2, <1>3, <1>6, PlanWriteKeepsRow DEF PlanAfter, SessionOK
<1>8. CountWithinMax'
  <2>1. CASE t.insert
    BY <1>1, <1>2, <1>6, <2>1 DEF PlanAfter, SessionOK, CountWithinMax, WithinMax
  <2>2. CASE ~t.insert /\ schedule = None
    BY <1>6, <2>2 DEF PlanAfter, CountWithinMax
  <2>3. CASE ~t.insert /\ schedule # None
    <3>1. WithinMax(schedule) /\ schedule \in PlanRow
      BY <1>3, <2>3 DEF IInv, CountWithinMax
    <3>2. t.plan.count \in {0, None} /\ t.plan.max = None
      BY <1>1, <1>2, <2>3 DEF SessionOK
    <3>3. WithinMax(ApplyPlanWrite(schedule, t.plan))
      BY <1>1, <3>1, <3>2, ResetWithinMax
    <3>. QED  BY <1>6, <2>3, <3>3 DEF PlanAfter, CountWithinMax, WithinMax
  <2>. QED  BY <1>1, <2>1, <2>2, <2>3
\* A schedule row never goes away, and a failure that inserts none found one.
<1>9. /\ schedule # None => schedule' # None
      /\ t.status = "failed" => schedule' # None
  BY <1>1, <1>2, <1>3, <1>6, PlanWriteKeepsRow, NoneIsNoRow DEF PlanAfter, SessionOK
<1>10. TypeOK'
  BY <1>4, <1>7 DEF IInv, TypeOK, CommitOutcome, Close, TxnState
<1>11. NumbersGapless'
  BY <1>3, <1>4, <1>5 DEF IInv, NumbersGapless
<1>12. FailureHasPlan'
  <2>. SUFFICES ASSUME NEW i \in DOMAIN attempts', attempts'[i].status = "failed"
                PROVE  schedule' # None
    BY DEF FailureHasPlan
  <2>1. CASE t.status = "failed"
    BY <1>9, <2>1
  <2>2. CASE t.status = "succeeded"
    <3>1. i \in DOMAIN attempts /\ attempts[i].status = "failed"
      BY <1>3, <1>4, <1>5, <2>2
    <3>. QED  BY <1>9, <3>1 DEF IInv, FailureHasPlan
  <2>. QED  BY <1>4, <2>1, <2>2
<1>13. RowsKept
  BY <1>3, <1>4, <1>9 DEF RowsKept
<1>14. SessionsOK' /\ AttemptsBounded'
  BY <1>4, <1>13, OthersUndisturbed DEF CommitOutcome, Close, IInv, AttemptsBounded
<1>. QED  BY <1>8, <1>10, <1>11, <1>12, <1>14 DEF IInv

\* A commit that only replaces the schedule row by one within its maximum.
LEMMA PlanReplaced ==
  ASSUME IInv, NEW s \in Sessions, txn' = [txn EXCEPT ![s] = Idle],
         UNCHANGED <<mandate, attempts>>,
         schedule' \in PlanRow, WithinMax(schedule')
  PROVE  IInv'
<1>1. schedule' # None
  BY NoneIsNoRow
<1>2. TypeOK'
  BY DEF IInv, TypeOK, TxnState
<1>3. CountWithinMax' /\ NumbersGapless' /\ FailureHasPlan'
  BY <1>1 DEF IInv, CountWithinMax, NumbersGapless, FailureHasPlan, WithinMax
<1>4. RowsKept
  BY <1>1, LenProperties DEF IInv, TypeOK, RowsKept
<1>5. SessionsOK' /\ AttemptsBounded'
  BY <1>4, OthersUndisturbed DEF IInv, AttemptsBounded
<1>. QED  BY <1>2, <1>3, <1>5 DEF IInv

LEMMA CommitCreatePlanStep ==
  ASSUME IInv, NEW s \in Sessions, CommitCreatePlan(s)
  PROVE  IInv'
<1>1. txn[s].row \in PlanRow
  BY DEF IInv, TypeOK, TxnState, Idle, CommitCreatePlan, Close
<1>2. WithinMax(txn[s].row)
  BY DEF IInv, SessionsOK, SessionOK, CommitCreatePlan, Close
<1>3. schedule' \in PlanRow /\ WithinMax(schedule')
  BY <1>1, <1>2 DEF IInv, TypeOK, CountWithinMax, CommitCreatePlan
<1>. QED  BY <1>3, PlanReplaced DEF CommitCreatePlan, Close

LEMMA CommitUpdatePlanStep ==
  ASSUME IInv, NEW s \in Sessions, CommitUpdatePlan(s)
  PROVE  IInv'
<1>1. txn[s].write \in PlanWrite
  BY DEF IInv, TypeOK, TxnState, Idle, CommitUpdatePlan, Close
<1>2. schedule \in PlanRow
  BY DEF IInv, TypeOK, CommitUpdatePlan
<1>3. schedule' \in PlanRow /\ WithinMax(schedule')
  BY <1>1, <1>2, PlanWriteKeepsRow DEF CommitUpdatePlan
<1>. QED  BY <1>3, PlanReplaced DEF CommitUpdatePlan, Close

LEMMA FinishStep ==
  ASSUME IInv, NEW s \in Sessions, Finish(s)
  PROVE  IInv'
<1>1. CASE RejectDuplicateAttempt(s) \/ RejectDuplicatePlan(s) \/ RejectUpdatePlan(s)
  BY <1>1, ClosedWithoutCommit
     DEF RejectDuplicateAttempt, RejectDuplicatePlan, RejectUpdatePlan, Close
<1>. QED  BY <1>1, CommitTransitionStep, CommitRecordStep, CommitOutcomeStep,
             CommitCreatePlanStep, CommitUpdatePlanStep DEF Finish

LEMMA RetryComesDueStep ==
  ASSUME IInv, RetryComesDue
  PROVE  IInv'
<1>1. /\ schedule \in PlanRow /\ schedule' = [schedule EXCEPT !.time = "due"]
      /\ schedule # None /\ WithinMax(schedule)
  BY DEF IInv, TypeOK, CountWithinMax, RetryComesDue
<1>2. schedule' \in PlanRow /\ WithinMax(schedule')
  BY <1>1 DEF PlanRow, PlanTime, WithinMax
<1>3. schedule' # None
  BY <1>2, NoneIsNoRow
<1>4. TypeOK'
  BY <1>2 DEF IInv, TypeOK, RetryComesDue
<1>5. CountWithinMax' /\ NumbersGapless' /\ FailureHasPlan'
  BY <1>2, <1>3 DEF IInv, RetryComesDue, CountWithinMax, NumbersGapless, FailureHasPlan, WithinMax
<1>6. SessionsOK' /\ AttemptsBounded'
  BY <1>1, <1>3 DEF IInv, RetryComesDue, SessionsOK, SessionOK, AttemptsBounded
<1>. QED  BY <1>4, <1>5, <1>6 DEF IInv

-----------------------------------------------------------------------------
(* The theorems *)

LEMMA IInvStep == IInv /\ [Next]_storeVars => IInv'
<1>. SUFFICES ASSUME IInv, [Next]_storeVars
              PROVE  IInv'
  OBVIOUS
<1>1. ASSUME NEW s \in Sessions, Rollback(s)
      PROVE  IInv'
  BY <1>1, ClosedWithoutCommit DEF Rollback
<1>. QED  BY <1>1, StoreUntouched, BeginStep, FlushOutcomeStep, FinishStep, RetryComesDueStep DEF Next

\* The strengthened invariant holds in every reachable state.
THEOREM StoreInvariant == Spec => []IInv
BY IInvInit, IInvStep, PTL DEF Spec

\* Every row keeps the types of its columns.
THEOREM TypesCorrect == Spec => []TypeOK
<1>1. IInv => TypeOK
  BY DEF IInv
<1>. QED  BY <1>1, StoreInvariant, PTL

\* retry_count never exceeds max_retries, whatever is interleaved with what.
THEOREM BudgetColumnsConsistent == Spec => []CountWithinMax
<1>1. IInv => CountWithinMax
  BY DEF IInv
<1>. QED  BY <1>1, StoreInvariant, PTL

\* Attempts are numbered 1, 2, 3, ... by any number of concurrent recorders.
THEOREM AttemptsGapless == Spec => []NumbersGapless
<1>1. IInv => NumbersGapless
  BY DEF IInv
<1>. QED  BY <1>1, StoreInvariant, PTL

\* Every failed attempt belongs to a mandate that has a retry schedule.
THEOREM FailuresFollowedUp == Spec => []FailureHasPlan
<1>1. IInv => FailureHasPlan
  BY DEF IInv
<1>. QED  BY <1>1, StoreInvariant, PTL
=============================================================================
