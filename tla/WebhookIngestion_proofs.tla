------------------------ MODULE WebhookIngestion_proofs ------------------------
(***************************************************************************)
(* Proofs about WebhookIngestion, for any events, any number of clients    *)
(* and other callers, and any bounds: what the handler was told, applied,  *)
(* recorded and acknowledged agree with each other across failures, and    *)
(* every order of the gateway is accounted for.                            *)
(*                                                                         *)
(* Three invariants carry it: WInv of the workflow, whose runs the handler *)
(* starts; OrderInv, of the calls to the gateway; and EventInv, of what a  *)
(* delivery stands on at each of its steps.                                *)
(***************************************************************************)
EXTENDS WebhookIngestion, RecoveryWorkflow_proofs, FiniteSetTheorems

-----------------------------------------------------------------------------
(* What each step stands on *)

HandlerPc == {"lookup", "match", "apply", "record", "respond", "rerun"}

Delivery == [pc: HandlerPc, event: Event, valid: BOOLEAN, error: BOOLEAN,
             attempt: 0..MaxAttempts]

\* A call is part of recording an attempt, and has an order once it is created.
CallOK(s) ==
  /\ call[s].pc # "idle" => txn[s].op = "record"
  /\ call[s].pc # "created" => call[s].order = NoOrder

Lost == (1..orders) \ KnownOrders

OrderInv ==
  /\ ClientTypeOK
  /\ orderOf \in [1..MaxAttempts -> 0..MaxOrders]
  /\ KnownOrders \subseteq 0..orders
  /\ \A s \in Clients : CallOK(s)
  /\ \A n \in 1..MaxAttempts : orderOf[n] # NoOrder => n <= Len(attempts)
  /\ \A s \in Clients : call[s].order # NoOrder =>
       /\ \A t \in Clients : t # s => call[t].order # call[s].order
       /\ \A n \in 1..MaxAttempts : orderOf[n] # call[s].order
  /\ Cardinality(Lost) = orphans

EventTypeOK ==
  /\ handler \in {Resting} \union Delivery
  /\ emitted \subseteq Event /\ acked \subseteq emitted
  /\ handler # Resting => handler.event \in emitted
  /\ rows \in [Event -> Row \union {None}]
  /\ applied \in [Event -> Nat]

\* Only an event without a row is matched and applied, and only one with a row answered.
HandlerOK ==
  /\ handler.pc \in {"match", "apply"} => rows[handler.event] = None
  /\ handler.pc \in {"respond", "rerun"} => rows[handler.event] # None
  /\ handler.pc = "rerun" => rows[handler.event].valid
  /\ handler.pc = "record" /\ ~handler.error /\ handler.event.type # "payment.authorized" =>
       applied[handler.event] > 0

\* A delivery has committed the event's outcome, and nothing but its row can follow.
Covered(e) == rows[e] # None \/ (handler.pc = "record" /\ handler.event = e)

AppliedInv ==
  \A e \in Event : applied[e] <= failures + 1 /\ (~Covered(e) => applied[e] <= failures)

EventInv ==
  EventTypeOK /\ HandlerOK /\ NothingDropped /\ ProcessedMeansApplied /\ AppliedInv

HInv == WInv /\ OrderInv /\ EventInv

-----------------------------------------------------------------------------
(* The rows and runs *)

LEMMA Sides ==
  /\ hook \in Runners /\ hook \in Sessions /\ hook \notin Callers
  /\ Clients \subseteq Callers /\ Callers \subseteq Sessions
BY WorkflowAssumption, WebhookAssumption DEF Runners

LEMMA RowsOfClient ==
  ASSUME WInv, OrderInv, NEW s \in Clients, Record(s) \/ RecordStep(s) \/ RecordFails(s)
  PROVE  WInv'
<1>1. s \in Sessions /\ s \in Callers /\ txn \in [Sessions -> TxnState] /\ IInv
      /\ Clients \subseteq Sessions
  BY Sides DEF WInv, IInv, TypeOK
<1>2. CASE RequestOrder(s) \/ GatewayStep(s)
  BY <1>2, WInvStep DEF RequestOrder, GatewayStep
\* The other steps change the rows or the session's transaction.
<1>3. ASSUME IInv', UNCHANGED <<run, escalations, spent>>, failures' \in {failures, failures + 1},
             failures' = failures \/ failures < MaxFailures
      PROVE  WInv'
  <2>1. failures' \in 0..MaxFailures /\ escalations' \in Nat /\ spent' \in Nat
    BY <1>3, Counters, WorkflowAssumption
  <2>. QED  BY <1>3, <2>1, RunsUntouched
<1>4. CASE Record(s)
  <2>1. IInv'
    BY <1>1, <1>4, BeginRecordStep DEF Record
  <2>. QED  BY <1>3, <1>4, <2>1 DEF Record, runVars
<1>5. CASE LinkOrder(s)
  <2>. DEFINE t == [txn[s] EXCEPT !.order = TRUE]
  <2>1. txn[s].op = "record"
    BY <1>5 DEF LinkOrder, Calling, OrderInv, CallOK
  <2>2. t \in TxnState /\ SessionOK(t)
    <3>1. txn[s] \in [op: {"record"}, number: Nat \ {0}, order: BOOLEAN]
      BY <1>1, <2>1 DEF TxnState, Idle
    <3>2. t \in [op: {"record"}, number: Nat \ {0}, order: BOOLEAN] /\ t.number = txn[s].number
      BY <3>1
    <3>3. SessionOK(txn[s])
      BY <1>1 DEF IInv, SessionsOK
    <3>. HIDE DEF t
    <3>. QED  BY <2>1, <3>2, <3>3 DEF TxnState, SessionOK
  <2>3. txn' = [txn EXCEPT ![s] = t]
    BY <1>5 DEF LinkOrder
  <2>4. IInv'
    <3>. HIDE DEF t
    <3>. QED  BY <1>1, <1>5, <2>2, <2>3, RowsUntouched DEF LinkOrder
  <2>. QED  BY <1>3, <1>5, <2>4 DEF LinkOrder, runVars
<1>6. CASE RecordCommitted(s) \/ RecordRejected(s)
  <2>1. IInv'
    BY <1>1, <1>6, FinishStep DEF RecordCommitted, RecordRejected, Finish
  <2>. QED  BY <1>3, <1>6, <2>1 DEF RecordCommitted, RecordRejected, runVars
<1>7. CASE AbandonRecord(s) /\ (failures' = failures \/ Mishap)
  <2>1. IInv'
    BY <1>1, <1>7, ClosedWithoutCommit DEF AbandonRecord, Rollback
  <2>. QED  BY <1>3, <1>7, <2>1 DEF AbandonRecord, Mishap
<1>. QED  BY <1>2, <1>4, <1>5, <1>6, <1>7 DEF RecordStep, RecordBroken, RecordFails

LEMMA RowsOfHandler ==
  ASSUME WInv, HandlerStep \/ RerunFails \/ DeliveryFails
  PROVE  WInv'
<1>1. IInv /\ hook \in Runners /\ hook \in Sessions
  BY Sides DEF WInv
<1>2. CASE LookUp \/ Unmatched \/ NotApplied \/ RecordEvent \/ RecordConflicts \/ Event400
           \/ Acknowledge
  <2>1. UNCHANGED vars
    BY <1>2 DEF LookUp, Unmatched, NotApplied, RecordEvent, RecordConflicts, Event400, Acknowledge
  <2>. QED  BY <2>1, WInvStep
<1>3. CASE Rerun \/ RerunStep \/ RerunFails
  BY <1>1, <1>3, StartStep, RunStepStep, RunFailsStep DEF Rerun, RerunStep, RerunFails
<1>4. CASE RerunCut
  BY <1>1, <1>4, StoreUntouched, Counters, RunEnds DEF RerunCut
<1>5. CASE Apply
  <2>1. PICK a \in Matches : /\ OutcomeOf(handler.event.type) # None
                             /\ BeginOutcome(hook, a, OutcomeOf(handler.event.type), NoDecline, "later")
    BY <1>5 DEF Apply
  <2>2. a \in DOMAIN attempts /\ OutcomeOf(handler.event.type) \in {"succeeded", "failed"}
    BY <2>1 DEF Matches, OutcomeOf
  <2>3. IInv'
    BY <1>1, <2>1, <2>2, BeginOutcomeStep DEF PlanTime
  <2>. QED  BY <1>5, <2>3, Counters, RunsUntouched DEF Apply, runVars
<1>6. CASE FlushEvent \/ CommitEvent \/ EventConflicts
  <2>1. IInv'
    BY <1>1, <1>6, FlushOutcomeStep, FinishStep DEF FlushEvent, CommitEvent, EventConflicts, Finish
  <2>2. UNCHANGED <<run, escalations, failures>> /\ (spent' = spent \/ spent' = 0)
    BY <1>6 DEF FlushEvent, CommitEvent, EventConflicts, runVars
  <2>. QED  BY <2>1, <2>2, Counters, RunsUntouched
<1>7. CASE DeliveryFails
  <2>1. IInv'
    BY <1>1, <1>7, ClosedWithoutCommit DEF DeliveryFails
  <2>2. failures' \in 0..MaxFailures
    BY <1>7, Counters, WorkflowAssumption DEF DeliveryFails, Mishap
  <2>. QED  BY <1>7, <2>1, <2>2, Counters, RunsUntouched DEF DeliveryFails
<1>. QED  BY <1>2, <1>3, <1>4, <1>5, <1>6, <1>7 DEF HandlerStep

LEMMA RowsStep ==
  ASSUME WInv, OrderInv, [HNext]_allVars
  PROVE  WInv'
<1>1. ASSUME NEW s \in Callers, OtherCaller(s)
      PROVE  WInv'
  BY <1>1, CallerStepStep DEF OtherCaller
<1>2. ASSUME NEW e \in Event, Redeliver(e) \/ DeliverUnsigned(e)
      PROVE  WInv'
  <2>1. IInv'
    BY <1>2, StoreUntouched DEF Redeliver, DeliverUnsigned, Deliver, store, storeVars, WInv
  <2>2. failures' = failures \/ (failures < MaxFailures /\ failures' = failures + 1)
    BY <1>2 DEF Redeliver, DeliverUnsigned, Mishap
  <2>3. failures' \in 0..MaxFailures
    BY <2>2, Counters, WorkflowAssumption
  <2>. QED  BY <1>2, <2>1, <2>3, Counters, RunsUntouched DEF Redeliver, DeliverUnsigned, Deliver
<1>3. CASE UNCHANGED allVars
  BY <1>3, WInvStep DEF allVars
<1>. QED  BY <1>1, <1>2, <1>3, RowsOfClient, RowsOfHandler DEF HNext

-----------------------------------------------------------------------------
(* The gateway's orders *)

CallRecord == [pc: {"idle", "asking", "created", "failed", "broken"},
               tries: 0..MAX_RETRIES, order: 0..MaxOrders]

LEMMA LostBounded ==
  ASSUME NEW n \in Nat, NEW K
  PROVE  IsFiniteSet((1..n) \ K) /\ Cardinality((1..n) \ K) \in 0..n
<1>. DEFINE S == 1..n
            T == (1..n) \ K
<1>1. IsFiniteSet(S) /\ Cardinality(S) = n
  BY FS_Interval
<1>2. T \in SUBSET S
  OBVIOUS
<1>. HIDE DEF S, T
<1>3. IsFiniteSet(T) /\ Cardinality(T) <= n
  BY <1>1, <1>2, FS_Subset
<1>4. Cardinality(T) \in Nat
  BY <1>3, FS_CardinalityType
<1>. QED  BY <1>3, <1>4 DEF T

\* One more order is lost.
LEMMA OneMoreLost ==
  ASSUME OrderInv, NEW o, o \notin Lost, Lost' = Lost \union {o}
  PROVE  Cardinality(Lost)' = orphans + 1
<1>1. IsFiniteSet(Lost)
  <2>1. orders \in Nat
    BY ClientAssumption DEF OrderInv, ClientTypeOK
  <2>. QED  BY <2>1, LostBounded DEF Lost
<1>2. Cardinality(Lost \union {o}) = Cardinality(Lost) + 1
  BY <1>1, FS_AddElement
<1>. QED  BY <1>2 DEF OrderInv

\* The orphans are counted by the orders that are lost, of which there are MaxOrders at most.
LEMMA OrphansAreOrders ==
  ASSUME orders' \in 0..MaxOrders, Cardinality(Lost)' = orphans'
  PROVE  orphans' \in 0..MaxOrders
<1>1. Cardinality(Lost)' \in 0..orders'
  BY ClientAssumption, LostBounded DEF Lost
<1>. QED  BY <1>1, ClientAssumption

\* A step that asks the gateway nothing.
LEMMA OrdersUntouched ==
  ASSUME WInv, OrderInv, UNCHANGED <<clientVars, orderOf>>,
         Len(attempts') \in {Len(attempts), Len(attempts) + 1},
         \A s \in Clients : call[s].pc # "idle" => txn'[s].op = "record"
  PROVE  OrderInv'
<1>1. Lost' = Lost /\ KnownOrders' = KnownOrders
  BY DEF Lost, KnownOrders, clientVars
<1>2. Len(attempts) \in Nat
  BY LenProperties DEF WInv, IInv, TypeOK
<1>3. \A n \in 1..MaxAttempts : orderOf'[n] # NoOrder => n <= Len(attempts')
  BY <1>2 DEF OrderInv
<1>4. \A s \in Clients : CallOK(s)'
  BY DEF OrderInv, CallOK, clientVars
<1>. QED  BY <1>1, <1>3, <1>4 DEF OrderInv, ClientTypeOK, clientVars

LEMMA CallsWellTyped ==
  ASSUME OrderInv
  PROVE  /\ call \in [Clients -> CallRecord] /\ orders \in 0..MaxOrders /\ orders \in Nat
         /\ orderOf \in [1..MaxAttempts -> 0..MaxOrders]
         /\ orphans \in Nat /\ Cardinality(Lost) = orphans
BY ClientAssumption DEF OrderInv, ClientTypeOK, CallRecord

\* A call goes on and learns of no order; the gateway may have made one.
LEMMA CallMoves ==
  ASSUME OrderInv, NEW s \in Clients, NEW c \in CallRecord, NEW made \in {0, 1},
         call' = [call EXCEPT ![s] = c],
         c.order = call[s].order, c.pc # "created" => c.order = NoOrder, txn[s].op = "record",
         orders' = orders + made, orders' <= MaxOrders, orphans' = orphans + made,
         UNCHANGED <<txn, attempts, orderOf>>
  PROVE  OrderInv'
<1>1. /\ call \in [Clients -> CallRecord] /\ orders \in Nat /\ orders \in 0..MaxOrders
      /\ orphans \in Nat /\ Cardinality(Lost) = orphans /\ KnownOrders \subseteq 0..orders
  BY CallsWellTyped DEF OrderInv
<1>2. \A t \in Clients : call'[t].order = call[t].order
  BY <1>1
<1>3. KnownOrders' = KnownOrders
  BY <1>2 DEF KnownOrders
<1>4. orders' \in 0..MaxOrders
  BY <1>1, ClientAssumption
<1>5. Cardinality(Lost)' = orphans'
  <2>1. CASE made = 0
    <3>1. Lost' = Lost
      BY <1>1, <1>3, <2>1 DEF Lost
    <3>. QED  BY <1>1, <2>1, <3>1
  <2>2. CASE made = 1
    <3>1. orders + 1 \notin KnownOrders /\ orders + 1 \notin Lost
      BY <1>1 DEF Lost
    <3>2. Lost' = Lost \union {orders + 1}
      BY <1>1, <1>3, <2>2, <3>1 DEF Lost
    <3>. QED  BY <2>2, <3>1, <3>2, OneMoreLost
  <2>. QED  BY <2>1, <2>2
<1>6. KnownOrders' \subseteq 0..orders'
  BY <1>1, <1>3
<1>7. orphans' \in 0..MaxOrders
  BY <1>4, <1>5, OrphansAreOrders
<1>8. call' \in [Clients -> CallRecord] /\ \A t \in Clients : CallOK(t)'
  BY <1>1 DEF OrderInv, CallOK
<1>. QED  BY <1>2, <1>4, <1>5, <1>6, <1>7, <1>8 DEF OrderInv, ClientTypeOK, CallRecord

LEMMA GatewayOrders ==
  ASSUME OrderInv, NEW s \in Clients, RequestOrder(s) \/ GatewayStep(s)
  PROVE  OrderInv'
<1>1. /\ call \in [Clients -> CallRecord] /\ orders \in Nat /\ orders \in 0..MaxOrders
      /\ orphans \in Nat /\ Cardinality(Lost) = orphans /\ KnownOrders \subseteq 0..orders
      /\ CallOK(s) /\ call[s] \in CallRecord
  BY CallsWellTyped DEF OrderInv
<1>2. UNCHANGED <<txn, attempts, orderOf>>
  BY DEF RequestOrder, GatewayStep, vars, storeVars, hookVars
<1>3. CASE RequestOrder(s)
  <2>. DEFINE c == [call[s] EXCEPT !.pc = "asking"]
  <2>1. /\ call' = [call EXCEPT ![s] = c] /\ UNCHANGED <<orders, orphans>>
        /\ txn[s].op = "record" /\ call[s].pc = "idle"
    BY <1>3 DEF RequestOrder, Ask, Calling
  <2>2. c \in CallRecord /\ c.order = call[s].order /\ c.order = NoOrder
    BY <1>1, <2>1 DEF CallRecord, CallOK
  <2>3. orders' = orders + 0 /\ orphans' = orphans + 0 /\ orders' <= MaxOrders
    BY <1>1, <2>1, ClientAssumption
  <2>. HIDE DEF c
  <2>. QED  BY <1>2, <2>1, <2>2, <2>3, CallMoves
<1>4. CASE GatewayStep(s)
  <2>1. call[s].pc = "asking" /\ txn[s].op = "record" /\ call[s].order = NoOrder
    BY <1>1, <1>4 DEF GatewayStep, GatewayAnswers, TransientFailure, Refused, Answered, Garbled,
       Calling, CallOK
  <2>2. CASE TransientFailure(s)
    <3>. DEFINE c == AfterTransient(call[s])
    <3>1. c \in CallRecord /\ c.order = NoOrder
      BY <1>1, <2>1, ClientAssumption DEF AfterTransient, CallRecord
    <3>2. PICK made \in {0, 1} : /\ orders + made <= MaxOrders
                                 /\ orders' = orders + made
                                 /\ orphans' = orphans + made
      BY <2>2 DEF TransientFailure
    <3>3. call' = [call EXCEPT ![s] = c]
      BY <2>2 DEF TransientFailure
    <3>. HIDE DEF c
    <3>. QED  BY <1>2, <2>1, <3>1, <3>2, <3>3, CallMoves
  <2>3. CASE Refused(s) \/ Garbled(s)
    <3>1. PICK pc \in {"failed", "broken"}, made \in {0, 1} :
            /\ call' = [call EXCEPT ![s].pc = pc]
            /\ orders' = orders + made /\ orders' <= MaxOrders /\ orphans' = orphans + made
      BY <1>1, <2>3, ClientAssumption DEF Refused, Garbled
    <3>. DEFINE c == [call[s] EXCEPT !.pc = pc]
    <3>2. c \in CallRecord /\ c.order = NoOrder
      BY <1>1, <2>1 DEF CallRecord
    <3>3. call' = [call EXCEPT ![s] = c]
      BY <3>1
    <3>. HIDE DEF c
    <3>. QED  BY <1>2, <2>1, <3>1, <3>2, <3>3, CallMoves
  \* The session learns of the order.
  <2>4. CASE Answered(s)
    <3>. DEFINE c == [[call[s] EXCEPT !.pc = "created"] EXCEPT !.order = orders + 1]
    <3>1. /\ orders' = orders + 1 /\ orders' \in 0..MaxOrders /\ orphans' = orphans
          /\ call' = [call EXCEPT ![s] = c]
      BY <1>1, <2>4, ClientAssumption DEF Answered
    <3>2. c \in CallRecord /\ c.order = orders + 1 /\ c.pc = "created"
      BY <1>1, <3>1 DEF CallRecord
    <3>. HIDE DEF c
    <3>3. /\ call' \in [Clients -> CallRecord] /\ call'[s] = c
          /\ \A t \in Clients : t # s => call'[t] = call[t]
      BY <1>1, <3>1, <3>2
    <3>4. orders + 1 \notin KnownOrders
      BY <1>1
    <3>5. \A x : x # NoOrder => (x \in KnownOrders' <=> x \in KnownOrders \/ x = orders + 1)
      BY <1>2, <2>1, <3>2, <3>3 DEF KnownOrders
    <3>6. KnownOrders' \subseteq 0..orders'
      <4>. SUFFICES ASSUME NEW x \in KnownOrders' PROVE x \in 0..orders'
        OBVIOUS
      <4>1. x = 0 \/ x \in 0..orders \/ x = orders + 1
        BY <1>1, <3>5 DEF NoOrder
      <4>. QED  BY <1>1, <3>1, <4>1
    <3>7. Lost' = Lost
      BY <1>1, <3>1, <3>5 DEF Lost, NoOrder
    <3>8. Cardinality(Lost)' = orphans' /\ orphans' \in 0..MaxOrders
      BY <1>1, <3>1, <3>7, OrphansAreOrders
    <3>9. \A t \in Clients : CallOK(t)'
      BY <1>2, <2>1, <3>2, <3>3 DEF OrderInv, CallOK
    <3>10. \A t \in Clients : t # s => call[t].order # orders + 1
      BY <3>4 DEF KnownOrders
    <3>11. \A n \in 1..MaxAttempts : orderOf[n] # orders + 1
      BY <3>4 DEF KnownOrders
    <3>12. \A t \in Clients : call'[t].order # NoOrder =>
             /\ \A u \in Clients : u # t => call'[u].order # call'[t].order
             /\ \A n \in 1..MaxAttempts : orderOf'[n] # call'[t].order
      BY <1>2, <3>2, <3>3, <3>10, <3>11 DEF OrderInv
    <3>. QED  BY <1>2, <3>1, <3>3, <3>6, <3>8, <3>9, <3>12 DEF OrderInv, ClientTypeOK, CallRecord
  <2>. QED  BY <1>4, <2>2, <2>3, <2>4 DEF GatewayStep, GatewayAnswers
<1>. QED  BY <1>3, <1>4

\* The call is over; `order` is the order it leaves to nobody, if any.
LEMMA CallEnds ==
  ASSUME OrderInv, NEW s \in Clients, call' = [call EXCEPT ![s] = NoCall],
         UNCHANGED <<orders, orderOf, attempts>>,
         orphans' = IF call[s].order # NoOrder THEN orphans + 1 ELSE orphans,
         \A t \in Clients : t # s => txn'[t] = txn[t]
  PROVE  OrderInv'
<1>. DEFINE o == call[s].order
<1>1. /\ call \in [Clients -> CallRecord] /\ orders \in Nat /\ orders \in 0..MaxOrders
      /\ orphans \in Nat /\ Cardinality(Lost) = orphans /\ KnownOrders \subseteq 0..orders
  BY CallsWellTyped DEF OrderInv
<1>2. NoCall \in CallRecord
  BY ClientAssumption DEF NoCall, CallRecord, NoOrder
<1>3. /\ call' \in [Clients -> CallRecord] /\ call'[s] = NoCall
      /\ \A t \in Clients : t # s => call'[t] = call[t]
  BY <1>1, <1>2
<1>4. o \in KnownOrders
  BY DEF KnownOrders
<1>5. o # NoOrder => /\ \A t \in Clients : t # s => call[t].order # o
                     /\ \A n \in 1..MaxAttempts : orderOf[n] # o
  BY DEF OrderInv
<1>6. \A x : x # NoOrder => (x \in KnownOrders' <=> x \in KnownOrders /\ x # o)
  <2>. SUFFICES ASSUME NEW x, x # NoOrder
                PROVE  x \in KnownOrders' <=> x \in KnownOrders /\ x # o
    OBVIOUS
  <2>1. x \in KnownOrders' => x \in KnownOrders /\ x # o
    BY <1>3, <1>5 DEF KnownOrders, NoCall
  <2>2. x \in KnownOrders /\ x # o => x \in KnownOrders'
    BY <1>3 DEF KnownOrders
  <2>. QED  BY <2>1, <2>2
<1>7. KnownOrders' \subseteq 0..orders'
  <2>. SUFFICES ASSUME NEW x \in KnownOrders' PROVE x \in 0..orders
    OBVIOUS
  <2>1. x = 0 \/ x \in KnownOrders
    BY <1>6 DEF NoOrder
  <2>2. 0 \in 0..orders /\ KnownOrders \subseteq 0..orders
    BY <1>1
  <2>. QED  BY <2>1, <2>2
<1>8. Cardinality(Lost)' = orphans'
  <2>1. CASE o = NoOrder
    <3>1. Lost' = Lost
      BY <1>6, <2>1 DEF Lost, NoOrder
    <3>. QED  BY <1>1, <2>1, <3>1
  <2>2. CASE o # NoOrder
    <3>1. o \in 1..orders /\ o \notin Lost
      <4>1. o \in 0..orders /\ orders \in Nat
        BY <1>1, <1>4
      <4>. HIDE DEF o
      <4>. QED  BY <1>4, <2>2, <4>1 DEF Lost, NoOrder
    <3>2. Lost' = Lost \union {o}
      <4>1. \A x \in 1..orders : x \notin KnownOrders' <=> x \notin KnownOrders \/ x = o
        BY <1>6 DEF NoOrder
      <4>. QED  BY <3>1, <4>1 DEF Lost
    <3>. QED  BY <2>2, <3>1, <3>2, OneMoreLost
  <2>. QED  BY <2>1, <2>2
<1>9. orphans' \in 0..MaxOrders
  BY <1>1, <1>8, OrphansAreOrders
<1>10. \A t \in Clients : CallOK(t)'
  BY <1>3 DEF OrderInv, CallOK, NoCall
<1>11. \A t \in Clients : call'[t].order # NoOrder =>
         /\ \A u \in Clients : u # t => call'[u].order # call'[t].order
         /\ \A n \in 1..MaxAttempts : orderOf'[n] # call'[t].order
  BY <1>3 DEF OrderInv, NoCall
<1>. QED  BY <1>1, <1>3, <1>7, <1>8, <1>9, <1>10, <1>11 DEF OrderInv, ClientTypeOK, CallRecord

\* The order's id moves from the call to the attempt, which had none.
LEMMA OrderLinked ==
  ASSUME WInv, OrderInv, NEW s \in Clients, RecordCommitted(s)
  PROVE  OrderInv'
<1>. DEFINE n == txn[s].number
            o == call[s].order
<1>1. /\ call \in [Clients -> CallRecord] /\ orders \in Nat /\ orders \in 0..MaxOrders
      /\ orderOf \in [1..MaxAttempts -> 0..MaxOrders]
      /\ orphans \in Nat /\ Cardinality(Lost) = orphans /\ KnownOrders \subseteq 0..orders
  BY CallsWellTyped DEF OrderInv
<1>2. s \in Sessions /\ txn \in [Sessions -> TxnState] /\ Clients \subseteq Sessions
      /\ Len(attempts) \in Nat
  BY Sides, LenProperties DEF WInv, IInv, TypeOK
<1>3. /\ CommitRecord(s) /\ call' = [call EXCEPT ![s] = NoCall]
      /\ orderOf' = [orderOf EXCEPT ![n] = o] /\ UNCHANGED <<orders, orphans>>
  BY DEF RecordCommitted, Hangup
<1>4. /\ n = Len(attempts) + 1 /\ Len(attempts') = Len(attempts) + 1
  BY <1>2, <1>3, RecordAppends DEF WInv
<1>5. n \in 1..MaxAttempts
  <2>1. n <= MaxAttempts
    BY <1>2, <1>3 DEF CommitRecord, Close, WInv, IInv, SessionsOK, SessionOK
  <2>. QED  BY <1>2, <1>4, <2>1, StoreAssumption
<1>6. orderOf[n] = NoOrder
  BY <1>2, <1>4, <1>5 DEF OrderInv
<1>7. /\ call' \in [Clients -> CallRecord] /\ call'[s] = NoCall
      /\ \A t \in Clients : t # s => call'[t] = call[t]
      /\ o \in 0..MaxOrders
  BY <1>1, <1>3, ClientAssumption DEF NoCall, CallRecord, NoOrder
<1>. HIDE DEF n, o
<1>8. /\ orderOf' \in [1..MaxAttempts -> 0..MaxOrders] /\ orderOf'[n] = o
      /\ \A m \in 1..MaxAttempts : m # n => orderOf'[m] = orderOf[m]
  BY <1>1, <1>3, <1>5, <1>7
<1>9. \A x : x # NoOrder => (x \in KnownOrders' <=> x \in KnownOrders)
  <2>. SUFFICES ASSUME NEW x, x # NoOrder
                PROVE  x \in KnownOrders' <=> x \in KnownOrders
    OBVIOUS
  <2>1. x \in KnownOrders' => x \in KnownOrders
    BY <1>7, <1>8 DEF KnownOrders, NoCall, o
  <2>2. x \in KnownOrders => x \in KnownOrders'
    <3>1. ASSUME NEW m \in 1..MaxAttempts, x = orderOf[m]
          PROVE  x \in KnownOrders'
      BY <1>6, <1>8, <3>1 DEF KnownOrders
    <3>2. ASSUME NEW t \in Clients, x = call[t].order, t # s
          PROVE  x \in KnownOrders'
      BY <1>7, <3>2 DEF KnownOrders
    <3>3. x = o => x \in KnownOrders'
      BY <1>5, <1>8 DEF KnownOrders
    <3>. QED  BY <3>1, <3>2, <3>3 DEF KnownOrders, o
  <2>. QED  BY <2>1, <2>2
<1>10. KnownOrders' \subseteq 0..orders'
  <2>. SUFFICES ASSUME NEW x \in KnownOrders' PROVE x \in 0..orders
    BY <1>3
  <2>1. x = 0 \/ x \in KnownOrders
    BY <1>9 DEF NoOrder
  <2>2. 0 \in 0..orders /\ KnownOrders \subseteq 0..orders
    BY <1>1
  <2>. QED  BY <2>1, <2>2
<1>11. Lost' = Lost
  BY <1>3, <1>9 DEF Lost, NoOrder
<1>12. \A t \in Clients : CallOK(t)'
  <2>1. \A t \in Clients : t # s => txn'[t] = txn[t]
    BY <1>2, <1>3 DEF CommitRecord, Close
  <2>. QED  BY <1>7, <2>1 DEF OrderInv, CallOK, NoCall
<1>13. \A m \in 1..MaxAttempts : orderOf'[m] # NoOrder => m <= Len(attempts')
  BY <1>2, <1>4, <1>8 DEF OrderInv
<1>14. \A t \in Clients : call'[t].order # NoOrder =>
         /\ \A u \in Clients : u # t => call'[u].order # call'[t].order
         /\ \A m \in 1..MaxAttempts : orderOf'[m] # call'[t].order
  <2>. SUFFICES ASSUME NEW t \in Clients, call'[t].order # NoOrder
                PROVE  /\ \A u \in Clients : u # t => call'[u].order # call'[t].order
                       /\ \A m \in 1..MaxAttempts : orderOf'[m] # call'[t].order
    OBVIOUS
  <2>1. t # s /\ call'[t] = call[t]
    BY <1>7 DEF NoCall
  <2>2. /\ \A u \in Clients : u # t => call[u].order # call[t].order
        /\ \A m \in 1..MaxAttempts : orderOf[m] # call[t].order
    BY <2>1 DEF OrderInv
  <2>3. \A u \in Clients : u # t => call'[u].order # call'[t].order
    BY <1>7, <2>1, <2>2 DEF NoCall
  <2>4. \A m \in 1..MaxAttempts : orderOf'[m] # call'[t].order
    BY <1>8, <2>1, <2>2 DEF o
  <2>. QED  BY <2>3, <2>4
<1>. QED  BY <1>1, <1>3, <1>7, <1>8, <1>10, <1>11, <1>12, <1>13, <1>14
          DEF OrderInv, ClientTypeOK, CallRecord

LEMMA OrdersOfClient ==
  ASSUME WInv, OrderInv, NEW s \in Clients, Record(s) \/ RecordStep(s) \/ RecordFails(s)
  PROVE  OrderInv'
<1>1. /\ s \in Sessions /\ Clients \subseteq Sessions /\ txn \in [Sessions -> TxnState]
      /\ Len(attempts) \in Nat
  BY Sides, LenProperties DEF WInv, IInv, TypeOK
<1>2. CASE Record(s)
  <2>1. \E t : t.op = "record" /\ txn' = [txn EXCEPT ![s] = t]
    BY <1>2 DEF Record, BeginRecord, Open
  <2>2. UNCHANGED <<clientVars, orderOf, attempts>>
    BY <1>2 DEF Record, BeginRecord, store, hookVars
  <2>. QED  BY <1>1, <2>1, <2>2, OrdersUntouched DEF OrderInv, CallOK
<1>3. CASE LinkOrder(s)
  <2>1. txn[s].op = "record"
    BY <1>3 DEF LinkOrder, Calling, OrderInv, CallOK
  <2>2. [txn[s] EXCEPT !.order = TRUE].op = "record"
    <3>1. txn[s] \in [op: {"record"}, number: Nat \ {0}, order: BOOLEAN]
      BY <1>1, <2>1 DEF TxnState, Idle
    <3>. QED  BY <3>1
  <2>3. txn' = [txn EXCEPT ![s] = [txn[s] EXCEPT !.order = TRUE]]
    BY <1>3 DEF LinkOrder
  <2>4. \A t \in Clients : call[t].pc # "idle" => txn'[t].op = "record"
    BY <1>1, <2>2, <2>3 DEF OrderInv, CallOK
  <2>5. UNCHANGED <<clientVars, orderOf, attempts>>
    BY <1>3 DEF LinkOrder, store, hookVars
  <2>. QED  BY <1>1, <2>4, <2>5, OrdersUntouched
<1>4. CASE RecordRejected(s)
  <2>1. /\ call[s].pc = "idle" /\ txn' = [txn EXCEPT ![s] = Idle]
        /\ UNCHANGED <<clientVars, orderOf, attempts>>
    BY <1>4 DEF RecordRejected, RejectDuplicateAttempt, Close, Calling, store, hookVars
  <2>2. \A t \in Clients : call[t].pc # "idle" => txn'[t].op = "record"
    BY <1>1, <2>1 DEF OrderInv, CallOK
  <2>. QED  BY <1>1, <2>1, <2>2, OrdersUntouched
<1>5. CASE AbandonRecord(s)
  <2>1. /\ call' = [call EXCEPT ![s] = NoCall] /\ UNCHANGED <<orders, orderOf, attempts>>
        /\ orphans' = (IF call[s].order # NoOrder THEN orphans + 1 ELSE orphans)
        /\ txn' = [txn EXCEPT ![s] = Idle]
    BY <1>5 DEF AbandonRecord, Rollback, Hangup, store, hookVars
  <2>2. \A t \in Clients : t # s => txn'[t] = txn[t]
    BY <1>1, <2>1
  <2>. QED  BY <2>1, <2>2, CallEnds
<1>. QED  BY <1>2, <1>3, <1>4, <1>5, GatewayOrders, OrderLinked
          DEF RecordStep, RecordBroken, RecordFails

LEMMA OrdersOfCaller ==
  ASSUME WInv, OrderInv, NEW s \in Callers, OtherCaller(s)
  PROVE  OrderInv'
<1>1. /\ CallerStep(s) /\ txn[s].op # "record" /\ UNCHANGED <<clientVars, orderOf>>
      /\ s \in Sessions /\ Clients \subseteq Sessions /\ txn \in [Sessions -> TxnState]
  BY Sides DEF OtherCaller, hookVars, WInv, IInv, TypeOK
<1>2. /\ \E t : txn' = [txn EXCEPT ![s] = t]
      /\ Len(attempts') = Len(attempts)
  BY <1>1, CallerLeaves DEF WInv
<1>3. \A t \in Clients : call[t].pc # "idle" => txn'[t].op = "record"
  BY <1>1, <1>2 DEF OrderInv, CallOK
<1>. QED  BY <1>1, <1>2, <1>3, OrdersUntouched

\* The handler, its runs included, asks the gateway nothing.
LEMMA OrdersOfHandler ==
  ASSUME WInv, OrderInv, HandlerStep \/ RerunFails \/ DeliveryFails
  PROVE  OrderInv'
<1>1. /\ hook \in Runners /\ hook \in Sessions /\ hook \notin Clients
      /\ Clients \subseteq Callers /\ Clients \subseteq Sessions
      /\ txn \in [Sessions -> TxnState] /\ Len(attempts) \in Nat
      /\ \A s \in Clients : call[s].pc # "idle" => txn[s].op = "record"
  BY Sides, LenProperties DEF WInv, IInv, TypeOK, OrderInv, CallOK
<1>2. CASE Rerun \/ RerunStep \/ RerunFails
  <2>1. /\ Start(hook) \/ RunStep(hook) \/ RunFails(hook)
        /\ UNCHANGED <<clientVars, orderOf>>
    BY <1>2 DEF Rerun, RerunStep, RerunFails, hookVars
  <2>2. (\A s \in Callers : txn'[s] = txn[s]) /\ (AttemptBooked(hook) \/ attempts' = attempts)
    BY <1>1, <2>1, RunLeaves
  <2>3. AttemptBooked(hook) => Len(attempts') = Len(attempts) + 1
    BY <1>1, RecordAppends DEF AttemptBooked, WInv
  <2>. QED  BY <1>1, <2>1, <2>2, <2>3, OrdersUntouched
<1>3. CASE LookUp \/ Unmatched \/ NotApplied \/ RecordEvent \/ RecordConflicts \/ Event400
           \/ Acknowledge \/ RerunCut
  <2>1. UNCHANGED <<clientVars, orderOf, txn, attempts>>
    BY <1>3 DEF LookUp, Unmatched, NotApplied, RecordEvent, RecordConflicts, Event400,
       Acknowledge, RerunCut, vars, storeVars, hookVars
  <2>. QED  BY <1>1, <2>1, OrdersUntouched
<1>4. CASE Apply \/ FlushEvent \/ CommitEvent \/ EventConflicts \/ DeliveryFails
  <2>1. UNCHANGED <<clientVars, orderOf>> /\ \E t : txn' = [txn EXCEPT ![hook] = t]
    BY <1>4 DEF Apply, BeginOutcome, Open, FlushEvent, FlushOutcome, CommitEvent, CommitOutcome,
       EventConflicts, RejectDuplicatePlan, Close, DeliveryFails, hookVars
  <2>2. CommitOutcome(hook) \/ attempts' = attempts
    BY <1>4 DEF Apply, BeginOutcome, FlushEvent, FlushOutcome, CommitEvent, EventConflicts,
       RejectDuplicatePlan, DeliveryFails, store
  <2>3. Len(attempts') = Len(attempts)
    BY <1>1, <2>2, OutcomeReplaces DEF WInv
  <2>. QED  BY <1>1, <2>1, <2>3, OrdersUntouched
<1>. QED  BY <1>2, <1>3, <1>4 DEF HandlerStep

LEMMA OrderStep ==
  ASSUME WInv, OrderInv, [HNext]_allVars
  PROVE  OrderInv'
<1>1. CASE UNCHANGED allVars \/ \E e \in Event : Redeliver(e) \/ DeliverUnsigned(e)
  <2>1. UNCHANGED <<clientVars, orderOf, txn, attempts>>
    BY <1>1 DEF allVars, vars, storeVars, hookVars, Redeliver, DeliverUnsigned, Deliver, store
  <2>2. Len(attempts') \in {Len(attempts), Len(attempts) + 1}
    BY <2>1
  <2>. QED  BY <2>1, <2>2, OrdersUntouched DEF OrderInv, CallOK
<1>. QED  BY <1>1, OrdersOfClient, OrdersOfCaller, OrdersOfHandler DEF HNext

-----------------------------------------------------------------------------
(* The events *)

\* A step of something else, which may fail.
LEMMA EventsUntouched ==
  ASSUME WInv, EventInv, UNCHANGED <<handler, emitted, acked, rows, applied>>,
         failures' \in {failures, failures + 1}
  PROVE  EventInv'
<1>1. failures \in Nat /\ applied \in [Event -> Nat]
  BY DEF WInv, WTypeOK, EventInv, EventTypeOK
<1>2. AppliedInv'
  BY <1>1 DEF EventInv, AppliedInv, Covered
<1>. QED  BY <1>2 DEF EventInv, EventTypeOK, HandlerOK, NothingDropped, ProcessedMeansApplied

\* The handler goes on with nothing but what it holds.
LEMMA HandlerMoves ==
  ASSUME EventInv, handler' \in {Resting} \union Delivery,
         handler' # Resting => handler'.event \in emitted,
         UNCHANGED <<failures, emitted, acked, rows, applied>>,
         HandlerOK', \A e \in Event : Covered(e) => Covered(e)'
  PROVE  EventInv'
<1>1. AppliedInv'
  BY DEF EventInv, AppliedInv
<1>. QED  BY <1>1 DEF EventInv, EventTypeOK, NothingDropped, ProcessedMeansApplied

\* A delivery that is being handled, one step on.
LEMMA DeliveryGoesOn ==
  ASSUME EventInv, handler # Resting, NEW pc \in HandlerPc, NEW error \in BOOLEAN,
         NEW a \in 0..MaxAttempts,
         handler' = [handler EXCEPT !.pc = pc, !.error = error, !.attempt = a]
  PROVE  /\ handler \in Delivery /\ handler' \in Delivery
         /\ handler'.pc = pc /\ handler'.error = error /\ handler'.attempt = a
         /\ handler'.event = handler.event /\ handler'.valid = handler.valid
         /\ handler.event \in emitted /\ handler.event \in Event
<1>1. handler \in Delivery /\ handler.event \in emitted
  BY DEF EventInv, EventTypeOK
<1>. QED  BY <1>1 DEF Delivery

LEMMA ProceedGoesOn ==
  ASSUME EventInv, handler # Resting, NEW pc \in HandlerPc, Proceed(pc)
  PROVE  /\ handler \in Delivery /\ handler' \in Delivery /\ handler'.pc = pc
         /\ handler'.error = handler.error /\ handler'.attempt = handler.attempt
         /\ handler'.event = handler.event /\ handler'.valid = handler.valid
         /\ handler.event \in emitted /\ handler.event \in Event
<1>1. handler \in Delivery /\ handler.event \in emitted
  BY DEF EventInv, EventTypeOK
<1>. QED  BY <1>1 DEF Delivery, Proceed

LEMMA Handled ==
  ASSUME EventInv, handler.pc # "idle"
  PROVE  /\ handler # Resting /\ handler \in Delivery
         /\ handler.event \in emitted /\ handler.event \in Event
<1>1. handler # Resting
  BY DEF Resting
<1>. QED  BY <1>1 DEF EventInv, EventTypeOK

\* What a delivery that is recorded says of itself, if it is no success.
LEMMA RecordsError ==
  ASSUME EventInv, NEW error \in BOOLEAN, NEW a \in 0..MaxAttempts,
         handler.pc \in {"lookup", "match"}, ToRecord(error, a),
         error \/ handler.event.type = "payment.authorized",
         UNCHANGED <<failures, emitted, acked, rows, applied>>
  PROVE  EventInv'
<1>1. handler # Resting /\ "record" \in HandlerPc
  BY DEF Resting, HandlerPc
<1>2. /\ handler' \in Delivery /\ handler'.pc = "record" /\ handler'.error = error
      /\ handler'.event = handler.event /\ handler.event \in emitted
  BY <1>1, DeliveryGoesOn DEF ToRecord
<1>3. HandlerOK'
  BY <1>2 DEF HandlerOK
<1>4. \A e \in Event : Covered(e) => Covered(e)'
  BY <1>2 DEF Covered
<1>. QED  BY <1>2, <1>3, <1>4, HandlerMoves

\* The delivery ends, and nothing was committed that has no row.
LEMMA DeliveryEnds ==
  ASSUME EventInv, handler' = Resting, UNCHANGED <<failures, emitted, acked, rows, applied>>,
         handler.pc = "record" => rows[handler.event] # None
  PROVE  EventInv'
<1>1. HandlerOK'
  BY DEF HandlerOK, Resting
<1>2. \A e \in Event : Covered(e) => Covered(e)'
  BY DEF Covered
<1>. QED  BY <1>1, <1>2, HandlerMoves

LEMMA LookUpStep ==
  ASSUME EventInv, LookUp
  PROVE  EventInv'
<1>1. /\ handler.pc = "lookup" /\ UNCHANGED <<failures, emitted, acked, rows, applied>>
      /\ handler # Resting
  BY DEF LookUp, Handling, vars, Resting
<1>2. CASE ToRecord(TRUE, 0)
  <2>1. 0 \in 0..MaxAttempts
    BY StoreAssumption
  <2>. QED  BY <1>1, <1>2, <2>1, RecordsError
<1>3. CASE Proceed("respond") /\ Seen(handler.event)
  <2>1. /\ handler' \in Delivery /\ handler'.pc = "respond" /\ handler'.event = handler.event
        /\ handler.event \in emitted
    BY <1>1, <1>3, ProceedGoesOn DEF HandlerPc
  <2>2. HandlerOK'
    BY <1>1, <1>3, <2>1 DEF HandlerOK, Seen
  <2>. QED  BY <1>1, <2>1, <2>2, HandlerMoves DEF Covered
<1>4. CASE Proceed("match") /\ ~Seen(handler.event) /\ handler.event.order # NoOrder
  <2>1. /\ handler' \in Delivery /\ handler'.pc = "match" /\ handler'.event = handler.event
        /\ handler.event \in emitted
    BY <1>1, <1>4, ProceedGoesOn DEF HandlerPc
  <2>2. HandlerOK'
    BY <1>1, <1>4, <2>1 DEF HandlerOK, Seen
  <2>. QED  BY <1>1, <2>1, <2>2, HandlerMoves DEF Covered
<1>. QED  BY <1>2, <1>3, <1>4 DEF LookUp

LEMMA MatchSteps ==
  ASSUME WInv, EventInv, Unmatched \/ NotApplied \/ Apply
  PROVE  EventInv'
<1>0. handler.pc = "match" /\ UNCHANGED <<failures, emitted, acked, rows, applied>>
  BY DEF Unmatched, NotApplied, Apply, Handling, vars, runVars
<1>1. /\ handler.pc = "match" /\ UNCHANGED <<failures, emitted, acked, rows, applied>>
      /\ handler # Resting /\ rows[handler.event] = None
      /\ handler \in Delivery
  BY <1>0, Handled DEF EventInv, HandlerOK
<1>2. Matches \subseteq 0..MaxAttempts
  <2>1. DOMAIN attempts = 1..Len(attempts) /\ Len(attempts) \in Nat /\ Len(attempts) <= MaxAttempts
    BY LenProperties DEF WInv, IInv, TypeOK, AttemptsBounded
  <2>. QED  BY <2>1, StoreAssumption DEF Matches
<1>3. CASE Unmatched
  <2>1. ToRecord(TRUE, 0)
    BY <1>3 DEF Unmatched
  <2>2. 0 \in 0..MaxAttempts
    BY StoreAssumption
  <2>. QED  BY <1>0, <2>1, <2>2, RecordsError
<1>4. CASE NotApplied
  <2>1. PICK a \in Matches : ToRecord(OutcomeOf(handler.event.type) # None, a)
    BY <1>4 DEF NotApplied
  <2>2. handler.event.type \in EventTypes
    BY <1>1, WebhookAssumption DEF Delivery
  <2>3. OutcomeOf(handler.event.type) # None \/ handler.event.type = "payment.authorized"
    BY <2>2, NoneIsNoStatus DEF OutcomeOf, EventTypes, PaymentStatus
  <2>. QED  BY <1>1, <1>2, <2>1, <2>3, RecordsError
<1>5. CASE Apply
  <2>1. PICK a \in Matches : handler' = [handler EXCEPT !.pc = "apply", !.attempt = a]
    BY <1>5 DEF Apply
  <2>2. /\ handler' \in Delivery /\ handler'.pc = "apply" /\ handler'.event = handler.event
        /\ handler.event \in emitted
    BY <1>1, <1>2, <2>1 DEF Delivery, HandlerPc, EventInv, EventTypeOK
  <2>3. HandlerOK'
    BY <1>1, <2>2 DEF HandlerOK
  <2>. QED  BY <1>1, <2>2, <2>3, HandlerMoves DEF Covered
<1>. QED  BY <1>3, <1>4, <1>5

\* PaymentService commits: the event had no row, and its delivery goes on to record it.
LEMMA CommitEventStep ==
  ASSUME WInv, EventInv, CommitEvent
  PROVE  EventInv'
<1>. DEFINE e == handler.event
<1>0. /\ handler.pc = "apply" /\ UNCHANGED <<failures, emitted, acked, rows>>
      /\ applied' = [applied EXCEPT ![e] = @ + 1]
      /\ ToRecord(FALSE, handler.attempt)
  BY DEF CommitEvent, Handling
<1>1. /\ handler.pc = "apply" /\ UNCHANGED <<failures, emitted, acked, rows>>
      /\ applied' = [applied EXCEPT ![e] = @ + 1]
      /\ ToRecord(FALSE, handler.attempt)
      /\ handler # Resting /\ handler \in Delivery /\ rows[e] = None
      /\ applied \in [Event -> Nat] /\ failures \in Nat
  <2>1. handler # Resting /\ handler \in Delivery
    BY <1>0, Handled
  <2>2. applied \in [Event -> Nat] /\ failures \in Nat
    BY DEF EventInv, EventTypeOK, WInv, WTypeOK
  <2>3. rows[e] = None
    BY <1>0 DEF EventInv, HandlerOK
  <2>. QED  BY <1>0, <2>1, <2>2, <2>3
<1>2. handler.attempt \in 0..MaxAttempts /\ "record" \in HandlerPc
  BY <1>1 DEF Delivery, HandlerPc
<1>3. /\ handler' \in Delivery /\ handler'.pc = "record" /\ handler'.event = e
      /\ e \in emitted /\ e \in Event
  BY <1>1, <1>2, DeliveryGoesOn DEF ToRecord
<1>4. /\ applied' \in [Event -> Nat] /\ applied'[e] = applied[e] + 1
      /\ \A f \in Event : f # e => applied'[f] = applied[f]
  BY <1>1, <1>3
<1>5. ~Covered(e) /\ \A f \in Event : Covered(f) => Covered(f)'
  BY <1>1, <1>3 DEF Covered
<1>. HIDE DEF e
<1>6. AppliedInv'
  <2>. SUFFICES ASSUME NEW f \in Event
                PROVE  applied'[f] <= failures' + 1 /\ (~Covered(f)' => applied'[f] <= failures')
    BY DEF AppliedInv
  <2>1. /\ applied[f] \in Nat /\ failures' = failures /\ failures \in Nat
        /\ applied[f] <= failures + 1 /\ (~Covered(f) => applied[f] <= failures)
    BY <1>1 DEF EventInv, AppliedInv
  <2>2. CASE f = e
    <3>1. applied[e] \in Nat /\ applied[e] <= failures
      BY <1>3, <1>5, <2>1, <2>2
    <3>2. applied'[f] <= failures' + 1
      BY <1>4, <2>1, <2>2, <3>1
    <3>3. Covered(f)'
      BY <1>3, <2>2 DEF Covered
    <3>. QED  BY <3>2, <3>3
  <2>3. CASE f # e
    BY <1>4, <1>5, <2>1, <2>3
  <2>. QED  BY <2>2, <2>3
<1>7. HandlerOK'
  BY <1>1, <1>3, <1>4 DEF HandlerOK
<1>8. ProcessedMeansApplied'
  BY <1>1, <1>3, <1>4 DEF EventInv, ProcessedMeansApplied
<1>9. EventTypeOK' /\ NothingDropped'
  BY <1>1, <1>3, <1>4 DEF EventInv, EventTypeOK, NothingDropped
<1>. QED  BY <1>6, <1>7, <1>8, <1>9 DEF EventInv

\* The row is as the delivery found the event: processed only if it was applied.
LEMMA RecordEventStep ==
  ASSUME EventInv, RecordEvent
  PROVE  EventInv'
<1>. DEFINE e == handler.event
            row == [valid |-> handler.valid, error |-> handler.error, attempt |-> handler.attempt]
<1>1. /\ handler.pc = "record" /\ UNCHANGED <<failures, emitted, acked, applied>>
      /\ rows[e] = None /\ rows' = [rows EXCEPT ![e] = row]
      /\ Proceed("respond") /\ handler # Resting /\ handler \in Delivery
      /\ rows \in [Event -> Row \union {None}]
  BY DEF RecordEvent, Handling, Resting, vars, EventInv, EventTypeOK
<1>2. row \in Row /\ row # None /\ row.error = handler.error
  BY <1>1, NoneIsNoEventRow DEF Row, Delivery
<1>3. /\ handler' \in Delivery /\ handler'.pc = "respond" /\ handler'.event = e
      /\ e \in emitted /\ e \in Event
  BY <1>1, ProceedGoesOn DEF HandlerPc
<1>. HIDE DEF row
<1>4. /\ rows' \in [Event -> Row \union {None}] /\ rows'[e] = row
      /\ \A f \in Event : f # e => rows'[f] = rows[f]
  BY <1>1, <1>2, <1>3
<1>5. \A f \in Event : Covered(f) => Covered(f)'
  BY <1>1, <1>2, <1>4 DEF Covered
<1>6. ~handler.error /\ e.type # "payment.authorized" => applied[e] > 0
  BY <1>1 DEF EventInv, HandlerOK
<1>7. e \notin acked
  BY <1>1 DEF EventInv, NothingDropped
<1>. HIDE DEF e
<1>8. AppliedInv'
  BY <1>1, <1>5 DEF EventInv, AppliedInv
<1>9. HandlerOK'
  BY <1>2, <1>3, <1>4 DEF HandlerOK
<1>10. ProcessedMeansApplied'
  BY <1>1, <1>2, <1>4, <1>6 DEF EventInv, ProcessedMeansApplied
<1>11. NothingDropped'
  <2>1. acked \subseteq Event
    BY DEF EventInv, EventTypeOK
  <2>. QED  BY <1>1, <1>4, <1>7, <2>1 DEF EventInv, NothingDropped
<1>12. EventTypeOK'
  BY <1>1, <1>3, <1>4 DEF EventInv, EventTypeOK
<1>. QED  BY <1>8, <1>9, <1>10, <1>11, <1>12 DEF EventInv

LEMMA AnswerSteps ==
  ASSUME WInv, EventInv, Rerun \/ Acknowledge
  PROVE  EventInv'
<1>. DEFINE e == handler.event
<1>1. /\ handler.pc \in {"respond", "rerun"} /\ rows[e] # None /\ rows[e].valid
      /\ handler # Resting /\ handler \in Delivery /\ e \in emitted /\ e \in Event
      /\ UNCHANGED <<failures, emitted, rows, applied>>
  BY DEF Rerun, Acknowledge, Handling, Accepted, Resting, EventInv, EventTypeOK, HandlerOK,
     vars, Start, PickDueRetry, RunWorkflow, Picked
<1>2. CASE Rerun
  <2>1. /\ handler' \in Delivery /\ handler'.pc = "rerun" /\ handler'.event = e
        /\ acked' = acked
    BY <1>1, <1>2, ProceedGoesOn DEF Rerun, HandlerPc
  <2>2. HandlerOK'
    BY <1>1, <2>1 DEF HandlerOK
  <2>. QED  BY <1>1, <2>1, <2>2, HandlerMoves DEF Covered
<1>3. CASE Acknowledge
  <2>1. acked' = acked \union {e} /\ handler' = Resting
    BY <1>3 DEF Acknowledge
  <2>2. AppliedInv'
    BY <1>1, <2>1 DEF EventInv, AppliedInv, Covered, Resting
  <2>3. HandlerOK'
    BY <2>1 DEF HandlerOK, Resting
  <2>4. NothingDropped'
    BY <1>1, <2>1 DEF EventInv, NothingDropped
  <2>. QED  BY <1>1, <2>1, <2>2, <2>3, <2>4 DEF EventInv, EventTypeOK, ProcessedMeansApplied
<1>. QED  BY <1>2, <1>3

\* A delivery that dies takes at most one commit with it, and counts as a failure.
LEMMA DeliveryFailsStep ==
  ASSUME WInv, EventInv, DeliveryFails
  PROVE  EventInv'
<1>1. /\ handler' = Resting /\ UNCHANGED <<emitted, acked, rows, applied>>
      /\ failures' = failures + 1 /\ failures \in Nat /\ applied \in [Event -> Nat]
  BY DEF DeliveryFails, Mishap, WInv, WTypeOK, EventInv, EventTypeOK
<1>2. AppliedInv'
  BY <1>1 DEF EventInv, AppliedInv
<1>3. HandlerOK'
  BY <1>1 DEF HandlerOK, Resting
<1>. QED  BY <1>1, <1>2, <1>3 DEF EventInv, EventTypeOK, NothingDropped, ProcessedMeansApplied

LEMMA DeliverStep ==
  ASSUME WInv, EventInv, NEW e \in Event, Redeliver(e) \/ DeliverUnsigned(e)
  PROVE  EventInv'
<1>1. PICK valid \in BOOLEAN :
        handler' = [pc |-> "lookup", event |-> e, valid |-> valid, error |-> FALSE, attempt |-> 0]
  BY DEF Redeliver, DeliverUnsigned, Deliver
<1>2. /\ handler.pc = "idle" /\ emitted' = emitted \union {e} /\ UNCHANGED <<acked, rows, applied>>
      /\ failures' \in {failures, failures + 1} /\ failures \in Nat /\ applied \in [Event -> Nat]
  BY DEF Redeliver, DeliverUnsigned, Deliver, Mishap, Handling, WInv, WTypeOK, EventInv, EventTypeOK
<1>3. handler' \in Delivery /\ handler'.pc = "lookup" /\ handler'.event = e
  BY <1>1, StoreAssumption DEF Delivery, HandlerPc
<1>4. AppliedInv'
  BY <1>2, <1>3 DEF EventInv, AppliedInv, Covered
<1>5. HandlerOK'
  BY <1>3 DEF HandlerOK
<1>6. EventTypeOK'
  BY <1>2, <1>3 DEF EventInv, EventTypeOK
<1>. QED  BY <1>2, <1>4, <1>5, <1>6 DEF EventInv, NothingDropped, ProcessedMeansApplied

LEMMA EventStep ==
  ASSUME WInv, EventInv, [HNext]_allVars
  PROVE  EventInv'
<1>1. ASSUME NEW s \in Clients, Record(s) \/ RecordStep(s) \/ RecordFails(s)
      PROVE  EventInv'
  <2>1. UNCHANGED <<handler, emitted, acked, rows, applied>>
    BY <1>1 DEF Record, RecordStep, RequestOrder, GatewayStep, LinkOrder, RecordCommitted,
       RecordRejected, RecordBroken, RecordFails, AbandonRecord, hookVars
  <2>2. failures' \in {failures, failures + 1}
    BY <1>1 DEF Record, RecordStep, RequestOrder, GatewayStep, LinkOrder, RecordCommitted,
       RecordRejected, RecordBroken, RecordFails, Mishap, vars, runVars
  <2>. QED  BY <2>1, <2>2, EventsUntouched
<1>2. ASSUME NEW s \in Callers, OtherCaller(s)
      PROVE  EventInv'
  BY <1>2, EventsUntouched DEF OtherCaller, CallerStep, hookVars
<1>3. CASE FlushEvent \/ RerunCut \/ RerunFails \/ UNCHANGED allVars
  BY <1>3, EventsUntouched DEF FlushEvent, RerunCut, RerunFails, RunFails, runVars, hookVars,
     allVars, vars
<1>4. CASE RerunStep
  <2>1. UNCHANGED <<handler, emitted, acked, rows, applied>> /\ RunStep(hook)
    BY <1>4 DEF RerunStep, hookVars
  <2>2. failures' = failures
    BY <2>1 DEF RunStep, ReadPlan, ReadContext, CheckEscalations, CreateEscalation,
       ActWithoutPlan, ClosePlan, BookAttempt, BookingRefused, AttemptBooked, BookingLost,
       AdvancePlan, AdvanceRefused, PlanUpdated
  <2>. QED  BY <2>1, <2>2, EventsUntouched
<1>5. CASE EventConflicts \/ RecordConflicts \/ Event400
  <2>1. /\ handler' = Resting /\ UNCHANGED <<failures, emitted, acked, rows, applied>>
        /\ handler.pc = "record" => rows[handler.event] # None
    BY <1>5 DEF EventConflicts, RecordConflicts, Event400, Handling, vars, runVars
  <2>. QED  BY <2>1, DeliveryEnds
<1>. QED  BY <1>1, <1>2, <1>3, <1>4, <1>5, LookUpStep, MatchSteps, CommitEventStep,
             RecordEventStep, AnswerSteps, DeliveryFailsStep, DeliverStep DEF HNext, HandlerStep

-----------------------------------------------------------------------------
(* The theorems *)

LEMMA HInvInit == HInit => HInv
<1>. SUFFICES ASSUME HInit PROVE HInv
  OBVIOUS
<1>1. WInv
  BY WInvInit DEF HInit
<1>2. NoCall \in CallRecord /\ NoCall.order = NoOrder /\ NoCall.pc = "idle"
  BY ClientAssumption DEF NoCall, CallRecord, NoOrder
<1>3. /\ call = [s \in Clients |-> NoCall] /\ orders = 0 /\ orphans = 0
      /\ orderOf = [n \in 1..MaxAttempts |-> NoOrder]
  BY DEF HInit, ClientInit
<1>4. KnownOrders \subseteq {0}
  BY <1>2, <1>3 DEF KnownOrders, NoOrder
<1>5. Cardinality(Lost) = 0
  <2>1. Lost = {}
    BY <1>3 DEF Lost
  <2>. QED  BY <2>1, FS_EmptySet
<1>6. OrderInv
  <2>1. ClientTypeOK
    BY <1>2, <1>3, ClientAssumption DEF ClientTypeOK, CallRecord
  <2>2. orderOf \in [1..MaxAttempts -> 0..MaxOrders]
    BY <1>3, ClientAssumption DEF NoOrder
  <2>. QED  BY <1>2, <1>3, <1>4, <1>5, <2>1, <2>2 DEF OrderInv, CallOK
<1>7. EventInv
  <2>1. failures = 0
    BY DEF HInit, WInit
  <2>. QED  BY <2>1 DEF HInit, EventInv, EventTypeOK, HandlerOK, NothingDropped,
            ProcessedMeansApplied, AppliedInv, Resting
<1>. QED  BY <1>1, <1>6, <1>7 DEF HInv

THEOREM HookInvariant == HSpec => []HInv
<1>1. HInv /\ [HNext]_allVars => HInv'
  BY RowsStep, OrderStep, EventStep DEF HInv
<1>. QED  BY <1>1, HInvInit, PTL DEF HSpec

\* Every variable keeps its type; a call makes MAX_RETRIES + 1 tries at most, and no more
\* events are acknowledged than the gateway has emitted.
THEOREM HookTypes == HSpec => []HTypeOK
<1>1. HInv => HTypeOK
  BY DEF HInv, WInv, OrderInv, EventInv, EventTypeOK, HTypeOK, Resting, Delivery, HandlerPc
<1>. QED  BY <1>1, HookInvariant, PTL

\* What holds of the rows under runs and callers holds with webhooks beside them.
THEOREM HookKeepsRows == HSpec => [](CountWithinMax /\ NumbersGapless /\ FailureHasPlan)
<1>1. HInv => CountWithinMax /\ NumbersGapless /\ FailureHasPlan
  BY DEF HInv, WInv, IInv
<1>. QED  BY <1>1, HookInvariant, PTL

\* "so no incoming event is ever silently dropped": an acknowledged event has a row, and
\* its signature was good.
THEOREM HookDropsNothing == HSpec => []NothingDropped
<1>1. HInv => NothingDropped
  BY DEF HInv, EventInv
<1>. QED  BY <1>1, HookInvariant, PTL

\* A row without an error stands for an outcome that was committed.
THEOREM HookApplies == HSpec => []ProcessedMeansApplied
<1>1. HInv => ProcessedMeansApplied
  BY DEF HInv, EventInv
<1>. QED  BY <1>1, HookInvariant, PTL

\* "a repeat delivery is a no-op", but for the deliveries that died between the two commits.
THEOREM HookAppliesOnce == HSpec => []AppliedOnce
<1>1. HInv => AppliedOnce
  <2>. SUFFICES ASSUME HInv, NEW e \in Event PROVE applied[e] <= 1 + failures
    BY DEF AppliedOnce
  <2>1. applied[e] <= failures + 1 /\ failures \in Nat
    BY DEF HInv, EventInv, AppliedInv, WInv, WTypeOK
  <2>. QED  BY <2>1
<1>. QED  BY <1>1, HookInvariant, PTL

\* create_order may be retried and answers may be lost, yet every order is an attempt's, a
\* call's, or counted as an orphan: none is made for an attempt that has one.
THEOREM HookKnowsOrders == HSpec => []OrphansExplained
<1>1. HInv => OrphansExplained
  <2>. SUFFICES ASSUME HInv PROVE OrphansExplained
    OBVIOUS
  <2>1. Cardinality(Lost) = orphans /\ orphans \in Nat
    BY CallsWellTyped DEF HInv
  <2>. QED  BY <2>1 DEF OrphansExplained, Lost
<1>. QED  BY <1>1, HookInvariant, PTL

=============================================================================
