--------------------------- MODULE WebhookIngestion ---------------------------
(***************************************************************************)
(* Gateway orders and webhooks, on top of the store and the workflow: a    *)
(* request thread records attempts that have an order, and the webhook     *)
(* route turns the gateway's deliveries into outcomes and workflow runs.   *)
(*                                                                         *)
(* A delivery is looked up by its dedupe key, matched to an attempt,       *)
(* applied by PaymentService (which commits), recorded (a second commit),  *)
(* answered by a workflow run, and acknowledged.  The route is a coroutine *)
(* that awaits nothing after the body, in a single process: one delivery   *)
(* is handled at a time, while request threads and jobs run beside it.     *)
(*                                                                         *)
(* The gateway delivers an event any number of times, until it has been    *)
(* acknowledged and after that, in any order.                              *)
(***************************************************************************)
EXTENDS RecoveryWorkflow, RazorpayClient

CONSTANTS
  hook,         \* the session of the webhook handler, the only rerunner here
  Event,        \* the events there may be
  MaxEvents     \* bound: distinct events the gateway emits

VARIABLES
  orderOf,   \* payment_attempts.razorpay_order_id, by attempt number
  emitted,   \* events the gateway has begun to deliver
  acked,     \* events it got a 2xx for
  handler,   \* the delivery being handled
  rows,      \* webhook_events, by dedupe key
  applied    \* history: how often an event's outcome was committed

hookVars == <<orderOf, emitted, acked, handler, rows, applied>>
allVars == <<vars, clientVars, hookVars>>

EventTypes == {"payment.captured", "order.paid", "payment.failed", "payment.authorized"}

\* An event of an order is about one payment of it or about the order itself, so
\* type and order stand for its dedupe key; order NoOrder: an envelope without an
\* entity id, whose key is (type, "unknown").
ASSUME WebhookAssumption ==
  /\ Reruns = {hook} /\ Clients \subseteq Callers
  /\ Event \subseteq [type: EventTypes, order: 0..MaxOrders]
  /\ MaxEvents \in Nat

Row == [valid: BOOLEAN, error: BOOLEAN, attempt: 0..MaxAttempts]

ASSUME NoneIsNoEventRow == None \notin Row

Resting == [pc |-> "idle"]

HInit ==
  /\ WInit
  /\ ClientInit
  /\ orderOf = [n \in 1..MaxAttempts |-> NoOrder]
  /\ emitted = {} /\ acked = {}
  /\ handler = Resting
  /\ rows = [e \in Event |-> None]
  /\ applied = [e \in Event |-> 0]

runVars == <<run, escalations, spent, failures>>

\* Everything that may go wrong counts against one bound.
Mishap == failures < MaxFailures /\ failures' = failures + 1

-----------------------------------------------------------------------------
(* record_payment_attempt in a request thread, with a gateway client *)

Record(s) ==
  /\ Calling(s, "idle")
  /\ BeginRecord(s, FALSE)
  /\ UNCHANGED <<runVars, clientVars, hookVars>>

\* An INSERT waits for a session that has flushed the same attempt number.
NumberLocked(n) == \E t \in Clients : ~Calling(t, "idle") /\ txn[t].number = n

\* The INSERT is flushed before the gateway is asked, and fails on a taken number.
RequestOrder(s) ==
  /\ txn[s].op = "record"
  /\ NumberFree(txn[s].number) /\ ~NumberLocked(txn[s].number)
  /\ Ask(s)
  /\ UNCHANGED <<vars, hookVars>>

GatewayStep(s) == GatewayAnswers(s) /\ UNCHANGED <<vars, hookVars>>

\* Mutant: the order's id is not written to the attempt.
LinkNothing(s) ==
  /\ Calling(s, "created")
  /\ Hangup(s)
  /\ txn' = txn
  /\ UNCHANGED <<store, runVars, orders, orphans, hookVars>>

\* update(attempt.id, razorpay_order_id=...), still in the same transaction.
LinkOrder(s) ==
  /\ Calling(s, "created")
  /\ ~txn[s].order
  /\ txn' = [txn EXCEPT ![s].order = TRUE]
  /\ UNCHANGED <<store, runVars, clientVars, hookVars>>

\* A RazorpayError leaves an attempt without an order.
OrderSettled(s) == Calling(s, "failed") \/ (Calling(s, "created") /\ txn[s].order)

RecordCommitted(s) ==
  /\ OrderSettled(s)
  /\ CommitRecord(s)
  /\ Hangup(s)
  /\ orderOf' = [orderOf EXCEPT ![txn[s].number] = call[s].order]
  /\ UNCHANGED <<runVars, orders, orphans, emitted, acked, handler, rows, applied>>

RecordRejected(s) ==
  /\ Calling(s, "idle")
  /\ RejectDuplicateAttempt(s)
  /\ UNCHANGED <<runVars, clientVars, hookVars>>

\* The transaction is undone, and the order it had asked for is nobody's.
AbandonRecord(s) ==
  /\ txn[s].op = "record" /\ Rollback(s)
  /\ Hangup(s)
  /\ orphans' = IF call[s].order # NoOrder THEN orphans + 1 ELSE orphans
  /\ UNCHANGED <<run, escalations, spent, orders, hookVars>>

RecordBroken(s) ==
  /\ Calling(s, "broken")
  /\ AbandonRecord(s)
  /\ UNCHANGED failures

RecordFails(s) ==
  /\ Mishap
  /\ AbandonRecord(s)

RecordStep(s) ==
  RequestOrder(s) \/ GatewayStep(s) \/ LinkOrder(s)
  \/ RecordCommitted(s) \/ RecordRejected(s) \/ RecordBroken(s)

\* Other callers, settlement among them, report outcomes.
OtherCaller(s) ==
  /\ txn[s].op # "record"
  /\ CallerStep(s)
  /\ txn'[s].op # "record"
  /\ UNCHANGED <<clientVars, hookVars>>

-----------------------------------------------------------------------------
(* One delivery *)

Handling(pc) == handler.pc = pc
Proceed(pc) == handler' = [handler EXCEPT !.pc = pc]

\* The row `record` will insert for the delivery being handled.
ToRecord(error, a) ==
  handler' = [handler EXCEPT !.pc = "record", !.error = error, !.attempt = a]

\* The customer pays, or fails to; or the gateway sends an envelope nobody expects.
Deliver(e, valid) ==
  /\ Handling("idle")
  /\ e.order <= orders
  /\ e \in emitted \/ Cardinality(emitted) < MaxEvents
  /\ emitted' = emitted \union {e}
  /\ handler' = [pc |-> "lookup", event |-> e, valid |-> valid, error |-> FALSE, attempt |-> 0]
  /\ UNCHANGED <<store, txn, run, escalations, spent, clientVars, orderOf, acked, rows, applied>>

Redeliver(e) == Deliver(e, TRUE) /\ UNCHANGED failures

\* verify_webhook_signature says no: a garbled body, a rotated or missing secret.
DeliverUnsigned(e) == Deliver(e, FALSE) /\ Mishap

Seen(e) == e.order # NoOrder /\ rows[e] # None

\* Mutant: redeliveries are not recognised.
LookUpNothing ==
  /\ Handling("lookup")
  /\ IF handler.valid /\ handler.event.order # NoOrder THEN Proceed("match") ELSE ToRecord(TRUE, 0)
  /\ UNCHANGED <<vars, clientVars, orderOf, emitted, acked, rows, applied>>

\* get_by_dedupe_key, then the two checks that need no attempt.
LookUp ==
  /\ Handling("lookup")
  /\ IF Seen(handler.event) THEN Proceed("respond")
     ELSE IF handler.valid /\ handler.event.order # NoOrder THEN Proceed("match")
     ELSE ToRecord(TRUE, 0)
  /\ UNCHANGED <<vars, clientVars, orderOf, emitted, acked, rows, applied>>

Matches == {i \in DOMAIN attempts : orderOf[attempts[i].number] = handler.event.order}

Unmatched ==
  /\ Handling("match")
  /\ Matches = {}
  /\ ToRecord(TRUE, 0)
  /\ UNCHANGED <<vars, clientVars, orderOf, emitted, acked, rows, applied>>

\* Mutant: order.paid is no success event.
OutcomeOfPayments(type) ==
  CASE type = "payment.captured" -> "succeeded"
    [] type = "payment.failed"   -> "failed"
    [] OTHER                     -> None

OutcomeOf(type) ==
  CASE type \in {"payment.captured", "order.paid"} -> "succeeded"
    [] type = "payment.failed"                     -> "failed"
    [] OTHER                                       -> None

NothingToApply(type, row) == OutcomeOf(type) = None \/ ~OutcomeAllowed(row, OutcomeOf(type))

\* _apply_event finds nothing to do for the type, or the attempt already succeeded
\* (InvalidStateError: the one failure that is recorded with the event).
NotApplied ==
  /\ Handling("match")
  /\ \E a \in Matches :
       /\ NothingToApply(handler.event.type, attempts[a])
       /\ ToRecord(OutcomeOf(handler.event.type) # None, a)
  /\ UNCHANGED <<vars, clientVars, orderOf, emitted, acked, rows, applied>>

\* No decline category and no next_retry_at come with an event.
Apply ==
  /\ Handling("match")
  /\ \E a \in Matches :
       /\ OutcomeOf(handler.event.type) # None
       /\ BeginOutcome(hook, a, OutcomeOf(handler.event.type), NoDecline, "later")
       /\ handler' = [handler EXCEPT !.pc = "apply", !.attempt = a]
  /\ UNCHANGED <<runVars, clientVars, orderOf, emitted, acked, rows, applied>>

FlushEvent ==
  /\ Handling("apply")
  /\ FlushOutcome(hook)
  /\ UNCHANGED <<runVars, clientVars, hookVars>>

\* PaymentService commits on its own, ahead of the event's row.
CommitEvent ==
  /\ Handling("apply")
  /\ CommitOutcome(hook)
  /\ ToRecord(FALSE, handler.attempt)
  /\ applied' = [applied EXCEPT ![handler.event] = @ + 1]
  /\ spent' = IF Restarts(txn[hook]) THEN 0 ELSE spent
  /\ UNCHANGED <<run, escalations, failures, clientVars, orderOf, emitted, acked, rows>>

\* The first schedule was created by someone else meanwhile: 500, nothing recorded.
EventConflicts ==
  /\ Handling("apply")
  /\ RejectDuplicatePlan(hook)
  /\ handler' = Resting
  /\ UNCHANGED <<runVars, clientVars, orderOf, emitted, acked, rows, applied>>

RecordEvent ==
  /\ Handling("record")
  /\ rows[handler.event] = None
  /\ rows' = [rows EXCEPT ![handler.event] =
                [valid |-> handler.valid, error |-> handler.error, attempt |-> handler.attempt]]
  /\ Proceed("respond")
  /\ UNCHANGED <<vars, clientVars, orderOf, emitted, acked, applied>>

\* uq_webhook_event_dedupe: a second envelope without entity id of this type.
RecordConflicts ==
  /\ Handling("record")
  /\ rows[handler.event] # None
  /\ handler' = Resting
  /\ UNCHANGED <<vars, clientVars, orderOf, emitted, acked, rows, applied>>

\* Mutant: the row's signature does not matter.
AcceptAny(row) == TRUE

Accepted(row) == row.valid

Event400 ==
  /\ Handling("respond")
  /\ ~Accepted(rows[handler.event])
  /\ handler' = Resting
  /\ UNCHANGED <<vars, clientVars, orderOf, emitted, acked, rows, applied>>

ToRerun(row) == row.attempt # 0 /\ ~row.error

\* Start bounds the runs: none begins once MaxAttempts attempts are recorded.
Rerun ==
  /\ Handling("respond")
  /\ Accepted(rows[handler.event]) /\ ToRerun(rows[handler.event])
  /\ Start(hook)
  /\ Proceed("rerun")
  /\ UNCHANGED <<clientVars, orderOf, emitted, acked, rows, applied>>

RerunStep ==
  /\ Handling("rerun")
  /\ At(hook, "booking") => ~NumberLocked(txn[hook].number)
  /\ RunStep(hook)
  /\ UNCHANGED <<clientVars, hookVars>>

\* The bound on attempts ends a run that would book one more.
RerunCut ==
  /\ Handling("rerun")
  /\ At(hook, "act") /\ IsRetryAllowed(run[hook].ctx)
  /\ mandate = "active" /\ LatestNumber = MaxAttempts
  /\ EndRun(hook)
  /\ UNCHANGED <<storeVars, escalations, spent, failures, clientVars, hookVars>>

\* The run's failure is logged and swallowed.
RerunFails ==
  /\ Handling("rerun")
  /\ RunFails(hook)
  /\ UNCHANGED <<clientVars, hookVars>>

\* Mutant: an event that could not be processed is refused.
NothingLeftToDo(row) == ~row.error /\ (ToRerun(row) => LatestNumber = MaxAttempts)

\* The row needs no run (or the bound forbids one).
NeedsNoRun(row) == ToRerun(row) => LatestNumber = MaxAttempts

Acknowledge ==
  /\ \/ /\ Handling("respond")
        /\ Accepted(rows[handler.event]) /\ NeedsNoRun(rows[handler.event])
     \/ Handling("rerun") /\ At(hook, "idle")
  /\ acked' = acked \union {handler.event}
  /\ handler' = Resting
  /\ UNCHANGED <<vars, clientVars, orderOf, emitted, rows, applied>>

\* A database error (500) or the process dying ends the delivery where it is.
DeliveryFails ==
  /\ handler # Resting /\ At(hook, "idle")
  /\ Mishap
  /\ txn' = [txn EXCEPT ![hook] = Idle]
  /\ handler' = Resting
  /\ UNCHANGED <<store, run, escalations, spent, clientVars, orderOf, emitted, acked, rows, applied>>

HandlerStep ==
  \/ LookUp \/ Unmatched \/ NotApplied \/ Apply \/ FlushEvent \/ CommitEvent \/ EventConflicts
  \/ RecordEvent \/ RecordConflicts \/ Event400
  \/ Rerun \/ RerunStep \/ RerunCut \/ Acknowledge

HNext ==
  \/ \E s \in Clients : Record(s) \/ RecordStep(s) \/ RecordFails(s)
  \/ \E s \in Callers : OtherCaller(s)
  \/ \E e \in Event : Redeliver(e) \/ DeliverUnsigned(e)
  \/ HandlerStep \/ RerunFails \/ DeliveryFails

\* Requests end (httpx has a timeout), handlers run on, and the gateway delivers an
\* event again and again until it is acknowledged.
HFairness ==
  /\ \A s \in Clients : WF_allVars(RecordStep(s))
  /\ WF_allVars(HandlerStep)
  /\ \A s \in Callers : WF_allVars(txn[s] # Idle /\ OtherCaller(s))
  /\ \A e \in Event : e.order # NoOrder => SF_allVars(e \in emitted \ acked /\ Redeliver(e))

HSpec == HInit /\ [][HNext]_allVars
FairHSpec == HSpec /\ HFairness

-----------------------------------------------------------------------------

\* Every variable holds a value of its kind.
HTypeOK ==
  /\ WTypeOK
  /\ ClientTypeOK
  /\ orderOf \in [1..MaxAttempts -> 0..MaxOrders]
  /\ emitted \subseteq Event /\ acked \subseteq emitted
  /\ handler.pc \in {"idle", "lookup", "match", "apply", "record", "respond", "rerun"}
  /\ rows \in [Event -> Row \union {None}]
  /\ applied \in [Event -> Nat]

\* "so no incoming event is ever silently dropped": what the gateway was told has
\* been received is in the table, and as an event whose signature was good.
NothingDropped == \A e \in acked : rows[e] # None /\ rows[e].valid

\* A row that reports no error stands for an event whose outcome was committed,
\* whatever failed, crashed or was delivered again on the way.
ProcessedMeansApplied ==
  \A e \in Event :
    rows[e] # None /\ ~rows[e].error /\ e.type # "payment.authorized" => applied[e] > 0

\* "a repeat delivery is a no-op": an event's outcome is committed once, and once more
\* only for a delivery that died between that commit and the event's row.
AppliedOnce == \A e \in Event : applied[e] <= 1 + failures

KnownOrders == {orderOf[n] : n \in 1..MaxAttempts} \union {call[s].order : s \in Clients}

\* Every order the gateway holds is an attempt's, unless its id was lost with an answer
\* or with a transaction: create_order is retried, and never for an order we know.
OrphansExplained == Cardinality((1..orders) \ KnownOrders) <= orphans

\* "Best-effort real Razorpay order creation": whatever the gateway answers, and however
\* often it does not, recording an attempt comes to an end.
RecordingEnds == \A s \in Clients : txn[s].op = "record" ~> txn[s].op # "record"

\* An event that names its entity is acknowledged in the end, although deliveries fail,
\* run into other sessions, or find nothing to apply -- unless its key was taken by a
\* delivery whose signature did not verify.
EventsAnswered ==
  \A e \in Event :
    e \in emitted /\ e.order # NoOrder ~> e \in acked \/ (rows[e] # None /\ ~rows[e].valid)
=============================================================================
