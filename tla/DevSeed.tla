------------------------------- MODULE DevSeed -------------------------------
(***************************************************************************)
(* The development environment: the retry job beside the settlement job,   *)
(* which resolves attempts in the gateway's place, and the endpoints that  *)
(* create demonstration mandates and delete them again.                    *)
(*                                                                         *)
(* A demonstration mandate is made by one of six scenarios, a sequence of  *)
(* service calls that each commit: both jobs see it half made.             *)
(***************************************************************************)
EXTENDS RetryBatch

CONSTANTS
  Demo,             \* the demonstration mandate; every other one is there from the start
  SoftDeclines,     \* the SOFT_DECLINE_CATEGORIES that are drawn
  HardDeclines,     \* the HARD_DECLINE_CATEGORIES that are drawn
  Scenarios,        \* the scenarios that are played
  SeedMaxRetries    \* the max_retries the scenarios write

VARIABLES
  settling,   \* the settlement batch: attempts listed and not reached yet, the one whose
              \* turn it is, and the copy of its row in the session
  seed        \* the scenario being played: what is left of it, its latest attempt, and
              \* the copy of that row it is about to report an outcome on

devVars == <<batchVars, settling, seed>>

SOFT_DECLINE_CATEGORIES ==
  {"insufficient_funds", "bank_unavailable", "technical_error", "limit_exceeded"}

HARD_DECLINE_CATEGORIES == {"mandate_inactive", "account_closed", "authentication_required"}

\* A mandate whose first collection failed, long enough ago.
Overdue ==
  [NewBook EXCEPT !.attempts = <<[status |-> "failed", category |-> "insufficient_funds"]>>,
                  !.plan = [Pursued(None) EXCEPT !.time = "due"]]

NoSettlement == [todo |-> {}, of |-> None, seen |-> None]

DevInit ==
  /\ BatchInit
  /\ book = [m \in Mandates |-> IF m = Demo THEN None ELSE Overdue]
  /\ schema \in IF \E m \in Mandates : Exists(m) THEN {AtHead} ELSE Databases
  /\ settling = NoSettlement
  /\ seed = [pc |-> "unused", script |-> <<>>, attempt |-> 0, seen |-> None]

-----------------------------------------------------------------------------
(* settle_pending_payments.  Each outcome is decided on a copy of the row,  *)
(* and committed in a later step.                                           *)

\* Mutant: attempts being processed are not listed.
UnresolvedIfPending(a) == a.status = "pending"

StillUnresolved(a) == a.status \in Unresolved

UnresolvedOf(m) == {i \in DOMAIN book[m].attempts : StillUnresolved(book[m].attempts[i])}

Listed == UNION {{m} \X UnresolvedOf(m) : m \in {x \in Mandates : Exists(x)}}

RowOf(x) == book[x[1]].attempts[x[2]]

\* The first attempt is taken as the listing loaded it; the commit or rollback that ends
\* its turn expires the copies of the others.
SettlementTick ==
  /\ process = "up" /\ settling = NoSettlement
  /\ \E x \in Listed :
       settling' = [todo |-> Listed \ {x}, of |-> x, seen |-> RowOf(x)]
  /\ UNCHANGED <<batchVars, seed>>

\* attempt.id reads the expired row again.
TakeAttempt ==
  /\ settling.of = None
  /\ \E x \in settling.todo :
       /\ Exists(x[1])
       /\ settling' = [todo |-> settling.todo \ {x}, of |-> x, seen |-> RowOf(x)]
  /\ UNCHANGED <<batchVars, seed>>

TurnOver == settling' = [settling EXCEPT !.of = None, !.seen = None]

\* What the draw may make of the rows b of the attempt's mandate.
SettledAs(b, i, seen) ==
  {Paid(b, i, seen)}
    \union {Declined(b, i, seen, c) : c \in {s \in SoftDeclines : MayFail(seen)}}

Settle ==
  /\ settling.of # None
  /\ LET m == settling.of[1]
     IN /\ Exists(m)
        /\ \E after \in SettledAs(book[m], settling.of[2], settling.seen) :
             book' = [book EXCEPT ![m] = after]
  /\ TurnOver
  /\ UNCHANGED <<ask, server, job, failures, seed>> /\ RowsUnchanged

\* A decline of an attempt read as paid, or a database error: logged, next one.
NotSettled ==
  /\ settling.of # None /\ Exists(settling.of[1])
  /\ \/ ~MayFail(settling.seen) /\ UNCHANGED failures
     \/ Mishap
  /\ TurnOver
  /\ UNCHANGED <<ask, book, server, job, seed>> /\ RowsUnchanged

\* The attempts that may be the next to be reached for.
UpNext == IF settling.of = None THEN settling.todo ELSE {settling.of}

\* The handler logs attempt.id of a row that is gone, or that could not be read again
\* before the call, and raises in its turn.
SettlementAborts ==
  /\ \/ (\E x \in UpNext : ~Exists(x[1])) /\ UNCHANGED failures
     \/ settling.of = None /\ settling.todo # {} /\ Mishap
  /\ settling' = NoSettlement
  /\ UNCHANGED <<ask, book, server, job, seed>> /\ RowsUnchanged

-----------------------------------------------------------------------------
(* DevSeedService *)

\* "keep" and "give_up" draw the final status, a "perhaps" a variant.
FirstTrySuccess == <<"record", "paid", "keep">>

SoftDeclineRetrySuccess ==
  <<"record", "soft", "plan", "record", "paid", "executed", "keep">>

SoftDeclinePendingRetry == <<"record", "soft", "plan", "perhaps_scheduled", "keep">>

HardDecline == <<"record", "hard", "give_up">>

RepeatedFailuresEscalation ==
  <<"record", "soft", "plan", "record", "soft", "count", "record", "soft", "exhausted",
    "escalate", "perhaps_resolve", "give_up">>

InFlight == <<"record", "perhaps_processing", "keep">>

Script ==
  [first_try_success            |-> FirstTrySuccess,
   soft_decline_retry_success   |-> SoftDeclineRetrySuccess,
   soft_decline_pending_retry   |-> SoftDeclinePendingRetry,
   hard_decline                 |-> HardDecline,
   repeated_failures_escalation |-> RepeatedFailuresEscalation,
   in_flight                    |-> InFlight]

ASSUME DevAssumption ==
  /\ Scenarios \subseteq DOMAIN Script
  /\ Demo \in Mandates /\ SeedMaxRetries \in Nat \ {0}
  /\ SoftDeclines \subseteq SOFT_DECLINE_CATEGORIES
  /\ HardDeclines \subseteq HARD_DECLINE_CATEGORIES

\* _apply_final_status
LeftIn(b, final) == {[b EXCEPT !.mandate = s] : s \in final}

\* _set_retry_schedule, over the plan the declined attempt left.
Replanned(b) ==
  {Planned(b, [NoWrite EXCEPT !.max = SeedMaxRetries, !.time = t]) : t \in PlanTime}

\* What a step may make of the mandate b, i being the scenario's latest attempt and seen
\* the copy of it an outcome is reported on; nothing when a service refuses it.
AfterStep(step, b, i, seen) ==
  CASE step = "record"    -> {Recorded(b)}
    [] step = "paid"      -> {Paid(b, i, seen)}
    [] step = "soft"      -> {Declined(b, i, seen, c) :
                                c \in {s \in SoftDeclines : MayFail(seen)}}
    [] step = "hard"      -> {Declined(b, i, seen, c) :
                                c \in {s \in HardDeclines : MayFail(seen)}}
    [] step = "plan"      -> Replanned(b)
    [] step = "count"     -> {Planned(b, [NoWrite EXCEPT !.count = 1])}
    [] step = "executed"  -> {Planned(b, [NoWrite EXCEPT !.status = "executed", !.count = 1])}
    [] step = "exhausted" -> {Planned(b, [NoWrite EXCEPT !.status = "exhausted",
                                                         !.count = SeedMaxRetries])}
    [] step = "escalate"  -> {Opened(b)}
    [] step = "perhaps_scheduled"  -> {b, Planned(b, [NoWrite EXCEPT !.status = "scheduled"])}
    [] step = "perhaps_processing" -> {b, [b EXCEPT !.attempts[i].status = "processing"]}
    [] step = "perhaps_resolve"    -> {b, Resolved(b)}
    [] step = "keep"    -> LeftIn(b, {"active", "completed", "expired"})
    [] step = "give_up" -> LeftIn(b, {"paused", "cancelled", "expired"})

\* seed, for one mandate: registration.
SeedRegister ==
  /\ process = "up" /\ seed.pc = "unused"
  /\ book' = [book EXCEPT ![Demo] = NewBook]
  /\ \E scenario \in Scenarios :
       seed' = [seed EXCEPT !.pc = "seeding", !.script = Script[scenario]]
  /\ UNCHANGED <<ask, server, job, failures, settling>> /\ RowsUnchanged

Over == [pc |-> "over", script |-> <<>>, attempt |-> 0, seen |-> None]

AfterScript ==
  IF Len(seed.script) = 1 THEN Over ELSE [seed EXCEPT !.script = Tail(@), !.seen = None]

Outcomes == {"paid", "soft", "hard"}

\* attempt.id, expired by the commit before, is read again.
SeedLooks ==
  /\ seed.pc = "seeding" /\ Head(seed.script) \in Outcomes /\ seed.seen = None
  /\ Exists(Demo)
  /\ seed' = [seed EXCEPT !.seen = RowOf(<<Demo, seed.attempt>>)]
  /\ UNCHANGED <<batchVars, settling>>

\* What the next step of the scenario may make of its mandate.
SeedResults == AfterStep(Head(seed.script), book[Demo], seed.attempt, seed.seen)

SeedReady ==
  /\ seed.pc = "seeding" /\ Exists(Demo)
  /\ Head(seed.script) \in Outcomes => seed.seen # None

SeedStep ==
  /\ SeedReady
  /\ \E after \in SeedResults : book' = [book EXCEPT ![Demo] = after]
  /\ seed' = IF Head(seed.script) = "record"
             THEN [AfterScript EXCEPT !.attempt = Len(book'[Demo].attempts)] ELSE AfterScript
  /\ UNCHANGED <<ask, server, job, failures, settling>> /\ RowsUnchanged

\* Written through a repository, whose update of a missing row does nothing.
Unchecked == {"perhaps_processing", "keep"}

SeedStepVoid ==
  /\ seed.pc = "seeding" /\ ~Exists(Demo)
  /\ Head(seed.script) \in Unchecked
  /\ seed' = AfterScript
  /\ UNCHANGED <<batchVars, settling>>

\* A service raises, or the id of a row that is gone is read again: the request ends, and
\* the mandate stays half made.
SeedAborts ==
  /\ seed.pc = "seeding"
  /\ ~Exists(Demo) \/ (SeedReady /\ SeedResults = {})
  /\ seed' = Over
  /\ UNCHANGED <<batchVars, settling>>

\* BaseRepository.delete: the mandate's row, and its executions with it.
Deleted(rows) == [rows EXCEPT ![Demo] = None]

\* delete_seed_data, for the one mandate there is; the database cascades.
DeleteSeedData ==
  /\ process = "up" /\ Exists(Demo)
  /\ book' = Deleted(book) /\ executions' = Deleted(executions)
  /\ logged' = logged \ {Demo}
  /\ UNCHANGED <<ask, server, job, ended, failures, settling, seed>>

-----------------------------------------------------------------------------

\* A retry is hours away, a seeding request takes seconds.
TimePasses ==
  /\ seed.pc # "seeding"
  /\ \E m \in Mandates : ComesDue(m)
  /\ UNCHANGED <<ask, server, job, failures, settling, seed>> /\ RowsUnchanged

\* The process takes everything that runs in it with it.
KillAll ==
  /\ Kill
  /\ settling' = NoSettlement
  /\ seed' = IF seed.pc = "seeding" THEN Over ELSE seed

Alone(A) == A /\ UNCHANGED <<settling, seed>>

\* The interpreter waits for its jobs and requests before it exits.
Restart == Alone(Startup) /\ settling = NoSettlement /\ seed.pc # "seeding"

DevNext ==
  \/ Restart \/ Alone(Shutdown) \/ KillAll
  \/ Alone(Tick) \/ Alone(BatchStep) \/ Alone(StepFails) \/ Alone(FailureFailsAgain)
  \/ SettlementTick \/ TakeAttempt \/ Settle \/ NotSettled \/ SettlementAborts
  \/ SeedRegister \/ SeedLooks \/ SeedStep \/ SeedStepVoid \/ SeedAborts \/ DeleteSeedData
  \/ TimePasses

DevSpec == DevInit /\ [][DevNext]_devVars

\* The service is restarted when it has stopped, its jobs keep ticking, and what has been
\* started runs on.  Nobody has to seed or to delete, and time need not pass.
DevFairness ==
  /\ WF_devVars(Restart)
  /\ WF_devVars(Alone(Tick)) /\ WF_devVars(Alone(BatchStep))
  /\ WF_devVars(SettlementTick) /\ WF_devVars(TakeAttempt \/ Settle \/ SettlementAborts)
  /\ WF_devVars(SeedLooks \/ SeedStep \/ SeedStepVoid \/ SeedAborts)

FairDevSpec == DevSpec /\ DevFairness

-----------------------------------------------------------------------------

\* Every variable holds a value of its kind.
DevTypeOK ==
  /\ AiTypeOK /\ BooksTypeOK
  /\ SchemaTypeOK
  /\ job.todo \subseteq Mandates /\ job.of \in Mandates \union {None}
  /\ job.decision \in Decision \union {None}
  /\ executions \in [Mandates -> Row \union {None}]
  /\ logged \subseteq Mandates
  /\ ended \in [Mandates -> {"never", "running", "returned", "raised", "unrecorded", "cut"}]
  /\ settling.todo \subseteq Mandates \X Nat
  /\ settling.of \in (Mandates \X Nat) \union {None}
  /\ {settling.seen, seed.seen} \subseteq Attempt \union {None}
  /\ failures \in 0..MaxFailures

\* A server finds every table and column of the models, whatever database it was started on
\* and wherever the start of the one before it was cut off.
ServedSchemaIsWhole == process = "up" => schema.attempts = "head" /\ schema.events

\* "so failed runs are just as observable as successful ones": unless its row could not be
\* written, or went with the mandate, a run that raised is listed among the errors, and one
\* that returned counts as successful.
RecordTellsOutcome ==
  \A m \in Mandates : Exists(m) =>
    /\ ended[m] = "raised" => m \in ListedErrors
    /\ ended[m] = "returned" => m \in Successful

\* A completed row without its last nodes is that of a run still going, or cut off.
CompletedMeansAllNodes ==
  \A m \in Successful :
    Timeline(m) < Nodes => ended[m] \in {"running", "cut", "unrecorded"}

\* Once a run is over, its row claims the AI's help exactly if the decision log has it.
AiRunsLogged ==
  \A m \in Executed : ended[m] \in {"returned", "raised"} =>
    (m \in AiRuns <=> m \in logged)

\* "fall back on deterministic policy": whatever the provider answers, the job books an
\* attempt only where the policy allows a retry.
AIOnlyExplains ==
  [][At("act") /\ job'.pc = "advance" => IsRetryAllowed(job.ctx)]_devVars

\* A closed plan of a real mandate tells the truth, whoever closed it: executed only if an
\* attempt was paid, exhausted only with its budget spent.
PlansTellTheTruth ==
  \A m \in Mandates \ {Demo} : Exists(m) /\ book[m].plan # None =>
    /\ book[m].plan.status = "executed" =>
         \E i \in DOMAIN book[m].attempts : book[m].attempts[i].status = "succeeded"
    /\ book[m].plan.status = "exhausted" => book[m].plan.count = book[m].plan.max

Closed(plan) == plan # None /\ plan.status \in TerminalRetryStatus

\* A closed plan of a real mandate is taken up again only by an attempt that fails: a run
\* that counts what it booked does not undo what the outcome of it closed meanwhile.
ClosedPlansStayClosed ==
  [][\A m \in Mandates \ {Demo} :
       Exists(m) /\ Closed(book[m].plan) /\ book'[m] # None /\ ~Closed(book'[m].plan) =>
         \E i \in DOMAIN book[m].attempts :
           /\ book[m].attempts[i].status \in Unresolved
           /\ book'[m].attempts[i].status = "failed"]_devVars

\* A batch comes to an end, however often the provider must be asked.
BatchEnds == ~At("idle") ~> At("idle")

\* "a single broken mandate must never block every other due retry": a mandate whose retry
\* is due is handled in the end, if not by the batch that was to do it, then by a later one.
EveryDueMandateHandled == \A m \in Mandates : Due(m) ~> ~Due(m)

\* A batch that leaves due mandates behind met a mandate deleted meanwhile, or a run whose
\* failure could not be recorded: the failure of a run that is recorded blocks no other.
RecordedFailuresBlockNobody ==
  [][At("pick") /\ job'.pc = "idle" /\ process' = "up" =>
       \/ job.todo = {}
       \/ \E m \in job.todo : ~Exists(m)
       \/ \E m \in Mandates : ended[m] = "unrecorded"]_devVars

\* In development no attempt stays pending or in process, whoever made it.
AttemptsSettled ==
  LET Waiting(m) == Exists(m) /\ \E i \in DOMAIN book[m].attempts :
                                   book[m].attempts[i].status \in Unresolved
  IN \A m \in Mandates : Waiting(m) ~> ~Waiting(m)
=============================================================================
