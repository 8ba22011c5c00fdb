------------------------- MODULE DevScenarios_proofs -------------------------
(***************************************************************************)
(* Proofs about DevSeed, for any mandates, scenarios and bounds: what the  *)
(* scenarios make of the demonstration mandate while the jobs work on it,  *)
(* and what the books then say of every mandate.                           *)
(***************************************************************************)
EXTENDS DevBooks_proofs

-----------------------------------------------------------------------------
(* The scripts of the scenarios *)

Steps ==
  {"record", "paid", "soft", "hard", "plan", "count", "executed", "exhausted", "escalate",
   "perhaps_scheduled", "perhaps_processing", "perhaps_resolve", "keep", "give_up"}

\* The step before the k-th, and what was done before it.
Last(s, k, step) == k > 1 /\ s[k - 1] = step
SoftDone(s, k) == k > 2 /\ s[2] = "soft"
PlanMade(s, k) == k > 3 /\ s[3] = "plan"

\* Every step finds what it presumes: an attempt just recorded, a plan, an escalation.
WellMadeAt(s, k) ==
  /\ s[k] \in {"paid", "soft", "hard", "perhaps_processing"} => Last(s, k, "record")
  /\ s[k] = "plan" => k = 3 /\ SoftDone(s, k)
  /\ s[k] \in {"count", "executed", "exhausted", "perhaps_scheduled"} =>
       PlanMade(s, k) /\ SoftDone(s, k)
  /\ s[k] = "perhaps_resolve" => Last(s, k, "escalate")

WellMade(s) == s \in Seq(Steps) /\ Len(s) > 0 /\ \A k \in 1..Len(s) : WellMadeAt(s, k)

LEMMA ScriptsWellMade ==
  ASSUME NEW sc \in Scenarios
  PROVE  WellMade(Script[sc])
<1>1. WellMade(FirstTrySuccess)
  <2> DEFINE s == FirstTrySuccess
  <2>1. s \in Seq(Steps) /\ Len(s) = 3
    BY DEF FirstTrySuccess, Steps
  <2>2. /\ s[1] = "record" /\ s[2] = "paid" /\ s[3] = "keep"
    BY DEF FirstTrySuccess
  <2> HIDE DEF s
  <2>3. \A k \in 1..Len(s) : k \in {1, 2, 3}
    BY <2>1
  <2>4. /\ WellMadeAt(s, 1) /\ WellMadeAt(s, 2) /\ WellMadeAt(s, 3)
    BY <2>2 DEF WellMadeAt, Last, SoftDone, PlanMade
  <2>5. WellMade(s)
    BY <2>1, <2>3, <2>4 DEF WellMade
  <2>. QED  BY <2>5 DEF s
<1>2. WellMade(SoftDeclineRetrySuccess)
  <2> DEFINE s == SoftDeclineRetrySuccess
  <2>1. s \in Seq(Steps) /\ Len(s) = 7
    BY DEF SoftDeclineRetrySuccess, Steps
  <2>2. /\ s[1] = "record" /\ s[2] = "soft" /\ s[3] = "plan"
        /\ s[4] = "record" /\ s[5] = "paid" /\ s[6] = "executed"
        /\ s[7] = "keep"
    BY DEF SoftDeclineRetrySuccess
  <2> HIDE DEF s
  <2>3. \A k \in 1..Len(s) : k \in {1, 2, 3, 4, 5, 6, 7}
    BY <2>1
  <2>4. /\ WellMadeAt(s, 1) /\ WellMadeAt(s, 2) /\ WellMadeAt(s, 3) /\ WellMadeAt(s, 4)
        /\ WellMadeAt(s, 5) /\ WellMadeAt(s, 6) /\ WellMadeAt(s, 7)
    BY <2>2 DEF WellMadeAt, Last, SoftDone, PlanMade
  <2>5. WellMade(s)
    BY <2>1, <2>3, <2>4 DEF WellMade
  <2>. QED  BY <2>5 DEF s
<1>3. WellMade(SoftDeclinePendingRetry)
  <2> DEFINE s == SoftDeclinePendingRetry
  <2>1. s \in Seq(Steps) /\ Len(s) = 5
    BY DEF SoftDeclinePendingRetry, Steps
  <2>2. /\ s[1] = "record" /\ s[2] = "soft" /\ s[3] = "plan"
        /\ s[4] = "perhaps_scheduled" /\ s[5] = "keep"
    BY DEF SoftDeclinePendingRetry
  <2> HIDE DEF s
  <2>3. \A k \in 1..Len(s) : k \in {1, 2, 3, 4, 5}
    BY <2>1
  <2>4. /\ WellMadeAt(s, 1) /\ WellMadeAt(s, 2) /\ WellMadeAt(s, 3) /\ WellMadeAt(s, 4)
        /\ WellMadeAt(s, 5)
    BY <2>2 DEF WellMadeAt, Last, SoftDone, PlanMade
  <2>5. WellMade(s)
    BY <2>1, <2>3, <2>4 DEF WellMade
  <2>. QED  BY <2>5 DEF s
<1>4. WellMade(HardDecline)
  <2> DEFINE s == HardDecline
  <2>1. s \in Seq(Steps) /\ Len(s) = 3
    BY DEF HardDecline, Steps
  <2>2. /\ s[1] = "record" /\ s[2] = "hard" /\ s[3] = "give_up"
    BY DEF HardDecline
  <2> HIDE DEF s
  <2>3. \A k \in 1..Len(s) : k \in {1, 2, 3}
    BY <2>1
  <2>4. /\ WellMadeAt(s, 1) /\ WellMadeAt(s, 2) /\ WellMadeAt(s, 3)
    BY <2>2 DEF WellMadeAt, Last, SoftDone, PlanMade
  <2>5. WellMade(s)
    BY <2>1, <2>3, <2>4 DEF WellMade
  <2>. QED  BY <2>5 DEF s
<1>5. WellMade(RepeatedFailuresEscalation)
  <2> DEFINE s == RepeatedFailuresEscalation
  <2>1. s \in Seq(Steps) /\ Len(s) = 12
    BY DEF RepeatedFailuresEscalation, Steps
  <2>2. /\ s[1] = "record" /\ s[2] = "soft" /\ s[3] = "plan"
        /\ s[4] = "record" /\ s[5] = "soft" /\ s[6] = "count"
        /\ s[7] = "record" /\ s[8] = "soft" /\ s[9] = "exhausted"
        /\ s[10] = "escalate" /\ s[11] = "perhaps_resolve" /\ s[12] = "give_up"
    BY DEF RepeatedFailuresEscalation
  <2> HIDE DEF s
  <2>3. \A k \in 1..Len(s) : k \in {1, 2, 3, 4, 5, 6, 7, 8, 9, 10, 11, 12}
    BY <2>1
  <2>4. /\ WellMadeAt(s, 1) /\ WellMadeAt(s, 2) /\ WellMadeAt(s, 3) /\ WellMadeAt(s, 4)
        /\ WellMadeAt(s, 5) /\ WellMadeAt(s, 6) /\ WellMadeAt(s, 7) /\ WellMadeAt(s, 8)
        /\ WellMadeAt(s, 9) /\ WellMadeAt(s, 10) /\ WellMadeAt(s, 11) /\ WellMadeAt(s, 12)
    BY <2>2 DEF WellMadeAt, Last, SoftDone, PlanMade
  <2>5. WellMade(s)
    BY <2>1, <2>3, <2>4 DEF WellMade
  <2>. QED  BY <2>5 DEF s
<1>6. WellMade(InFlight)
  <2> DEFINE s == InFlight
  <2>1. s \in Seq(Steps) /\ Len(s) = 3
    BY DEF InFlight, Steps
  <2>2. /\ s[1] = "record" /\ s[2] = "perhaps_processing" /\ s[3] = "keep"
    BY DEF InFlight
  <2> HIDE DEF s
  <2>3. \A k \in 1..Len(s) : k \in {1, 2, 3}
    BY <2>1
  <2>4. /\ WellMadeAt(s, 1) /\ WellMadeAt(s, 2) /\ WellMadeAt(s, 3)
    BY <2>2 DEF WellMadeAt, Last, SoftDone, PlanMade
  <2>5. WellMade(s)
    BY <2>1, <2>3, <2>4 DEF WellMade
  <2>. QED  BY <2>5 DEF s
<1>7. /\ sc \in {"first_try_success", "soft_decline_retry_success",
                 "soft_decline_pending_retry", "hard_decline",
                 "repeated_failures_escalation", "in_flight"}
      /\ Script["first_try_success"] = FirstTrySuccess
      /\ Script["soft_decline_retry_success"] = SoftDeclineRetrySuccess
      /\ Script["soft_decline_pending_retry"] = SoftDeclinePendingRetry
      /\ Script["hard_decline"] = HardDecline
      /\ Script["repeated_failures_escalation"] = RepeatedFailuresEscalation
      /\ Script["in_flight"] = InFlight
  BY DevAssumption DEF Script
<1>. QED  BY <1>1, <1>2, <1>3, <1>4, <1>5, <1>6, <1>7

-----------------------------------------------------------------------------
(* What a scenario may rely on, before its k-th step *)

AttemptsKept(b, c) == DOMAIN b.attempts \subseteq DOMAIN c.attempts

\* Of the mandate b it makes, i being its latest attempt.
DemoBook(s, k, b, i) ==
  /\ Last(s, k, "record") => i \in DOMAIN b.attempts
  /\ Last(s, k, "escalate") => b.open > 0
  /\ SoftDone(s, k) => b.plan # None
  /\ PlanMade(s, k) /\ b.plan # None => b.plan.max = SeedMaxRetries
  /\ ~PlanMade(s, k) /\ b.plan # None => b.plan.count = 0 /\ b.plan.time = "later"

\* Of the retry job beside it.
DemoAlone(s, k) == ~PlanMade(s, k) => Demo \notin job.todo /\ job.of # Demo

DemoAt(s, k) ==
  DemoAlone(s, k) /\ (Exists(Demo) => DemoBook(s, k, book[Demo], seed.attempt))

\* The rest of the script that is played.
Rest(s, k) == SubSeq(s, k, Len(s))

Playing(s, k) == WellMade(s) /\ k \in 1..Len(s) /\ seed.script = Rest(s, k) /\ DemoAt(s, k)

SeedOK ==
  /\ seed.seen \in Attempt \union {None}
  /\ seed.pc = "unused" => \A x \in InHand : x[1] # Demo
  /\ seed.pc = "seeding" => \E s, k : Playing(s, k)

LEMMA RestIs ==
  ASSUME NEW s, WellMade(s), NEW k \in 1..Len(s)
  PROVE  /\ Head(Rest(s, k)) = s[k]
         /\ Rest(s, k) # <<>>
         /\ Len(Rest(s, k)) = 1 <=> k = Len(s)
         /\ k < Len(s) => k + 1 \in 1..Len(s) /\ Tail(Rest(s, k)) = Rest(s, k + 1)
<1>1. s \in Seq(Steps) /\ Len(s) \in Nat
  BY LenProperties DEF WellMade
<1> DEFINE r == Rest(s, k)
<1>2. /\ r \in Seq(Steps) /\ Len(r) = Len(s) - k + 1
      /\ \A j \in 1..Len(r) : r[j] = s[k + j - 1]
  BY <1>1, SubSeqProperties DEF Rest
<1>3. r # <<>> /\ Head(r) = s[k]
  BY <1>1, <1>2
<1>4. k < Len(s) => k + 1 \in 1..Len(s) /\ Tail(r) = Rest(s, k + 1)
  <2>. SUFFICES ASSUME k < Len(s) PROVE k + 1 \in 1..Len(s) /\ Tail(r) = Rest(s, k + 1)
    OBVIOUS
  <2> DEFINE q == Rest(s, k + 1)
  <2>1. k + 1 \in 1..Len(s)
    BY <1>1
  <2>2. /\ q \in Seq(Steps) /\ Len(q) = Len(s) - k
        /\ \A j \in 1..Len(q) : q[j] = s[k + 1 + j - 1]
    BY <1>1, <2>1, SubSeqProperties DEF Rest
  <2>3. /\ Tail(r) \in Seq(Steps) /\ Len(Tail(r)) = Len(r) - 1
        /\ \A j \in 1..Len(Tail(r)) : Tail(r)[j] = r[j + 1]
    BY <1>2, <1>3, HeadTailProperties
  <2> HIDE DEF r, q
  <2>4. Len(Tail(r)) = Len(q) /\ \A j \in 1..Len(q) : Tail(r)[j] = q[j]
    <3>1. Len(Tail(r)) = Len(q)
      <4>1. /\ Len(r) = Len(s) - k + 1 /\ Len(q) = Len(s) - k
            /\ Len(Tail(r)) = Len(r) - 1 /\ k \in Int /\ Len(s) \in Int
        BY <1>1, <1>2, <2>2, <2>3
      <4>2. Len(s) - k + 1 - 1 = Len(s) - k
        BY <4>1
      <4>. QED  BY <4>1, <4>2
    <3>2. ASSUME NEW j \in 1..Len(q) PROVE Tail(r)[j] = q[j]
      <4>1. j + 1 \in 1..Len(r) /\ j \in 1..Len(Tail(r))
        BY <1>1, <1>2, <2>2, <3>1
      <4>2. k + (j + 1) - 1 = k + 1 + j - 1
        BY <1>1, <2>2
      <4>. QED  BY <1>2, <2>2, <2>3, <4>1, <4>2
    <3>. QED  BY <3>1, <3>2
  <2>. QED  BY <2>1, <2>2, <2>3, <2>4, SeqEqual DEF q
<1>. QED  BY <1>1, <1>2, <1>3, <1>4

\* What one more step adds to what is done.
LEMMA OneMoreDone ==
  ASSUME NEW s, NEW k \in Nat \ {0}
  PROVE  /\ \A step : Last(s, k + 1, step) <=> s[k] = step
         /\ SoftDone(s, k) => SoftDone(s, k + 1)
         /\ SoftDone(s, k + 1) => SoftDone(s, k) \/ (k = 2 /\ s[k] = "soft")
         /\ PlanMade(s, k) => PlanMade(s, k + 1)
         /\ PlanMade(s, k + 1) => PlanMade(s, k) \/ (k = 3 /\ s[k] = "plan")
         /\ PlanMade(s, k) => k > 3
BY DEF Last, SoftDone, PlanMade

-----------------------------------------------------------------------------
(* What a step of a scenario makes of the mandate *)

\* The next attempt of the scenario after the step.
Latest(step, c, i) == IF step = "record" THEN Len(c.attempts) ELSE i

\* A row, whatever is done to it: sound, with the attempts it had, and its plan kept once a
\* run may have begun with it.
Made(s, k, b, c) ==
  /\ Sound(c)
  /\ AttemptsKept(b, c)
  /\ PlanMade(s, k) => Kept(b, c)

LEMMA RecordMakes ==
  ASSUME NEW s, WellMade(s), NEW k \in 1..Len(s), NEW b, NEW i, Sound(b), DemoBook(s, k, b, i),
         s[k] = "record"
  PROVE  LET c == Recorded(b)
         IN  Made(s, k, b, c) /\ DemoBook(s, k + 1, c, Len(c.attempts))
<1> DEFINE c == Recorded(b)
<1>1. /\ Sound(c) /\ Gentle(b, c)
      /\ Len(c.attempts) = Len(b.attempts) + 1 /\ Len(c.attempts) \in DOMAIN c.attempts
      /\ c.plan = b.plan /\ c.open = b.open
  BY RecordedIs
<1> HIDE DEF c
<1>3. Made(s, k, b, c)
  BY <1>1 DEF Made, AttemptsKept, Gentle, Kept
<1>4. /\ Last(s, k + 1, "record") /\ ~Last(s, k + 1, "escalate")
      /\ SoftDone(s, k + 1) => SoftDone(s, k)
      /\ PlanMade(s, k + 1) <=> PlanMade(s, k)
  BY OneMoreDone
<1>5. DemoBook(s, k + 1, c, Len(c.attempts))
  BY <1>1, <1>4 DEF DemoBook
<1>. QED  BY <1>3, <1>5 DEF c

\* A gateway outcome for the attempt just recorded, whatever copy it is checked against.
LEMMA OutcomeMakes ==
  ASSUME NEW s, WellMade(s), NEW k \in 1..Len(s), NEW b, NEW i, Sound(b), DemoBook(s, k, b, i),
         s[k] \in Outcomes, NEW seen \in Attempt, NEW c,
         \/ c = Paid(b, i, seen) /\ s[k] = "paid"
         \/ \E category \in DeclineCategory : c = Declined(b, i, seen, category)
  PROVE  Made(s, k, b, c) /\ DemoBook(s, k + 1, c, i)
<1>1. i \in DOMAIN b.attempts
  BY DEF WellMade, WellMadeAt, Last, DemoBook, Outcomes
<1>2. /\ ~Last(s, k + 1, "record") /\ ~Last(s, k + 1, "escalate")
      /\ SoftDone(s, k + 1) => SoftDone(s, k) \/ s[k] = "soft"
      /\ PlanMade(s, k + 1) <=> PlanMade(s, k)
  BY OneMoreDone DEF Outcomes
<1>3. /\ Sound(c) /\ Gentle(b, c)
      /\ s[k] # "paid" => c.plan # None
      /\ ~PlanMade(s, k) /\ c.plan # None => c.plan.count = 0 /\ c.plan.time = "later"
  <2>1. CASE c = Paid(b, i, seen) /\ s[k] = "paid"
    BY <1>1, <2>1, PaidIs DEF DemoBook
  <2>2. CASE \E category \in DeclineCategory : c = Declined(b, i, seen, category)
    <3>1. Sound(c) /\ Gentle(b, c) /\ c.plan = Pursued(b.plan) /\ c.plan # None
      BY <1>1, <2>2, DeclinedIs
    <3>2. b.plan \in PlanRow \union {None} /\ (b.plan # None => WithinMax(b.plan))
      BY BookColumns DEF Sound
    <3>. QED  BY <3>1, <3>2, PursuedIs DEF DemoBook
  <2>. QED  BY <2>1, <2>2
<1>4. Kept(b, c)
  BY <1>3 DEF Gentle
<1>5. Made(s, k, b, c)
  BY <1>3, <1>4 DEF Made, AttemptsKept, Kept
<1>6. PlanMade(s, k) /\ c.plan # None => c.plan.max = SeedMaxRetries
  <2>. SUFFICES ASSUME PlanMade(s, k), c.plan # None PROVE c.plan.max = SeedMaxRetries
    OBVIOUS
  <2>1. SoftDone(s, k)
    BY OneMoreDone DEF WellMade, WellMadeAt, PlanMade, SoftDone
  <2>2. b.plan # None /\ b.plan.max = SeedMaxRetries
    BY <2>1 DEF DemoBook
  <2>. QED  BY <1>4, <2>2 DEF Kept
<1>7. SoftDone(s, k + 1) => c.plan # None
  BY <1>2, <1>3, <1>4 DEF DemoBook, Kept
<1>8. DemoBook(s, k + 1, c, i)
  BY <1>2, <1>3, <1>6, <1>7 DEF DemoBook
<1>. QED  BY <1>5, <1>8

\* _set_retry_schedule fits a budget to the plan no run has begun with yet.
LEMMA PlanMakes ==
  ASSUME NEW s, WellMade(s), NEW k \in 1..Len(s), NEW b, NEW i, Sound(b), DemoBook(s, k, b, i),
         s[k] = "plan", NEW c \in Replanned(b)
  PROVE  Made(s, k, b, c) /\ DemoBook(s, k + 1, c, i)
<1>1. k = 3 /\ SoftDone(s, k) /\ ~PlanMade(s, k)
  BY DEF WellMade, WellMadeAt, PlanMade
<1>2. b.plan # None /\ b.plan.count = 0 /\ b.plan \in PlanRow
  BY <1>1, BookColumns DEF DemoBook, Sound
<1>3. PICK t \in PlanTime : c = Planned(b, [NoWrite EXCEPT !.max = SeedMaxRetries, !.time = t])
  BY DEF Replanned
<1> DEFINE edit == [NoWrite EXCEPT !.max = SeedMaxRetries, !.time = t]
<1>4. /\ edit \in PlanWrite /\ edit.max = SeedMaxRetries
      /\ edit.status = None /\ edit.count = None /\ SeedMaxRetries # None
  BY DevAssumption, NoneIsNoCount DEF NoWrite, PlanWrite
<1>5. c = Planned(b, edit)
  BY <1>3
<1> HIDE DEF edit
<1>6. /\ c \in Book /\ c.attempts = b.attempts /\ c.open = b.open /\ c.plan # None
      /\ c.plan.status = b.plan.status /\ c.plan.count = 0 /\ c.plan.max = SeedMaxRetries
  BY <1>2, <1>4, <1>5, PlannedIs DEF Written
<1>7. Sound(c)
  BY <1>6, DevAssumption DEF Sound, WithinMax
<1>8. Made(s, k, b, c)
  BY <1>1, <1>6, <1>7 DEF Made, AttemptsKept
<1>9. ~Last(s, k + 1, "record") /\ ~Last(s, k + 1, "escalate") /\ PlanMade(s, k + 1)
  BY <1>1, OneMoreDone DEF PlanMade
<1>10. DemoBook(s, k + 1, c, i)
  BY <1>6, <1>9 DEF DemoBook
<1>. QED  BY <1>8, <1>10

LEMMA ClosingWrite ==
  ASSUME NEW status \in RetryStatus, NEW n \in Nat
  PROVE  LET edit == [NoWrite EXCEPT !.status = status, !.count = n]
         IN  /\ edit \in PlanWrite
             /\ edit.status = status /\ status # None
             /\ edit.count = n /\ n # None
             /\ edit.max = None
BY NoneIsNoCount, NoneIsNoStatus DEF NoWrite, PlanWrite

\* The later writes of the plan keep its budget.
LEMMA RewriteMakes ==
  ASSUME NEW s, WellMade(s), NEW k \in 1..Len(s), NEW b, NEW i, Sound(b), DemoBook(s, k, b, i),
         s[k] \in {"count", "executed", "exhausted", "perhaps_scheduled"},
         NEW seen, NEW c \in AfterStep(s[k], b, i, seen)
  PROVE  Made(s, k, b, c) /\ DemoBook(s, k + 1, c, i)
<1>1. PlanMade(s, k) /\ SoftDone(s, k)
  BY DEF WellMade, WellMadeAt, PlanMade
<1>2. b.plan # None /\ b.plan.max = SeedMaxRetries /\ b.plan \in PlanRow
  BY <1>1, BookColumns DEF DemoBook, Sound
<1>3. /\ c \in Book /\ c.attempts = b.attempts /\ c.open = b.open /\ c.plan # None
      /\ c.plan.max = b.plan.max /\ WithinMax(c.plan)
  <2>1. CASE s[k] = "count"
    <3> DEFINE edit == [NoWrite EXCEPT !.count = 1]
    <3>1. c = Planned(b, edit)
      BY <2>1 DEF AfterStep
    <3>2. /\ edit \in PlanWrite /\ edit.count = 1 /\ 1 # None
          /\ edit.status = None /\ edit.max = None
      BY NoneIsNoCount DEF NoWrite, PlanWrite
    <3> HIDE DEF edit
    <3>3. /\ c \in Book /\ c.attempts = b.attempts /\ c.open = b.open /\ c.plan # None
          /\ c.plan.max = b.plan.max /\ c.plan.count = 1 /\ c.plan.status = b.plan.status
      BY <1>2, <3>1, <3>2, PlannedIs DEF Written
    <3>. QED  BY <1>2, <3>3, DevAssumption DEF WithinMax
  <2>2. CASE s[k] = "executed"
    <3> DEFINE edit == [NoWrite EXCEPT !.status = "executed", !.count = 1]
    <3>1. c = Planned(b, edit)
      BY <2>2 DEF AfterStep
    <3>2. edit \in PlanWrite /\ edit.count = 1 /\ 1 # None /\ edit.max = None
      <4>1. 1 \in Nat /\ "executed" \in RetryStatus
        BY DEF RetryStatus
      <4>. QED  BY <4>1, ClosingWrite
    <3> HIDE DEF edit
    <3>3. /\ c \in Book /\ c.attempts = b.attempts /\ c.open = b.open /\ c.plan # None
          /\ c.plan.max = b.plan.max /\ c.plan.count = 1
      BY <1>2, <3>1, <3>2, PlannedIs DEF Written
    <3>. QED  BY <1>2, <2>2, <3>3, DevAssumption DEF WithinMax
  <2>3. CASE s[k] = "exhausted"
    <3> DEFINE edit == [NoWrite EXCEPT !.status = "exhausted", !.count = SeedMaxRetries]
    <3>1. c = Planned(b, edit)
      BY <2>3 DEF AfterStep
    <3>2. /\ edit \in PlanWrite /\ edit.count = SeedMaxRetries /\ SeedMaxRetries # None
          /\ edit.status = "exhausted" /\ "exhausted" # None /\ edit.max = None
      <4>1. SeedMaxRetries \in Nat /\ "exhausted" \in RetryStatus
        BY DevAssumption DEF RetryStatus
      <4>. QED  BY <4>1, ClosingWrite
    <3> HIDE DEF edit
    <3>3. /\ c \in Book /\ c.attempts = b.attempts /\ c.open = b.open /\ c.plan # None
          /\ c.plan.max = b.plan.max /\ c.plan.count = SeedMaxRetries
          /\ c.plan.status = "exhausted"
      BY <1>2, <3>1, <3>2, PlannedIs DEF Written
    <3>. QED  BY <1>2, <3>3, DevAssumption DEF WithinMax
  <2>4. CASE s[k] = "perhaps_scheduled"
    <3> DEFINE edit == [NoWrite EXCEPT !.status = "scheduled"]
    <3>1. c = b \/ c = Planned(b, edit)
      BY <2>4 DEF AfterStep
    <3>2. /\ edit \in PlanWrite /\ edit.count = None /\ edit.max = None
          /\ edit.status = "scheduled" /\ "scheduled" # None
      BY NoneIsNoStatus DEF NoWrite, PlanWrite, RetryStatus
    <3> HIDE DEF edit
    <3>3. CASE c = Planned(b, edit)
      <4>1. /\ c \in Book /\ c.attempts = b.attempts /\ c.open = b.open /\ c.plan # None
            /\ c.plan.max = b.plan.max /\ c.plan.count = b.plan.count
            /\ c.plan.status = "scheduled"
        BY <1>2, <3>2, <3>3, PlannedIs DEF Written
      <4>. QED  BY <1>2, <4>1 DEF WithinMax, Sound
    <3>4. CASE c = b
      BY <1>2, <3>4 DEF Sound
    <3>. QED  BY <3>1, <3>3, <3>4
  <2>. QED  BY <2>1, <2>2, <2>3, <2>4
<1>4. Sound(c)
  BY <1>3 DEF Sound
<1>5. Made(s, k, b, c)
  BY <1>3, <1>4 DEF Made, AttemptsKept, Kept
<1>6. ~Last(s, k + 1, "record") /\ ~Last(s, k + 1, "escalate") /\ PlanMade(s, k + 1)
  BY <1>1, OneMoreDone
<1>7. DemoBook(s, k + 1, c, i)
  BY <1>2, <1>3, <1>6 DEF DemoBook
<1>. QED  BY <1>5, <1>7

\* An escalation, and what is left of the mandate, leave attempts and plan alone.
LEMMA RestMakes ==
  ASSUME NEW s, WellMade(s), NEW k \in 1..Len(s), NEW b, NEW i, Sound(b), DemoBook(s, k, b, i),
         s[k] \in {"escalate", "perhaps_resolve", "keep", "give_up"},
         NEW seen, NEW c \in AfterStep(s[k], b, i, seen)
  PROVE  Made(s, k, b, c) /\ DemoBook(s, k + 1, c, i)
<1>1. s[k] = "perhaps_resolve" => b.open > 0
  BY DEF WellMade, WellMadeAt, DemoBook
<1>2. Sound(c) /\ c.attempts = b.attempts /\ c.plan = b.plan
      /\ (s[k] = "escalate" => c.open > 0)
  <2>1. CASE s[k] = "escalate"
    <3>1. c = Opened(b) /\ b.open \in Nat
      BY <2>1, BookColumns DEF AfterStep, Sound
    <3>. QED  BY <3>1, OpenedIs
  <2>2. CASE s[k] = "perhaps_resolve"
    <3>1. c = b \/ c = Resolved(b)
      BY <2>2 DEF AfterStep
    <3>. QED  BY <1>1, <2>2, <3>1, ResolvedIs
  <2>3. CASE s[k] \in {"keep", "give_up"}
    <3>1. PICK final \in SUBSET MandateStatus : c \in LeftIn(b, final)
      <4>1. CASE s[k] = "keep"
        <5>1. c \in LeftIn(b, {"active", "completed", "expired"})
          BY <4>1 DEF AfterStep
        <5>2. {"active", "completed", "expired"} \in SUBSET MandateStatus
          BY DEF MandateStatus
        <5>. QED  BY <5>1, <5>2
      <4>2. CASE s[k] = "give_up"
        <5>1. c \in LeftIn(b, {"paused", "cancelled", "expired"})
          BY <4>2 DEF AfterStep
        <5>2. {"paused", "cancelled", "expired"} \in SUBSET MandateStatus
          BY DEF MandateStatus
        <5>. QED  BY <5>1, <5>2
      <4>. QED  BY <2>3, <4>1, <4>2
    <3>. QED  BY <2>3, <3>1, LeftInIs
  <2>. QED  BY <2>1, <2>2, <2>3
<1>3. Made(s, k, b, c)
  BY <1>2 DEF Made, AttemptsKept, Kept
<1>4. /\ ~Last(s, k + 1, "record")
      /\ Last(s, k + 1, "escalate") => s[k] = "escalate"
      /\ SoftDone(s, k + 1) => SoftDone(s, k)
      /\ PlanMade(s, k + 1) <=> PlanMade(s, k)
  BY OneMoreDone
<1>5. DemoBook(s, k + 1, c, i)
  BY <1>2, <1>4 DEF DemoBook
<1>. QED  BY <1>3, <1>5

\* The in-flight scenario writes over the status of its attempt.
LEMMA ProcessingMakes ==
  ASSUME NEW s, WellMade(s), NEW k \in 1..Len(s), NEW b, NEW i, Sound(b), DemoBook(s, k, b, i),
         s[k] = "perhaps_processing", NEW seen, NEW c \in AfterStep(s[k], b, i, seen)
  PROVE  Made(s, k, b, c) /\ DemoBook(s, k + 1, c, i)
<1>1. i \in DOMAIN b.attempts
  BY DEF WellMade, WellMadeAt, DemoBook
<1>3. b \in Book /\ b.attempts \in Seq(Attempt) /\ b.attempts[i] \in Attempt
  BY <1>1, BookColumns DEF Sound
<1>4. c \in Book /\ c.plan = b.plan /\ c.open = b.open /\ DOMAIN c.attempts = DOMAIN b.attempts
  <2>1. CASE c = b
    BY <1>3, <2>1
  <2>2. CASE c = [b EXCEPT !.attempts[i].status = "processing"]
    <3> DEFINE row == [b.attempts[i] EXCEPT !.status = "processing"]
               rows == [b.attempts EXCEPT ![i] = row]
    <3>1. row \in Attempt
      BY <1>3 DEF Attempt, PaymentStatus
    <3>2. c = [b EXCEPT !.attempts = rows]
      BY <2>2
    <3> HIDE DEF row
    <3>3. rows \in Seq(Attempt) /\ DOMAIN rows = DOMAIN b.attempts
      BY <1>1, <1>3, <3>1, ExceptSeq
    <3> HIDE DEF rows
    <3>4. c \in Book /\ c.plan = b.plan /\ c.open = b.open /\ c.attempts = rows
      BY <1>3, <3>2, <3>3 DEF Book
    <3>. QED  BY <3>3, <3>4
  <2>3. c = b \/ c = [b EXCEPT !.attempts[i].status = "processing"]
    BY DEF AfterStep
  <2>. QED  BY <2>1, <2>2, <2>3
<1>5. Sound(c)
  BY <1>4 DEF Sound
<1>6. Made(s, k, b, c)
  BY <1>4, <1>5 DEF Made, AttemptsKept, Kept
<1>7. /\ ~Last(s, k + 1, "record") /\ ~Last(s, k + 1, "escalate")
      /\ SoftDone(s, k + 1) => SoftDone(s, k)
      /\ PlanMade(s, k + 1) <=> PlanMade(s, k)
  BY OneMoreDone
<1>8. DemoBook(s, k + 1, c, i)
  BY <1>4, <1>7 DEF DemoBook
<1>. QED  BY <1>6, <1>8

LEMMA StepMakes ==
  ASSUME NEW s, WellMade(s), NEW k \in 1..Len(s), NEW b, NEW i, Sound(b), DemoBook(s, k, b, i),
         NEW seen, s[k] \in Outcomes => seen \in Attempt, NEW c \in AfterStep(s[k], b, i, seen)
  PROVE  Made(s, k, b, c) /\ DemoBook(s, k + 1, c, Latest(s[k], c, i))
<1>1. s[k] \in Steps
  BY DEF WellMade
<1>2. CASE s[k] = "record"
  <2>1. c = Recorded(b)
    BY <1>2 DEF AfterStep
  <2>. QED  BY <1>2, <2>1, RecordMakes DEF Latest
<1>3. CASE s[k] \in Outcomes
  <2>1. \/ c = Paid(b, i, seen) /\ s[k] = "paid"
        \/ \E category \in SoftDeclines \union HardDeclines : c = Declined(b, i, seen, category)
    BY <1>3 DEF AfterStep, Outcomes
  <2>2. SoftDeclines \union HardDeclines \subseteq DeclineCategory
    BY DevAssumption DEF SOFT_DECLINE_CATEGORIES, HARD_DECLINE_CATEGORIES, DeclineCategory
  <2>. QED  BY <1>3, <2>1, <2>2, OutcomeMakes DEF Latest, Outcomes
<1>4. CASE s[k] = "plan"
  <2>1. c \in Replanned(b)
    BY <1>4 DEF AfterStep
  <2>. QED  BY <1>4, <2>1, PlanMakes DEF Latest
<1>5. CASE s[k] \in {"count", "executed", "exhausted", "perhaps_scheduled"}
  BY <1>5, RewriteMakes DEF Latest
<1>6. CASE s[k] \in {"escalate", "perhaps_resolve", "keep", "give_up"}
  BY <1>6, RestMakes DEF Latest
<1>7. CASE s[k] = "perhaps_processing"
  BY <1>7, ProcessingMakes DEF Latest
<1>. QED  BY <1>1, <1>2, <1>3, <1>4, <1>5, <1>6, <1>7 DEF Steps, Outcomes

-----------------------------------------------------------------------------
(* The other actors leave a scenario what it relies on *)

BookInv == BooksOfJob /\ SettlingOK /\ SeedOK

\* What a step of another actor makes of a book.
Left(b, c) == Kept(b, c) /\ (b.open > 0 => c.open > 0)

LEMMA SameIsLeft ==
  ASSUME NEW b, Sound(b)
  PROVE  Left(b, b)
BY SameIsGentle DEF Left

\* The settlement job goes on to nothing it has not listed.
SettlingGoesOn == UNCHANGED settling \/ TurnOver \/ settling' = NoSettlement

LEMMA SettlingTakes ==
  ASSUME SettlingOK, [DevNext]_devVars
  PROVE  InHand' \subseteq InHand \union Listed
<1>1. CASE UNCHANGED settling
  BY <1>1 DEF InHand
<1>2. CASE Settle \/ NotSettled
  BY <1>2, TurnOverIs DEF Settle, NotSettled
<1>3. CASE KillAll \/ SettlementAborts
  BY <1>3 DEF KillAll, SettlementAborts, NoSettlement, InHand
<1>4. CASE SettlementTick
  <2>1. PICK x \in Listed : settling' = [todo |-> Listed \ {x}, of |-> x, seen |-> RowOf(x)]
    BY <1>4 DEF SettlementTick
  <2>2. settling'.todo = Listed \ {x} /\ settling'.of = x
    BY <2>1
  <2>. QED  BY <2>2 DEF InHand
<1>5. CASE TakeAttempt
  <2>1. PICK x \in settling.todo :
          settling' = [todo |-> settling.todo \ {x}, of |-> x, seen |-> RowOf(x)]
    BY <1>5 DEF TakeAttempt
  <2>2. settling'.todo = settling.todo \ {x} /\ settling'.of = x
    BY <2>1
  <2>. QED  BY <2>2 DEF InHand
<1>. QED
  BY <1>1, <1>2, <1>3, <1>4, <1>5 DEF DevNext, Alone, Restart, SeedRegister, SeedLooks, SeedStep,
     SeedStepVoid, SeedAborts, DeleteSeedData, TimePasses, devVars

\* Before its plan is made the demonstration mandate is not due, so no batch takes it.
LEMMA DemoStaysAlone ==
  ASSUME RunInv, BooksOfJob, [DevNext]_devVars, NEW s, NEW k, Playing(s, k),
         UNCHANGED seed,
         Exists(Demo)' => /\ Exists(Demo)
                          /\ PlanMade(s, k) => Left(book[Demo], book'[Demo])
                          /\ ~PlanMade(s, k) => UNCHANGED book[Demo]
  PROVE  Playing(s, k)'
<1>1. WellMade(s) /\ k \in 1..Len(s) /\ seed.script = Rest(s, k) /\ DemoAt(s, k)
  BY DEF Playing
<1>2. Exists(Demo) => DemoBook(s, k, book[Demo], seed.attempt)
  BY <1>1 DEF DemoAt
<1>3. ASSUME ~PlanMade(s, k) PROVE Demo \notin job'.todo /\ job'.of # Demo
  <2>1. Demo \notin job.todo /\ job.of # Demo /\ Demo # None
    BY <1>1, <1>3, DevAssumption, NoneIsNoRun DEF DemoAt, DemoAlone
  <2>2. ~Selected(Demo)
    BY <1>2, <1>3 DEF Selected, Due, HasDuePlan, DemoBook
  <2>. QED  BY <2>1, <2>2, JobTakes
<1>5. ASSUME Exists(Demo)' PROVE DemoBook(s, k, book'[Demo], seed.attempt)
  <2>1. DemoBook(s, k, book[Demo], seed.attempt) /\ Sound(book[Demo])
    BY <1>2, <1>5, DevAssumption DEF BooksOfJob, BooksSound
  <2>2. CASE ~PlanMade(s, k)
    BY <1>5, <2>1, <2>2
  <2>3. CASE PlanMade(s, k)
    <3>1. /\ Kept(book[Demo], book'[Demo])
          /\ book[Demo].open > 0 => book'[Demo].open > 0
      BY <1>5, <2>3 DEF Left
    <3>2. SoftDone(s, k)
      BY <1>1, <2>3 DEF WellMade, WellMadeAt, PlanMade, SoftDone
    <3>4. /\ book[Demo].plan # None /\ book[Demo].plan.max = SeedMaxRetries
          /\ book'[Demo].plan # None /\ book'[Demo].plan.max = SeedMaxRetries
      BY <2>1, <2>3, <3>1, <3>2 DEF DemoBook, Kept
    <3>5. Last(s, k, "record") => seed.attempt \in DOMAIN book'[Demo].attempts
      BY <2>1, <3>1 DEF DemoBook, Kept
    <3>6. Last(s, k, "escalate") => book'[Demo].open > 0
      BY <2>1, <3>1 DEF DemoBook
    <3>. QED  BY <2>1, <2>3, <3>4, <3>5, <3>6 DEF DemoBook
  <2>. QED  BY <2>2, <2>3
<1>6. DemoAlone(s, k)'
  BY <1>3 DEF DemoAlone
<1>7. DemoAt(s, k)'
  BY <1>5, <1>6 DEF DemoAt, Exists
<1>. QED  BY <1>1, <1>7 DEF Playing

\* The retry job writes only to the book of the run's mandate, and takes nothing back.
LEMMA JobLeaves ==
  ASSUME RunInv, BooksOfJob, BatchStep \/ StepFails \/ Unrecorded
  PROVE  /\ \A m \in Mandates : m # job.of => UNCHANGED book[m]
         /\ job.of \in Mandates /\ Exists(job.of) => Left(book[job.of], book'[job.of])
<1> DEFINE d == job.of
           b == book[job.of]
<1>0. \A m \in Mandates : Exists(m) => Sound(book[m])
  BY DEF BooksOfJob, BooksSound
<1>1. CASE UNCHANGED book
  BY <1>0, <1>1, SameIsLeft
<1>2. ASSUME d \in Mandates, Exists(d), NEW c, book' = [book EXCEPT ![d] = c], Left(b, c)
      PROVE  /\ \A m \in Mandates : m # job.of => UNCHANGED book[m]
             /\ job.of \in Mandates /\ Exists(job.of) => Left(book[job.of], book'[job.of])
  BY <1>2 DEF RunInv, RecordKinds
<1>3. CASE Escalate \/ BookAttempt
  <2>1. d \in Mandates /\ Exists(d) /\ Sound(b) /\ b.open \in Nat
    BY <1>0, <1>3, BookColumns DEF Escalate, BookAttempt, At, RunInv, JobInv, Sound
  <2>2. CASE Escalate
    <3>1. book' = [book EXCEPT ![d] = Opened(b)]
      BY <2>2 DEF Escalate
    <3>2. Left(b, Opened(b))
      BY <2>1, OpenedIs DEF Left, Gentle
    <3>. QED  BY <1>2, <2>1, <3>1, <3>2
  <2>3. CASE BookAttempt
    <3>1. book' = [book EXCEPT ![d] = Recorded(b)]
      BY <2>3 DEF BookAttempt
    <3>2. Left(b, Recorded(b))
      BY <2>1, RecordedIs DEF Left, Gentle
    <3>. QED  BY <1>2, <2>1, <3>1, <3>2
  <2>. QED  BY <1>3, <2>2, <2>3
<1>4. ASSUME d \in Mandates, Exists(d), NEW edit \in PlanWrite, edit.max = None,
             book' = [book EXCEPT ![d] = Planned(b, edit)]
      PROVE  Left(b, Planned(b, edit))
  <2>1. Sound(b) /\ b.plan # None
    BY <1>0, <1>4 DEF BooksOfJob, BatchHasPlans
  <2>2. Planned(b, edit).attempts = b.attempts /\ Planned(b, edit).open = b.open
        /\ Planned(b, edit).plan # None /\ Planned(b, edit).plan.max = b.plan.max
    BY <1>4, <2>1, PlannedIs DEF Written
  <2>. QED  BY <2>2 DEF Left, Kept
<1>5. CASE AdvancePlan
  <2> DEFINE edit == Advancement(job.ctx.plan)
  <2>1. d \in Mandates /\ Exists(d) /\ book' = [book EXCEPT ![d] = Planned(b, edit)]
    BY <1>5 DEF AdvancePlan, At, RunInv, JobInv
  <2>2. edit \in PlanWrite /\ edit.max = None
    <3>1. job.ctx.plan \in PlanRow
      BY <1>5 DEF AdvancePlan, At, BooksOfJob, ContextTrue, Relying
    <3>. HIDE DEF d, b
    <3>2. job.ctx.plan.count + 1 \in Nat /\ "exhausted" \in RetryStatus
      BY <3>1 DEF PlanRow, RetryStatus
    <3> DEFINE n == job.ctx.plan.count + 1
    <3>3. \/ edit = [NoWrite EXCEPT !.count = n, !.status = "exhausted"]
          \/ edit = [NoWrite EXCEPT !.count = n, !.time = "later"]
      BY DEF Advancement
    <3> HIDE DEF n, edit
    <3>. QED  BY <3>2, <3>3 DEF NoWrite, PlanWrite, PlanTime, n
  <2> HIDE DEF edit
  <2>. QED  BY <1>2, <1>4, <2>1, <2>2
<1>6. CASE ClosePlan
  <2> DEFINE edit == [NoWrite EXCEPT !.status = CloseOutStatus(job.ctx)]
  <2>1. d \in Mandates /\ Exists(d) /\ book' = [book EXCEPT ![d] = Planned(b, edit)]
    BY <1>6 DEF ClosePlan, At, RunInv, JobInv
  <2>2. edit \in PlanWrite /\ edit.max = None
    <3>1. CloseOutStatus(job.ctx) \in RetryStatus
      BY DEF CloseOutStatus, RetryStatus
    <3>. QED  BY <3>1 DEF NoWrite, PlanWrite
  <2> HIDE DEF edit
  <2>. QED  BY <1>2, <1>4, <2>1, <2>2
<1>7. UNCHANGED book \/ Escalate \/ BookAttempt \/ AdvancePlan \/ ClosePlan
  BY DEF BatchStep, Pick, BatchAborts, BatchDone, RunStep, TakeContext, AskProvider, Decide,
     Communicate, NoEscalationNeeded, Persist, Finish, LogDecision, StepRefused, RecordFailure,
     FailureUnrecorded, Unrecorded, StepFails
<1>. QED  BY <1>1, <1>3, <1>5, <1>6, <1>7

\* Books that are left as they were, or kept, keep what is listed.
LEMMA LeftKeeps ==
  ASSUME RunInv, BooksOfJob, SettlingOK, SettlingGoesOn,
         \A m \in Mandates : Exists(m)' => Exists(m) /\ AttemptsKept(book[m], book'[m])
  PROVE  SettlingOK'
<1>1. /\ settling' \in [todo: SUBSET (Mandates \X Nat), of: (Mandates \X Nat) \union {None},
                        seen: Attempt \union {None}]
      /\ settling'.of # None => settling'.seen # None
      /\ InHand' \subseteq InHand /\ InHand \subseteq Mandates \X Nat
  <2>1. CASE UNCHANGED settling
    BY <2>1 DEF SettlingOK, InHand
  <2>2. CASE TurnOver
    BY <2>2, TurnOverIs DEF SettlingOK, InHand
  <2>3. CASE settling' = NoSettlement
    BY <2>3 DEF SettlingOK, InHand, NoSettlement
  <2>. QED  BY <2>1, <2>2, <2>3 DEF SettlingGoesOn
<1>2. ASSUME NEW x \in InHand', Exists(x[1])' PROVE x[2] \in DOMAIN book'[x[1]].attempts
  <2>1. x[1] \in Mandates /\ x \in InHand
    BY <1>1
  <2>. QED  BY <1>2, <2>1 DEF SettlingOK, AttemptsKept
<1>. QED  BY <1>1, <1>2 DEF SettlingOK

\* What another actor's step keeps of the scenario, or before it was begun.
LEMMA SeedStays ==
  ASSUME RunInv, BookInv, [DevNext]_devVars, UNCHANGED seed,
         \A m \in Mandates : Exists(m)' => Exists(m),
         Exists(Demo)' /\ seed.pc = "seeding" =>
           \A s, k : Playing(s, k) =>
             /\ PlanMade(s, k) => Left(book[Demo], book'[Demo])
             /\ ~PlanMade(s, k) => UNCHANGED book[Demo]
  PROVE  SeedOK'
<1>1. CASE seed.pc = "unused"
  <2>1. ~Exists(Demo)
    BY <1>1 DEF RunInv, UnusedDemo
  <2>2. ASSUME NEW x \in InHand' PROVE x[1] # Demo
    <3>1. x \in InHand \/ x \in Listed
      BY <2>2, SettlingTakes DEF BookInv
    <3>. QED  BY <1>1, <2>1, <3>1, ListedIs DEF BookInv, BooksOfJob, SeedOK
  <2>. QED  BY <1>1, <2>2 DEF BookInv, SeedOK
<1>2. CASE seed.pc = "seeding"
  <2>1. PICK s, k : Playing(s, k)
    BY <1>2 DEF BookInv, SeedOK
  <2>2. Playing(s, k)'
    BY <1>2, <2>1, DemoStaysAlone, DevAssumption DEF BookInv
  <2>. QED  BY <1>2, <2>2 DEF BookInv, SeedOK
<1>3. CASE seed.pc \notin {"unused", "seeding"}
  BY <1>3 DEF BookInv, SeedOK
<1>. QED  BY <1>1, <1>2, <1>3

\* A step that leaves the books and the scenario as they are.
LEMMA NobodyKeeps ==
  ASSUME RunInv, BookInv, [DevNext]_devVars, UNCHANGED <<book, seed>>, BooksOfJob',
         SettlingGoesOn
  PROVE  BookInv'
<1>1. \A m \in Mandates : Exists(m) => Sound(book[m])
  BY DEF BookInv, BooksOfJob, BooksSound
<1>2. \A m \in Mandates : Exists(m)' => Exists(m) /\ AttemptsKept(book[m], book'[m])
  BY <1>1, SameIsGentle DEF Exists, AttemptsKept, Kept
<1>3. SettlingOK'
  BY <1>2, LeftKeeps DEF BookInv
<1>4. Exists(Demo)' => Left(book[Demo], book'[Demo])
  BY <1>1, SameIsLeft, DevAssumption DEF Exists
<1>5. SeedOK'
  BY <1>2, <1>4, SeedStays
<1>. QED  BY <1>3, <1>5 DEF BookInv

LEMMA BatchStepKeeps ==
  ASSUME RunInv, BookInv, [DevNext]_devVars, UNCHANGED <<settling, seed>>,
         BatchStep \/ StepFails \/ Unrecorded
  PROVE  BookInv'
<1>1. BooksOfJob'
  BY BatchKeepsBooks DEF BookInv
<1>2. ~SeedRegister \/ UNCHANGED book
  <2>. SUFFICES ASSUME SeedRegister PROVE UNCHANGED book
    OBVIOUS
  <2>1. seed.pc = "unused" /\ seed'.pc = "seeding"
    <3>1. PICK scenario \in Scenarios :
            seed' = [seed EXCEPT !.pc = "seeding", !.script = Script[scenario]]
      BY DEF SeedRegister
    <3>. QED  BY <3>1 DEF SeedRegister, RunInv, RecordKinds
  <2>. QED  BY <2>1
<1>3. \A m \in Mandates : Exists(m)' => Exists(m)
  BY <1>2, NothingAppears DEF Exists
<1>4. /\ \A m \in Mandates : m # job.of => UNCHANGED book[m]
      /\ job.of \in Mandates /\ Exists(job.of) => Left(book[job.of], book'[job.of])
  BY JobLeaves DEF BookInv
<1>5. \A m \in Mandates : Exists(m) => Left(book[m], book[m])
  BY SameIsLeft DEF BookInv, BooksOfJob, BooksSound
<1>6. \A m \in Mandates : Exists(m)' => Exists(m) /\ Left(book[m], book'[m])
  BY <1>3, <1>4, <1>5
<1>7. SettlingOK'
  BY <1>6, LeftKeeps DEF BookInv, SettlingGoesOn, Left, Kept, AttemptsKept
<1>8. SeedOK'
  <2>1. ASSUME NEW s, NEW k, Playing(s, k), ~PlanMade(s, k) PROVE UNCHANGED book[Demo]
    BY <1>4, <2>1, DevAssumption DEF Playing, DemoAt, DemoAlone
  <2>. QED  BY <1>3, <1>6, <2>1, SeedStays, DevAssumption
<1>. QED  BY <1>1, <1>7, <1>8 DEF BookInv

\* A settled attempt of the scenario's mandate: its plan may change its status and nothing else.
LEMMA SettleKeepsPlaying ==
  ASSUME RunInv, BookInv, Settle, [DevNext]_devVars, NEW s, NEW k, Playing(s, k)
  PROVE  Playing(s, k)'
<1>1. PICK m \in Mandates, i \in Nat :
        LET b == book[m] c == book'[m] seen == settling.seen IN
        /\ settling.of = <<m, i>> /\ seen \in Attempt
        /\ Exists(m) /\ c # None /\ i \in DOMAIN b.attempts /\ Sound(b)
        /\ \/ c = Paid(b, i, seen)
           \/ /\ MayFail(seen)
              /\ \E category \in DeclineCategory : c = Declined(b, i, seen, category)
        /\ book' = [book EXCEPT ![m] = c]
  BY SettleIs DEF BookInv, BooksOfJob
<1>2. UNCHANGED <<job, seed>> /\ \A x \in Mandates : x # m => book'[x] = book[x]
  BY <1>1 DEF Settle, RunInv, RecordKinds
<1>3. /\ WellMade(s) /\ k \in 1..Len(s) /\ seed.script = Rest(s, k) /\ DemoAlone(s, k)
      /\ Exists(Demo) => DemoBook(s, k, book[Demo], seed.attempt)
  BY DEF Playing, DemoAt
<1>4. CASE m # Demo
  <2>1. UNCHANGED book[Demo]
    BY <1>2, <1>4, DevAssumption
  <2>2. Exists(Demo) /\ Sound(book[Demo]) => Left(book[Demo], book'[Demo])
    BY <2>1, SameIsLeft
  <2>. QED  BY <1>2, <2>1, <2>2, DemoStaysAlone, DevAssumption
            DEF BookInv, BooksOfJob, BooksSound, Exists
<1>5. CASE m = Demo
  <2> DEFINE b == book[Demo]
             c == book'[Demo]
             seen == settling.seen
  <2>1. /\ Exists(Demo) /\ i \in DOMAIN b.attempts /\ Sound(b) /\ seen \in Attempt
        /\ \/ c = Paid(b, i, seen)
           \/ \E category \in DeclineCategory : c = Declined(b, i, seen, category)
    BY <1>1, <1>5
  <2>2. /\ DemoBook(s, k, b, seed.attempt)
        /\ b.plan \in PlanRow \union {None} /\ (b.plan # None => WithinMax(b.plan))
    BY <1>3, <2>1, BookColumns DEF Sound
  <2>3. /\ Kept(b, c) /\ c.open = b.open
        /\ ~PlanMade(s, k) /\ c.plan # None => c.plan.count = 0 /\ c.plan.time = "later"
    <3>1. CASE c = Paid(b, i, seen)
      BY <2>1, <2>2, <3>1, PaidIs DEF DemoBook, Gentle
    <3>2. CASE \E category \in DeclineCategory : c = Declined(b, i, seen, category)
      <4>1. Gentle(b, c) /\ c.open = b.open /\ c.plan = Pursued(b.plan)
        BY <2>1, <3>2, DeclinedIs
      <4>. QED  BY <2>2, <4>1, PursuedIs DEF DemoBook, Gentle
    <3>. QED  BY <2>1, <3>1, <3>2
  <2>4. PlanMade(s, k) => b.plan # None
    BY <1>3, <2>2 DEF WellMade, WellMadeAt, PlanMade, SoftDone, DemoBook
  <2>5. DemoBook(s, k, c, seed.attempt)
    <3> HIDE DEF b, c
    <3>. QED  BY <2>2, <2>3, <2>4 DEF DemoBook, Kept
  <2>. QED  BY <1>2, <1>3, <2>5 DEF Playing, DemoAt, DemoAlone
<1>. QED  BY <1>4, <1>5

\* An attempt that is taken up is one there is, with its row.
LEMMA TakenIs ==
  ASSUME BooksSound, NEW rest \in SUBSET (Mandates \X Nat), NEW x \in Mandates \X Nat,
         UNCHANGED book, settling' = [todo |-> rest, of |-> x, seen |-> RowOf(x)],
         \A y \in rest \union {x} : Exists(y[1]) => y[2] \in DOMAIN book[y[1]].attempts,
         Exists(x[1])
  PROVE  SettlingOK'
<1>1. x[1] \in Mandates /\ x[2] \in DOMAIN book[x[1]].attempts
  OBVIOUS
<1>2. RowOf(x) \in Attempt /\ RowOf(x) # None
  BY <1>1, BookColumns, NoneIsNoBook DEF BooksSound, Sound, RowOf
<1>3. settling'.todo = rest /\ settling'.of = x /\ settling'.seen = RowOf(x)
  OBVIOUS
<1>4. settling' \in [todo: SUBSET (Mandates \X Nat), of: (Mandates \X Nat) \union {None},
                     seen: Attempt \union {None}]
  BY <1>2
<1>5. InHand' \subseteq rest \union {x}
  BY <1>3 DEF InHand
<1>. QED  BY <1>2, <1>3, <1>4, <1>5 DEF SettlingOK, Exists

LEMMA SettlementKeeps ==
  ASSUME RunInv, BookInv, [DevNext]_devVars,
         SettlementTick \/ TakeAttempt \/ Settle \/ NotSettled \/ SettlementAborts
  PROVE  BookInv'
<1>1. CASE NotSettled \/ SettlementAborts
  <2>1. UNCHANGED <<book, job, seed>> /\ SettlingGoesOn
    BY <1>1 DEF NotSettled, SettlementAborts, SettlingGoesOn
  <2>2. BooksOfJob'
    BY <2>1, NobodyKeepsBooks DEF BookInv
  <2>. QED  BY <2>1, <2>2, NobodyKeeps
<1>2. CASE SettlementTick \/ TakeAttempt
  <2>1. UNCHANGED <<book, job, seed>>
    BY <1>2 DEF SettlementTick, TakeAttempt, batchVars
  <2>2. BooksOfJob'
    BY <2>1, NobodyKeepsBooks DEF BookInv
  <2>3. SettlingOK'
    <3>1. CASE SettlementTick
      <4>1. PICK x \in Listed : settling' = [todo |-> Listed \ {x}, of |-> x, seen |-> RowOf(x)]
        BY <3>1 DEF SettlementTick
      <4>2. \A y \in Listed : /\ y \in Mandates \X Nat /\ Exists(y[1])
                             /\ y[2] \in DOMAIN book[y[1]].attempts
        BY ListedIs DEF BookInv, BooksOfJob
      <4>. QED  BY <2>1, <4>1, <4>2, TakenIs DEF BookInv, BooksOfJob
    <3>2. CASE TakeAttempt
      <4>1. PICK x \in settling.todo :
              /\ Exists(x[1])
              /\ settling' = [todo |-> settling.todo \ {x}, of |-> x, seen |-> RowOf(x)]
        BY <3>2 DEF TakeAttempt
      <4>2. settling.todo \subseteq Mandates \X Nat /\ settling.todo \subseteq InHand
        BY DEF BookInv, SettlingOK, InHand
      <4>3. \A y \in settling.todo : Exists(y[1]) => y[2] \in DOMAIN book[y[1]].attempts
        BY <4>2 DEF BookInv, SettlingOK
      <4>. QED  BY <2>1, <4>1, <4>2, <4>3, TakenIs DEF BookInv, BooksOfJob
    <3>. QED  BY <1>2, <3>1, <3>2
  <2>4. \A m \in Mandates : Exists(m) => Sound(book[m])
    BY DEF BookInv, BooksOfJob, BooksSound
  <2>5. \A m \in Mandates : Exists(m)' => Exists(m) /\ Left(book[m], book'[m])
    BY <2>1, <2>4, SameIsLeft DEF Exists
  <2>6. SeedOK'
    BY <2>1, <2>5, SeedStays, DevAssumption
  <2>. QED  BY <2>2, <2>3, <2>6 DEF BookInv
<1>3. CASE Settle
  <2>1. BooksOfJob' /\ SettlingOK'
    BY <1>3, SettleKeepsBooks DEF BookInv
  <2>2. SeedOK'
    <3>1. UNCHANGED seed /\ InHand' \subseteq InHand
      BY <1>3, TurnOverIs DEF Settle, BookInv
    <3>2. ASSUME NEW s, NEW k, Playing(s, k) PROVE Playing(s, k)'
      BY <1>3, <3>2, SettleKeepsPlaying
    <3>. QED  BY <3>1, <3>2 DEF BookInv, SeedOK
  <2>. QED  BY <2>1, <2>2 DEF BookInv
<1>. QED  BY <1>1, <1>2, <1>3

-----------------------------------------------------------------------------
(* The scenario's own steps *)

\* Only the demonstration mandate's book changes: no run has begun with it, or it is kept.
LEMMA DemoChanges ==
  ASSUME RunInv, BooksOfJob, UNCHANGED job, NEW c, book' = [book EXCEPT ![Demo] = c],
         c # None => Sound(c),
         c # None => \/ Exists(Demo) /\ Kept(book[Demo], c)
                     \/ Demo \notin job.todo /\ job.of # Demo
  PROVE  /\ BooksOfJob' /\ book'[Demo] = c
         /\ \A m \in Mandates : m # Demo => UNCHANGED book[m]
         /\ \A m \in Mandates : m # Demo /\ Exists(m) => AttemptsKept(book[m], book'[m])
<1>1. BooksSound' /\ book'[Demo] = c /\ \A m \in Mandates : m # Demo => book'[m] = book[m]
  BY OneBookChanges, DevAssumption DEF BooksOfJob
<1>2. \A m \in Mandates : Exists(m) => Kept(book[m], book[m]) /\ Gentle(book[m], book[m])
  BY SameIsGentle DEF BooksOfJob, BooksSound
<1>3. ASSUME NEW m \in Mandates, Exists(m)'
      PROVE  \/ /\ Exists(m) /\ Kept(book[m], book'[m])
                /\ m # Demo => Gentle(book[m], book'[m])
             \/ m \notin job.todo /\ m # job.of
  <2>1. CASE m = Demo
    BY <1>1, <1>3, <2>1 DEF Exists
  <2>2. CASE m # Demo
    BY <1>1, <1>2, <1>3, <2>2 DEF Exists
  <2>. QED  BY <2>1, <2>2
<1>4. BatchHasPlans' /\ ContextTrue'
  BY <1>3, GentleKeepsBatch DEF BooksOfJob
<1>. QED  BY <1>1, <1>2, <1>4 DEF BooksOfJob, Kept, AttemptsKept

LEMMA RegisterKeeps ==
  ASSUME RunInv, BookInv, SeedRegister
  PROVE  BookInv'
<1>1. PICK scenario \in Scenarios :
        seed' = [seed EXCEPT !.pc = "seeding", !.script = Script[scenario]]
  BY DEF SeedRegister
<1> DEFINE s == Script[scenario]
<1>2. /\ UNCHANGED <<job, settling>> /\ seed'.script = s /\ seed'.pc = "seeding"
      /\ seed'.seen = seed.seen
      /\ book' = [book EXCEPT ![Demo] = NewBook]
      /\ seed.pc = "unused"
  BY <1>1 DEF SeedRegister, RunInv, RecordKinds, SeedShape
<1>3. /\ ~Exists(Demo) /\ Demo \notin job.todo /\ job.of # Demo
      /\ \A x \in InHand : x[1] # Demo
  BY <1>2 DEF RunInv, UnusedDemo, BookInv, SeedOK
<1>4. /\ BooksOfJob' /\ book'[Demo] = NewBook
      /\ \A m \in Mandates : m # Demo => UNCHANGED book[m]
      /\ \A m \in Mandates : m # Demo /\ Exists(m) => AttemptsKept(book[m], book'[m])
  BY <1>2, <1>3, NewBookIs, DemoChanges DEF BookInv
<1>6. SettlingOK'
  <2>1. InHand' = InHand /\ InHand \subseteq Mandates \X Nat
    BY <1>2 DEF BookInv, SettlingOK, InHand
  <2>. QED  BY <1>2, <1>3, <1>4, <2>1 DEF BookInv, SettlingOK, Exists
<1>7. Playing(s, 1)'
  <2>1. WellMade(s)
    BY ScriptsWellMade
  <2> HIDE DEF s
  <2>2. 1 \in 1..Len(s) /\ Rest(s, 1) = s
    BY <2>1, LenProperties, SubSeqFull DEF WellMade, Rest
  <2>3. ~Last(s, 1, "record") /\ ~Last(s, 1, "escalate")
        /\ ~SoftDone(s, 1) /\ ~PlanMade(s, 1)
    BY DEF Last, SoftDone, PlanMade
  <2>4. DemoBook(s, 1, book'[Demo], seed'.attempt)
    BY <1>4, <2>3, NewBookIs DEF DemoBook
  <2>5. DemoAlone(s, 1)'
    BY <1>2, <1>3 DEF DemoAlone
  <2>. QED  BY <1>2, <2>1, <2>2, <2>4, <2>5 DEF Playing, DemoAt
<1>8. SeedOK'
  BY <1>2, <1>7 DEF BookInv, SeedOK
<1>. QED  BY <1>4, <1>6, <1>8 DEF BookInv

\* A scenario goes on behind its k-th step, or is over.
LEMMA ScriptMovesOn ==
  ASSUME RunInv, seed.pc = "seeding", NEW s, NEW k, Playing(s, k)
  PROVE  /\ Head(seed.script) = s[k] /\ seed.script # <<>>
         /\ AfterScript = [pc |-> AfterScript.pc, script |-> AfterScript.script,
                           attempt |-> AfterScript.attempt, seen |-> None]
         /\ \/ AfterScript.pc = "over"
            \/ /\ AfterScript.pc = "seeding" /\ k + 1 \in 1..Len(s)
               /\ AfterScript.script = Rest(s, k + 1) /\ AfterScript.attempt = seed.attempt
<1>1. /\ WellMade(s) /\ k \in 1..Len(s) /\ seed.script = Rest(s, k)
      /\ SeedShape /\ Len(s) \in Nat
  BY LenProperties DEF Playing, RunInv, RecordKinds, WellMade
<1>2. Head(seed.script) = s[k] /\ seed.script # <<>>
  BY <1>1, RestIs
<1>3. CASE Len(seed.script) = 1
  BY <1>2, <1>3 DEF AfterScript, Over
<1>4. CASE Len(seed.script) # 1
  <2>1. k + 1 \in 1..Len(s) /\ Tail(seed.script) = Rest(s, k + 1)
    <3>1. k < Len(s)
      BY <1>1, <1>4, RestIs
    <3>. QED  BY <1>1, <3>1, RestIs
  <2>2. AfterScript = [seed EXCEPT !.script = Tail(seed.script), !.seen = None]
    BY <1>4 DEF AfterScript
  <2>. QED  BY <1>1, <1>2, <2>1, <2>2 DEF SeedShape
<1>. QED  BY <1>3, <1>4

\* What the next step may rely on of the retry job.
LEMMA DemoAloneNext ==
  ASSUME NEW s, NEW k, Playing(s, k), UNCHANGED job
  PROVE  DemoAlone(s, k + 1)'
<1>1. DemoAlone(s, k) /\ k \in Nat \ {0}
  BY DEF Playing, DemoAt
<1>. QED  BY <1>1, OneMoreDone DEF DemoAlone

LEMMA SeedStepKeeps ==
  ASSUME RunInv, BookInv, SeedStep
  PROVE  BookInv'
<1>1. PICK s, k : Playing(s, k)
  BY DEF SeedStep, SeedReady, BookInv, SeedOK
<1>2. PICK after \in SeedResults : book' = [book EXCEPT ![Demo] = after]
  BY DEF SeedStep
<1>3. /\ seed.pc = "seeding" /\ Exists(Demo) /\ UNCHANGED <<job, settling>>
      /\ seed' = IF Head(seed.script) = "record"
                 THEN [AfterScript EXCEPT !.attempt = Len(book'[Demo].attempts)] ELSE AfterScript
      /\ Head(seed.script) \in Outcomes => seed.seen \in Attempt
  BY DEF SeedStep, SeedReady, BookInv, SeedOK
<1> DEFINE b == book[Demo]
           i == seed.attempt
           rest == AfterScript
<1>4. /\ Head(seed.script) = s[k] /\ seed.script # <<>>
      /\ rest = [pc |-> rest.pc, script |-> rest.script, attempt |-> rest.attempt, seen |-> None]
      /\ \/ rest.pc = "over"
         \/ /\ rest.pc = "seeding" /\ k + 1 \in 1..Len(s)
            /\ rest.script = Rest(s, k + 1) /\ rest.attempt = i
  BY <1>1, <1>3, ScriptMovesOn
<1>5. /\ WellMade(s) /\ k \in 1..Len(s) /\ DemoAt(s, k) /\ DemoBook(s, k, b, i) /\ Sound(b)
  BY <1>1, <1>3, DevAssumption DEF Playing, DemoAt, BookInv, BooksOfJob, BooksSound
<1>6. Made(s, k, b, after) /\ DemoBook(s, k + 1, after, Latest(s[k], after, i))
  <2>1. after \in AfterStep(s[k], b, i, seed.seen)
    BY <1>2, <1>4 DEF SeedResults
  <2>. QED  BY <1>3, <1>4, <1>5, <2>1, StepMakes
<1>7. Sound(after) /\ after # None
  BY <1>6, BookColumns DEF Made, Sound
<1>8. Kept(b, after) \/ (Demo \notin job.todo /\ job.of # Demo)
  BY <1>5, <1>6 DEF Made, DemoAt, DemoAlone
<1>9. /\ BooksOfJob' /\ book'[Demo] = after
      /\ \A m \in Mandates : m # Demo => UNCHANGED book[m]
      /\ \A m \in Mandates : m # Demo /\ Exists(m) => AttemptsKept(book[m], book'[m])
  BY <1>2, <1>3, <1>7, <1>8, DemoChanges DEF BookInv
<1>11. SettlingOK'
  BY <1>2, <1>3, <1>6, GentleChangeKeepsSettling, DevAssumption
     DEF BookInv, Made, AttemptsKept
<1> HIDE DEF rest
<1>12. /\ seed'.pc = rest.pc /\ seed'.script = rest.script /\ seed'.seen = None
       /\ seed'.attempt = IF s[k] = "record" THEN Len(after.attempts) ELSE rest.attempt
  BY <1>3, <1>4, <1>9 DEF rest
<1>13. CASE rest.pc = "over"
  BY <1>9, <1>11, <1>12, <1>13 DEF BookInv, SeedOK
<1>14. CASE rest.pc # "over"
  <2>1. seed'.pc = "seeding" /\ k + 1 \in 1..Len(s) /\ seed'.script = Rest(s, k + 1)
        /\ seed'.attempt = Latest(s[k], after, i)
    BY <1>4, <1>12, <1>14 DEF Latest
  <2>2. DemoAlone(s, k + 1)'
    BY <1>1, <1>3, DemoAloneNext
  <2>3. Playing(s, k + 1)'
    BY <1>5, <1>6, <1>9, <2>1, <2>2 DEF Playing, DemoAt
  <2>4. SeedOK'
    BY <1>12, <2>1, <2>3 DEF SeedOK
  <2>. QED  BY <1>9, <1>11, <2>4 DEF BookInv
<1>. QED  BY <1>13, <1>14

\* Its attempt is read again before its outcome is reported.
LEMMA SeedLooksKeeps ==
  ASSUME RunInv, BookInv, SeedLooks
  PROVE  BookInv'
<1>1. UNCHANGED <<book, job, settling>> /\ seed.pc = "seeding" /\ Exists(Demo)
  BY DEF SeedLooks, batchVars
<1>2. seed' = [seed EXCEPT !.seen = RowOf(<<Demo, seed.attempt>>)] /\ SeedShape
  BY DEF SeedLooks, RunInv, RecordKinds
<1>3. /\ seed'.pc = seed.pc /\ seed'.script = seed.script /\ seed'.attempt = seed.attempt
      /\ seed'.seen = book[Demo].attempts[seed.attempt]
  BY <1>2 DEF SeedShape, RowOf
<1>4. PICK s, k : Playing(s, k)
  BY <1>1 DEF BookInv, SeedOK
<1>5. seed.attempt \in DOMAIN book[Demo].attempts
  <2>1. Head(seed.script) = s[k] /\ s[k] \in Outcomes
    BY <1>1, <1>4, ScriptMovesOn DEF SeedLooks
  <2>. QED  BY <1>1, <1>4, <2>1 DEF Playing, WellMade, WellMadeAt, DemoAt, DemoBook, Outcomes
<1>6. seed'.seen \in Attempt
  BY <1>1, <1>3, <1>5, BookColumns, DevAssumption DEF BookInv, BooksOfJob, BooksSound, Sound
<1>7. Playing(s, k)'
  BY <1>1, <1>3, <1>4 DEF Playing, DemoAt, DemoAlone, Exists
<1>8. BooksOfJob'
  BY <1>1, NobodyKeepsBooks DEF BookInv
<1>9. SettlingOK'
  BY <1>1 DEF BookInv, SettlingOK, InHand, Exists
<1>. QED  BY <1>1, <1>3, <1>6, <1>7, <1>8, <1>9 DEF BookInv, SeedOK

LEMMA SeedMisstepKeeps ==
  ASSUME RunInv, BookInv, SeedStepVoid \/ SeedAborts
  PROVE  BookInv'
<1>1. UNCHANGED <<book, job, settling>> /\ seed.pc = "seeding"
  BY DEF SeedStepVoid, SeedAborts, batchVars
<1>2. BooksOfJob'
  BY <1>1, NobodyKeepsBooks DEF BookInv
<1>4. SettlingOK'
  BY <1>1 DEF BookInv, SettlingOK, InHand, Exists
<1>5. CASE seed' = Over
  BY <1>2, <1>4, <1>5 DEF BookInv, SeedOK, Over
<1>6. CASE SeedStepVoid
  <2>1. PICK s, k : Playing(s, k)
    BY <1>1 DEF BookInv, SeedOK
  <2>2. ~Exists(Demo) /\ ~Exists(Demo)' /\ seed' = AfterScript
    BY <1>1, <1>6 DEF SeedStepVoid, Exists
  <2>3. \/ AfterScript.pc = "over"
        \/ /\ AfterScript.pc = "seeding" /\ k + 1 \in 1..Len(s)
           /\ AfterScript.script = Rest(s, k + 1)
    BY <1>1, <2>1, ScriptMovesOn
  <2>6. AfterScript.seen = None
    <3>1. AfterScript = [pc |-> AfterScript.pc, script |-> AfterScript.script,
                         attempt |-> AfterScript.attempt, seen |-> None]
      BY <1>1, <2>1, ScriptMovesOn
    <3>. QED  BY <3>1
  <2>4. CASE AfterScript.pc = "over"
    BY <1>2, <1>4, <2>2, <2>4, <2>6 DEF BookInv, SeedOK
  <2>5. CASE AfterScript.pc # "over"
    <3>1. DemoAlone(s, k + 1)'
      BY <1>1, <2>1, DemoAloneNext
    <3>2. Playing(s, k + 1)'
      BY <2>1, <2>2, <2>3, <2>5, <3>1 DEF Playing, DemoAt
    <3>3. SeedOK'
      BY <2>2, <2>3, <2>5, <2>6, <3>2 DEF SeedOK
    <3>. QED  BY <1>2, <1>4, <3>3 DEF BookInv
  <2>. QED  BY <2>4, <2>5
<1>. QED  BY <1>5, <1>6 DEF SeedAborts

LEMMA DeleteKeeps ==
  ASSUME RunInv, BookInv, [DevNext]_devVars, DeleteSeedData
  PROVE  BookInv'
<1>1. UNCHANGED <<job, settling, seed>> /\ book' = [book EXCEPT ![Demo] = None]
  BY DEF DeleteSeedData, Deleted
<1>2. /\ BooksOfJob' /\ ~Exists(Demo)'
      /\ \A m \in Mandates : m # Demo => UNCHANGED book[m]
      /\ \A m \in Mandates : m # Demo /\ Exists(m) => AttemptsKept(book[m], book'[m])
  BY <1>1, DemoChanges DEF BookInv, Exists
<1>3. \A m \in Mandates : Exists(m)' => Exists(m) /\ AttemptsKept(book[m], book'[m])
  BY <1>2 DEF Exists
<1>4. SettlingOK'
  BY <1>1, <1>3, LeftKeeps DEF BookInv, SettlingGoesOn
<1>5. SeedOK'
  BY <1>1, <1>2, <1>3, SeedStays
<1>. QED  BY <1>2, <1>4, <1>5 DEF BookInv

LEMMA TimeKeeps ==
  ASSUME RunInv, BookInv, [DevNext]_devVars, TimePasses
  PROVE  BookInv'
<1>1. PICK m \in Mandates : ComesDue(m)
  BY DEF TimePasses
<1>2. UNCHANGED <<job, settling, seed>> /\ seed.pc # "seeding"
  BY DEF TimePasses
<1>3. PICK c : /\ Exists(m) /\ book' = [book EXCEPT ![m] = c]
               /\ Sound(c) /\ Gentle(book[m], c) /\ (Counted(book[m]) => Counted(c))
  BY <1>1, ComesDueIs DEF BookInv, BooksOfJob
<1>4. BooksOfJob' /\ book'[m] = c /\ \A x \in Mandates : x # m => book'[x] = book[x]
  BY <1>2, <1>3, GentleChangeKeepsBooks DEF BookInv
<1>5. \A x \in Mandates : Exists(x) => AttemptsKept(book[x], book[x])
  BY SameIsGentle DEF BookInv, BooksOfJob, BooksSound, Kept, AttemptsKept
<1>6. \A x \in Mandates : Exists(x)' => Exists(x) /\ AttemptsKept(book[x], book'[x])
  BY <1>3, <1>4, <1>5 DEF Gentle, Kept, AttemptsKept, Exists
<1>7. SettlingOK'
  BY <1>2, <1>6, LeftKeeps DEF BookInv, SettlingGoesOn
<1>8. SeedOK'
  BY <1>2, <1>6, SeedStays
<1>. QED  BY <1>4, <1>7, <1>8 DEF BookInv

LEMMA NoSettlementIs ==
  ASSUME settling' = NoSettlement
  PROVE  InHand' = {}
BY DEF InHand, NoSettlement

LEMMA KillKeeps ==
  ASSUME RunInv, BookInv, KillAll
  PROVE  BookInv'
<1>1. /\ UNCHANGED book /\ job' = NoJob /\ settling' = NoSettlement
      /\ seed' = IF seed.pc = "seeding" THEN Over ELSE seed
  BY DEF KillAll, Kill
<1>2. BooksOfJob'
  BY <1>1, NoJobFits, BetweenRuns DEF BookInv
<1>3. \A m \in Mandates : Exists(m) => AttemptsKept(book[m], book[m])
  BY SameIsGentle DEF BookInv, BooksOfJob, BooksSound, Kept, AttemptsKept
<1>4. SettlingOK'
  BY <1>1, <1>3, LeftKeeps DEF BookInv, SettlingGoesOn, Exists
<1>5. SeedOK'
  BY <1>1, NoSettlementIs DEF BookInv, SeedOK, Over
<1>. QED  BY <1>2, <1>4, <1>5 DEF BookInv

-----------------------------------------------------------------------------
(* Every step *)

LEMMA StepKeepsBooks ==
  ASSUME RunInv, BookInv, [DevNext]_devVars
  PROVE  BookInv'
<1>1. CASE Restart \/ Alone(Shutdown) \/ UNCHANGED devVars
  <2>1. UNCHANGED <<book, job, seed, settling>>
    BY <1>1 DEF Restart, Alone, Startup, Shutdown, devVars, batchVars
  <2>2. BooksOfJob'
    BY <2>1, NobodyKeepsBooks DEF BookInv
  <2>. QED  BY <2>1, <2>2, NobodyKeeps DEF SettlingGoesOn
<1>2. CASE Alone(Tick)
  <2>1. UNCHANGED <<book, seed, settling>> /\ BooksOfJob'
    BY <1>2, TickKeepsBooks DEF Alone, Tick, BookInv
  <2>. QED  BY <2>1, NobodyKeeps DEF SettlingGoesOn
<1>3. CASE Alone(BatchStep) \/ Alone(StepFails) \/ Alone(FailureFailsAgain)
  BY <1>3, BatchStepKeeps DEF Alone, FailureFailsAgain
<1>. QED
  BY <1>1, <1>2, <1>3, KillKeeps, SettlementKeeps, RegisterKeeps, SeedLooksKeeps, SeedStepKeeps,
     SeedMisstepKeeps, DeleteKeeps, TimeKeeps DEF DevNext

LEMMA InitBooks ==
  ASSUME DevInit
  PROVE  BookInv
<1>1. /\ job.pc = "idle" /\ job.of = None /\ job.todo = {} /\ settling = NoSettlement
      /\ seed.pc = "unused" /\ seed.seen = None
  BY NoJobFits DEF DevInit, BatchInit
<1>2. Sound(Overdue) /\ Counted(Overdue)
  <2> DEFINE row == [status |-> "failed", category |-> "insufficient_funds"]
             plan == [status |-> "pending", count |-> 0, max |-> DefaultMaxRetries,
                      time |-> "due"]
             b == [mandate |-> "active", attempts |-> <<row>>, plan |-> plan, open |-> 0]
  <2>1. [Pursued(None) EXCEPT !.time = "due"] = plan
    BY DEF Pursued
  <2>2. row \in Attempt
    BY DEF Attempt, PaymentStatus, DeclineCategory
  <2>3. plan \in PlanRow /\ plan # None /\ WithinMax(plan) /\ plan.status = "pending"
        /\ plan.count = 0 /\ plan.max = DefaultMaxRetries
    BY BooksAssumption, NoneIsNoRow DEF PlanRow, RetryStatus, PlanTime, WithinMax
  <2> HIDE DEF row, plan
  <2>4. b \in Book /\ b.plan = plan
    BY <2>2, <2>3 DEF Book, MandateStatus
  <2>5. Overdue = b
    <3>1. Overdue = [NewBook EXCEPT !.attempts = <<row>>, !.plan = plan]
      BY <2>1 DEF Overdue, row
    <3>. QED  BY <3>1 DEF NewBook
  <2> HIDE DEF b
  <2>6. Sound(b) /\ Counted(b)
    BY <2>3, <2>4, BooksAssumption DEF Sound, Counted
  <2>. QED  BY <2>5, <2>6
<1>3. BooksSound
  BY <1>2 DEF DevInit, BooksSound, Exists
<1>4. BatchHasPlans /\ ContextTrue
  BY <1>1, NoneIsNoRun DEF BatchHasPlans, ContextTrue, Relying
<1>5. SettlingOK /\ SeedOK
  BY <1>1 DEF SettlingOK, SeedOK, InHand, NoSettlement
<1>. QED  BY <1>3, <1>4, <1>5 DEF BookInv, BooksOfJob

\* The books stay sound, the retry job's context true of them, and the scenario's half-made
\* mandate what its next step presumes, whatever the jobs and requests do between the steps.
THEOREM BookInvariant == DevSpec => []BookInv
<1>1. DevInit => BookInv
  BY InitBooks
<1>2. RunInv /\ BookInv /\ [DevNext]_devVars => BookInv'
  BY StepKeepsBooks
<1>. QED  BY <1>1, <1>2, RunInvariant, PTL DEF DevSpec

-----------------------------------------------------------------------------
(* What the books say of the real mandates, whose rows nobody but the jobs writes *)

PaidOnce(b) == \E i \in DOMAIN b.attempts : b.attempts[i].status = "succeeded"

Honest(b) == b.plan # None /\ b.plan.status = "executed" => PaidOnce(b)

\* What a step that settles no attempt makes of a book.
Tame(b, c) ==
  /\ DOMAIN b.attempts \subseteq DOMAIN c.attempts
  /\ \A i \in DOMAIN b.attempts : c.attempts[i] = b.attempts[i]
  /\ Closed(b.plan) => Closed(c.plan)
  /\ Honest(b) => Honest(c)

\* What the settlement of attempt i makes of it.
Resolves(b, c, i) ==
  /\ i \in DOMAIN b.attempts /\ b.attempts[i].status \in Unresolved
  /\ DOMAIN c.attempts = DOMAIN b.attempts
  /\ \A j \in DOMAIN b.attempts : j # i => c.attempts[j] = b.attempts[j]
  /\ Closed(b.plan) /\ ~Closed(c.plan) => c.attempts[i].status = "failed"
  /\ Honest(c)

\* An executed plan has a paid attempt; a run that read a paid attempt may rely on it; and
\* until its turn is over nobody resolves an attempt the settlement job has listed, so the
\* copy it decides on is the row.
HonestInv ==
  /\ \A m \in Mandates \ {Demo} : Exists(m) => Honest(book[m])
  /\ /\ job.pc \in Relying /\ job.of # Demo /\ Exists(job.of)
     /\ job.ctx.attempt # None /\ job.ctx.attempt.status = "succeeded"
     => PaidOnce(book[job.of])
  /\ \A x \in InHand : x[1] # Demo /\ Exists(x[1]) => RowOf(x).status \in Unresolved
  /\ settling.of # None =>
       /\ settling.of \notin settling.todo
       /\ settling.of[1] # Demo /\ Exists(settling.of[1]) => settling.seen = RowOf(settling.of)

LEMMA SameIsTame ==
  ASSUME NEW b
  PROVE  Tame(b, b)
BY DEF Tame

LEMMA PaidStaysPaid ==
  ASSUME NEW b, NEW c, Tame(b, c) \/ \E i : Resolves(b, c, i), PaidOnce(b)
  PROVE  PaidOnce(c)
<1>1. PICK j \in DOMAIN b.attempts : b.attempts[j].status = "succeeded"
  BY DEF PaidOnce
<1>2. CASE Tame(b, c)
  BY <1>1, <1>2 DEF Tame, PaidOnce
<1>3. ASSUME NEW i, Resolves(b, c, i) PROVE PaidOnce(c)
  BY <1>1, <1>3 DEF Resolves, Unresolved, PaidOnce
<1>. QED  BY <1>2, <1>3

\* A plan is closed for good, and as executed only where a payment is.
LEMMA PlannedIsTame ==
  ASSUME NEW b, Sound(b), b.plan # None, NEW edit \in PlanWrite,
         edit.status \in TerminalRetryStatus \union {None},
         edit.status = "executed" => PaidOnce(b)
  PROVE  Tame(b, Planned(b, edit))
<1> DEFINE c == Planned(b, edit)
<1>1. /\ c.attempts = b.attempts /\ c.plan # None
      /\ c.plan.status = Written(b.plan.status, edit.status)
  BY PlannedIs
<1> HIDE DEF c
<1>2. CASE edit.status = None
  BY <1>1, <1>2 DEF Written, Tame, Closed, Honest, PaidOnce, c
<1>3. CASE edit.status # None
  BY <1>1, <1>3 DEF Written, Tame, Closed, Honest, PaidOnce, c
<1>. QED  BY <1>2, <1>3

LEMMA RunIsTame ==
  ASSUME RunInv, BooksOfJob, HonestInv, BatchStep \/ StepFails \/ Unrecorded
  PROVE  \A m \in Mandates \ {Demo} : Exists(m)' => Exists(m) /\ Tame(book[m], book'[m])
<1> DEFINE d == job.of
           b == book[job.of]
<1>1. CASE UNCHANGED book
  BY <1>1, SameIsTame DEF Exists
<1>2. ASSUME d \in Mandates, Exists(d), NEW c, book' = [book EXCEPT ![d] = c],
             d # Demo => Tame(b, c)
      PROVE  \A m \in Mandates \ {Demo} : Exists(m)' => Exists(m) /\ Tame(book[m], book'[m])
  <2>1. book'[d] = c /\ \A m \in Mandates : m # d => book'[m] = book[m]
    BY <1>2 DEF RunInv, RecordKinds
  <2>. QED  BY <1>2, <2>1, SameIsTame DEF Exists
<1>3. CASE Escalate
  <2>1. d \in Mandates /\ Exists(d) /\ Sound(b) /\ book' = [book EXCEPT ![d] = Opened(b)]
    BY <1>3 DEF Escalate, At, RunInv, JobInv, BooksOfJob, BooksSound
  <2>2. Tame(b, Opened(b))
    BY <2>1, OpenedIs DEF Tame, Honest, PaidOnce
  <2>. QED  BY <1>2, <2>1, <2>2
<1>4. CASE BookAttempt
  <2>1. d \in Mandates /\ Exists(d) /\ Sound(b) /\ book' = [book EXCEPT ![d] = Recorded(b)]
    BY <1>4 DEF BookAttempt, At, RunInv, JobInv, BooksOfJob, BooksSound
  <2> DEFINE c == Recorded(b)
  <2>2. /\ DOMAIN b.attempts \subseteq DOMAIN c.attempts /\ c.plan = b.plan
        /\ \A i \in DOMAIN b.attempts : c.attempts[i] = b.attempts[i]
    BY <2>1, RecordedIs DEF Gentle, Kept
  <2> HIDE DEF c
  <2>3. Tame(b, c)
    BY <2>2 DEF Tame, Honest, PaidOnce
  <2>. QED  BY <1>2, <2>1, <2>3 DEF c
<1>5. CASE AdvancePlan
  <2> DEFINE edit == Advancement(job.ctx.plan)
             n == job.ctx.plan.count + 1
  <2>1. /\ d \in Mandates /\ Exists(d) /\ Sound(b) /\ b.plan # None
        /\ job.ctx.plan \in PlanRow /\ book' = [book EXCEPT ![d] = Planned(b, edit)]
    BY <1>5 DEF AdvancePlan, At, RunInv, JobInv, BooksOfJob, BooksSound, BatchHasPlans,
       ContextTrue, Relying
  <2>2. n \in Nat
    BY <2>1 DEF PlanRow
  <2>3. \/ edit = [NoWrite EXCEPT !.count = n, !.status = "exhausted"]
        \/ edit = [NoWrite EXCEPT !.count = n, !.time = "later"]
    BY DEF Advancement
  <2> HIDE DEF n, edit
  <2>4. edit \in PlanWrite /\ edit.status \in {"exhausted", None}
    BY <2>2, <2>3 DEF NoWrite, PlanWrite, PlanTime, RetryStatus
  <2>5. Tame(b, Planned(b, edit))
    BY <2>1, <2>4, PlannedIsTame, NoneIsNoStatus DEF TerminalRetryStatus, RetryStatus
  <2>. QED  BY <1>2, <2>1, <2>5
<1>6. CASE ClosePlan
  <2> DEFINE status == CloseOutStatus(job.ctx)
             edit == [NoWrite EXCEPT !.status = status]
  <2>1. /\ d \in Mandates /\ Exists(d) /\ Sound(b) /\ b.plan # None /\ job.pc \in Relying
        /\ book' = [book EXCEPT ![d] = Planned(b, edit)]
    BY <1>6 DEF ClosePlan, At, RunInv, JobInv, BooksOfJob, BooksSound, BatchHasPlans, Relying
  <2>2. /\ status \in {"executed", "exhausted", "cancelled"}
        /\ status = "executed" =>
             job.ctx.attempt # None /\ job.ctx.attempt.status = "succeeded"
    BY DEF CloseOutStatus
  <2>3. d # Demo /\ status = "executed" => PaidOnce(b)
    BY <2>1, <2>2 DEF HonestInv
  <2> HIDE DEF status
  <2>4. edit \in PlanWrite /\ edit.status = status
    BY <2>2 DEF NoWrite, PlanWrite, RetryStatus
  <2> HIDE DEF edit
  <2>5. d # Demo => Tame(b, Planned(b, edit))
    BY <2>1, <2>2, <2>3, <2>4, PlannedIsTame DEF TerminalRetryStatus
  <2>. QED  BY <1>2, <2>1, <2>5
<1>7. UNCHANGED book \/ Escalate \/ BookAttempt \/ AdvancePlan \/ ClosePlan
  BY DEF BatchStep, Pick, BatchAborts, BatchDone, RunStep, TakeContext, AskProvider, Decide,
     Communicate, NoEscalationNeeded, Persist, Finish, LogDecision, StepRefused, RecordFailure,
     FailureUnrecorded, Unrecorded, StepFails
<1>. QED  BY <1>1, <1>3, <1>4, <1>5, <1>6, <1>7

\* Its copy is the row, so the settlement job resolves an attempt that was not yet.
LEMMA SettleResolves ==
  ASSUME RunInv, BookInv, HonestInv, Settle
  PROVE  \E m \in Mandates, i \in Nat :
           /\ settling.of = <<m, i>> /\ Exists(m)
           /\ m # Demo => Resolves(book[m], book'[m], i)
           /\ \A x \in Mandates : x # m => book'[x] = book[x]
<1>1. PICK m \in Mandates, i \in Nat :
        LET b == book[m] c == book'[m] seen == settling.seen IN
        /\ settling.of = <<m, i>> /\ seen \in Attempt
        /\ Exists(m) /\ c # None /\ i \in DOMAIN b.attempts /\ Sound(b)
        /\ \/ c = Paid(b, i, seen)
           \/ /\ MayFail(seen)
              /\ \E category \in DeclineCategory : c = Declined(b, i, seen, category)
        /\ book' = [book EXCEPT ![m] = c]
  BY SettleIs DEF BookInv, BooksOfJob
<1> DEFINE b == book[m]
           c == book'[m]
           seen == settling.seen
<1>2. \A x \in Mandates : x # m => book'[x] = book[x]
  BY <1>1 DEF RunInv, RecordKinds
<1>3. ASSUME m # Demo PROVE Resolves(b, c, i)
  <2>1. settling.of # None /\ settling.of \in InHand
    BY DEF Settle, InHand
  <2>2. seen = b.attempts[i] /\ seen.status \in Unresolved
    BY <1>1, <1>3, <2>1 DEF HonestInv, RowOf
  <2>3. b.attempts[i] \in Attempt /\ seen \in Attempt /\ i \in DOMAIN b.attempts /\ Sound(b)
    BY <1>1, <2>2
  <2>4. CASE c = Paid(b, i, seen)
    <3> DEFINE row == Marked(b.attempts[i], seen, "succeeded", seen.category)
    <3>1. row.status = "succeeded"
      <4>1. "succeeded" \in PaymentStatus /\ seen.category \in DeclineCategory \union {NoDecline}
        BY <2>3 DEF PaymentStatus, Attempt
      <4>. QED  BY <2>2, <2>3, <4>1, MarkedIs DEF Unresolved
    <3> HIDE DEF row
    <3>2. /\ DOMAIN c.attempts = DOMAIN b.attempts
          /\ \A j \in DOMAIN b.attempts : c.attempts[j] = IF j = i THEN row ELSE b.attempts[j]
          /\ b.plan # None =>
               c.plan.status = IF b.plan.status \in ActiveRetryStatus
                               THEN "executed" ELSE b.plan.status
      BY <2>3, <2>4, PaidIs DEF row
    <3>3. PaidOnce(c)
      BY <2>3, <3>1, <3>2 DEF PaidOnce
    <3>4. Closed(b.plan) => Closed(c.plan)
      <4>. SUFFICES ASSUME b.plan # None, b.plan.status \in TerminalRetryStatus
                    PROVE  Closed(c.plan)
        BY DEF Closed
      <4>1. c.plan # None
        BY <2>3, <2>4, PaidIs DEF Gentle, Kept
      <4>2. c.plan.status \in TerminalRetryStatus
        BY <3>2 DEF TerminalRetryStatus
      <4>. QED  BY <4>1, <4>2 DEF Closed
    <3>. QED  BY <2>2, <2>3, <3>2, <3>3, <3>4 DEF Resolves, Honest
  <2>5. ASSUME NEW category \in DeclineCategory, c = Declined(b, i, seen, category)
        PROVE  Resolves(b, c, i)
    <3> DEFINE row == Marked(b.attempts[i], seen, "failed", category)
    <3>1. row.status = "failed"
      <4>1. "failed" \in PaymentStatus /\ category \in DeclineCategory \union {NoDecline}
        BY DEF PaymentStatus
      <4>. QED  BY <2>2, <2>3, <4>1, MarkedIs DEF Unresolved
    <3> HIDE DEF row
    <3>2. /\ DOMAIN c.attempts = DOMAIN b.attempts
          /\ \A j \in DOMAIN b.attempts : c.attempts[j] = IF j = i THEN row ELSE b.attempts[j]
          /\ c.plan = Pursued(b.plan)
      BY <2>3, <2>5, DeclinedIs DEF row
    <3>3. c.plan.status # "executed"
      <4>1. b.plan \in PlanRow \union {None} /\ (b.plan # None => WithinMax(b.plan))
        BY <2>3, BookColumns DEF Sound
      <4>. QED  BY <3>2, <4>1, PursuedIs DEF ActiveRetryStatus
    <3>. QED  BY <2>2, <2>3, <3>1, <3>2, <3>3 DEF Resolves, Honest
  <2>. QED  BY <1>1, <2>4, <2>5
<1>. QED  BY <1>1, <1>2, <1>3

LEMMA RealBooksChange ==
  ASSUME RunInv, BookInv, HonestInv, [DevNext]_devVars
  PROVE  \A m \in Mandates \ {Demo} : Exists(m)' =>
           /\ Exists(m)
           /\ \/ Tame(book[m], book'[m])
              \/ \E i \in Nat : Settle /\ settling.of = <<m, i>> /\ Resolves(book[m], book'[m], i)
<1>1. CASE BatchStep \/ StepFails \/ Unrecorded
  BY <1>1, RunIsTame DEF BookInv
<1>2. CASE Settle
  BY <1>2, SettleResolves, SameIsTame DEF Exists
<1>3. CASE TimePasses
  <2>1. PICK m \in Mandates : ComesDue(m)
    BY <1>3 DEF TimePasses
  <2>2. PICK c : /\ c = book'[m] /\ Exists(m) /\ book' = [book EXCEPT ![m] = c]
                 /\ Gentle(book[m], c)
                 /\ c.attempts = book[m].attempts /\ c.plan.status = book[m].plan.status
    BY <2>1, ComesDueIs DEF BookInv, BooksOfJob
  <2>3. Tame(book[m], c)
    <3>1. book[m].plan # None /\ c.plan # None
      BY <2>1, <2>2 DEF ComesDue, Gentle, Kept
    <3>. QED  BY <2>2, <3>1 DEF Tame, Closed, Honest, PaidOnce
  <2>4. \A x \in Mandates : x # m => book'[x] = book[x]
    BY <2>2 DEF RunInv, RecordKinds
  <2>. QED  BY <2>2, <2>3, <2>4, SameIsTame DEF Exists
<1>4. CASE SeedRegister \/ SeedStep \/ DeleteSeedData
  <2>1. \E c : book' = [book EXCEPT ![Demo] = c]
    BY <1>4 DEF SeedRegister, SeedStep, DeleteSeedData, Deleted
  <2>2. \A m \in Mandates \ {Demo} : book'[m] = book[m]
    BY <2>1 DEF RunInv, RecordKinds
  <2>. QED  BY <2>2, SameIsTame DEF Exists
<1>5. CASE UNCHANGED book
  BY <1>5, SameIsTame DEF Exists
<1>. QED
  BY <1>1, <1>2, <1>3, <1>4, <1>5 DEF DevNext, devVars, batchVars, Restart, Alone, Startup,
     Shutdown, KillAll, Kill, Tick, FailureFailsAgain, SettlementTick, TakeAttempt, NotSettled,
     SettlementAborts, SeedLooks, SeedStepVoid, SeedAborts

\* A run takes its context of the rows there are, and keeps it.
LEMMA ContextComes ==
  ASSUME RunInv, BookInv, [DevNext]_devVars, job'.pc \in Relying
  PROVE  \/ /\ job.pc \in Relying /\ job'.of = job.of /\ job'.ctx = job.ctx
         \/ /\ UNCHANGED book /\ job'.of = job.of /\ job.of \in Mandates /\ Exists(job.of)
            /\ job'.ctx.attempt = NewestAttempt(book[job.of])
<1>0. JobShape
  BY DEF RunInv, JobInv
<1>1. CASE UNCHANGED job
  BY <1>1
<1>2. CASE job' = NoJob \/ \E broken : job' = NextOfBatch(broken)
  BY <1>2, NoJobFits DEF NextOfBatch, NoJob, Relying
<1>3. CASE Tick \/ Pick
  BY <1>0, <1>3 DEF Tick, Pick, JobShape, Relying
<1>4. CASE Persist \/ Finish \/ StepRefused \/ StepFails \/ AdvancePlan \/ ClosePlan
  BY <1>0, <1>4 DEF Persist, Finish, StepRefused, StepFails, AdvancePlan, ClosePlan, Fails,
     CommitTo, Advance, AddHistory, Committed, JobShape, Relying
<1>5. CASE Decide \/ Communicate \/ NoEscalationNeeded \/ Escalate \/ BookAttempt
  BY <1>0, <1>5 DEF Decide, Communicate, NoEscalationNeeded, Escalate, BookAttempt, At, CommitTo,
     Advance, AddHistory, Committed, JobShape, Relying
<1>6. CASE TakeContext
  <2> DEFINE ctx == ContextOf(book[job.of])
             begun == Started(ctx)
  <2>1. begun = [job EXCEPT !.ctx = ctx, !.decision = None, !.history = 0]
    BY DEF Started
  <2>2. job' = [[begun EXCEPT !.pc = "decide"] EXCEPT !.history = @ + 1]
    BY <1>6 DEF TakeContext, Advance, AddHistory
  <2>3. ctx.attempt = NewestAttempt(book[job.of])
    BY DEF ContextOf
  <2> HIDE DEF begun, ctx
  <2>4. job'.of = job.of /\ job'.ctx = ctx
    BY <1>0, <2>1, <2>2 DEF JobShape
  <2>5. UNCHANGED book /\ job.of \in Mandates /\ Exists(job.of)
    BY <1>6 DEF TakeContext, At, RunInv, JobInv
  <2>. QED  BY <2>3, <2>4, <2>5
<1>. QED
  BY <1>1, <1>2, <1>3, <1>4, <1>5, <1>6
     DEF DevNext, devVars, batchVars, Alone, Restart, Startup, Shutdown, KillAll, Kill,
     FailureFailsAgain, Unrecorded, BatchStep, BatchAborts, BatchDone, RunStep, AskProvider,
     LogDecision, RecordFailure, FailureUnrecorded, SettlementTick, TakeAttempt, Settle,
     NotSettled, SettlementAborts, SeedRegister, SeedLooks, SeedStep, SeedStepVoid, SeedAborts,
     DeleteSeedData, TimePasses

\* The settlement job waits, is done with an attempt, or takes one and reads its row.
LEMMA SettlingMoves ==
  ASSUME BookInv, [DevNext]_devVars
  PROVE  \/ UNCHANGED settling /\ ~Settle
         \/ settling'.of = None /\ settling'.todo \subseteq settling.todo
         \/ /\ UNCHANGED book
            /\ settling'.of \notin settling'.todo /\ settling'.seen = RowOf(settling'.of)
<1>1. CASE Settle \/ NotSettled
  BY <1>1, TurnOverIs DEF Settle, NotSettled, BookInv
<1>2. CASE KillAll \/ SettlementAborts
  BY <1>2 DEF KillAll, SettlementAborts, NoSettlement
<1>3. CASE SettlementTick
  <2>1. PICK x \in Listed : settling' = [todo |-> Listed \ {x}, of |-> x, seen |-> RowOf(x)]
    BY <1>3 DEF SettlementTick
  <2>. QED  BY <1>3, <2>1 DEF SettlementTick, batchVars
<1>4. CASE TakeAttempt
  <2>1. PICK x \in settling.todo :
          settling' = [todo |-> settling.todo \ {x}, of |-> x, seen |-> RowOf(x)]
    BY <1>4 DEF TakeAttempt
  <2>. QED  BY <1>4, <2>1 DEF TakeAttempt, batchVars
<1>. QED
  BY <1>1, <1>2, <1>3, <1>4 DEF DevNext, Alone, Restart, SeedRegister, SeedLooks, SeedStep,
     SeedStepVoid, SeedAborts, DeleteSeedData, TimePasses, devVars

LEMMA StepKeepsHonest ==
  ASSUME RunInv, BookInv, HonestInv, [DevNext]_devVars
  PROVE  HonestInv'
<1>1. \A m \in Mandates \ {Demo} : Exists(m)' =>
        /\ Exists(m)
        /\ \/ Tame(book[m], book'[m])
           \/ \E i \in Nat : Settle /\ settling.of = <<m, i>> /\ Resolves(book[m], book'[m], i)
  BY RealBooksChange
<1>2. ASSUME NEW m \in Mandates \ {Demo}, Exists(m)' PROVE Honest(book'[m])
  BY <1>1, <1>2 DEF HonestInv, Tame, Resolves
<1>3. ASSUME job'.pc \in Relying, job'.of # Demo, book'[job'.of] # None, job'.ctx.attempt # None,
             job'.ctx.attempt.status = "succeeded"
      PROVE  PaidOnce(book'[job'.of])
  <2>1. CASE job.pc \in Relying /\ job'.of = job.of /\ job'.ctx = job.ctx
    <3>1. job.of \in Mandates \ {Demo}
      BY <1>3, <2>1 DEF RunInv, JobInv, Relying
    <3>2. Exists(job.of) /\ (Tame(book[job.of], book'[job.of])
                             \/ \E i : Resolves(book[job.of], book'[job.of], i))
      BY <1>1, <1>3, <2>1, <3>1 DEF Exists
    <3>3. PaidOnce(book[job.of])
      BY <1>3, <2>1, <3>2 DEF HonestInv
    <3>. QED  BY <2>1, <3>2, <3>3, PaidStaysPaid
  <2>2. CASE /\ UNCHANGED book /\ job'.of = job.of /\ job.of \in Mandates /\ Exists(job.of)
             /\ job'.ctx.attempt = NewestAttempt(book[job.of])
    <3> DEFINE b == book[job.of]
    <3>1. Sound(b)
      BY <2>2 DEF BookInv, BooksOfJob, BooksSound
    <3>2. b.attempts # <<>> /\ b.attempts[Len(b.attempts)].status = "succeeded"
      BY <1>3, <2>2 DEF NewestAttempt
    <3>3. Len(b.attempts) \in DOMAIN b.attempts
      BY <3>1, <3>2, BookColumns, EmptySeq DEF Sound
    <3>. QED  BY <2>2, <3>2, <3>3 DEF PaidOnce
  <2>. QED  BY <1>3, <2>1, <2>2, ContextComes
<1>4. InHand \subseteq Mandates \X Nat /\ InHand' \subseteq Mandates \X Nat
  <2>1. SettlingOK'
    BY StepKeepsBooks DEF BookInv
  <2>. QED  BY <2>1 DEF BookInv, SettlingOK, InHand
<1>5. ASSUME NEW x \in InHand, x[1] # Demo, Exists(x[1])', ~Settle \/ x # settling.of
      PROVE  RowOf(x)' = RowOf(x) /\ RowOf(x).status \in Unresolved
  <2>1. x[1] \in Mandates /\ x = <<x[1], x[2]>>
    BY <1>4
  <2>2. Exists(x[1]) /\ x[2] \in DOMAIN book[x[1]].attempts
    BY <1>1, <1>5, <2>1 DEF BookInv, SettlingOK
  <2>3. book'[x[1]].attempts[x[2]] = book[x[1]].attempts[x[2]]
    <3>1. CASE Tame(book[x[1]], book'[x[1]])
      BY <2>2, <3>1 DEF Tame
    <3>2. ASSUME NEW i \in Nat, Settle, settling.of = <<x[1], i>>,
                 Resolves(book[x[1]], book'[x[1]], i)
          PROVE  book'[x[1]].attempts[x[2]] = book[x[1]].attempts[x[2]]
      <4>1. i # x[2]
        BY <1>5, <2>1, <3>2
      <4>. QED  BY <2>2, <3>2, <4>1 DEF Resolves
    <3>. QED  BY <1>1, <1>5, <2>1, <3>1, <3>2
  <2>. QED  BY <1>5, <2>2, <2>3 DEF HonestInv, RowOf
<1>6. ASSUME NEW x \in InHand', x[1] # Demo, Exists(x[1])' PROVE RowOf(x)'.status \in Unresolved
  <2>1. CASE UNCHANGED settling /\ ~Settle
    BY <1>5, <1>6, <2>1 DEF InHand
  <2>2. CASE settling'.of = None /\ settling'.todo \subseteq settling.todo
    <3>1. x \in settling.todo /\ x \in InHand
      BY <1>6, <2>2 DEF InHand
    <3>2. ~Settle \/ x # settling.of
      BY <3>1 DEF Settle, HonestInv
    <3>. QED  BY <1>5, <1>6, <3>1, <3>2
  <2>3. CASE UNCHANGED book
    <3>1. RowOf(x)' = RowOf(x) /\ Exists(x[1])
      BY <1>6, <2>3 DEF RowOf, Exists
    <3>2. x \in InHand \/ x \in Listed
      BY <1>6, SettlingTakes DEF BookInv
    <3>3. CASE x \in InHand
      BY <1>6, <3>1, <3>3 DEF HonestInv
    <3>4. CASE x \in Listed
      BY <3>1, <3>4, ListedIs DEF BookInv, BooksOfJob, RowOf
    <3>. QED  BY <3>2, <3>3, <3>4
  <2>. QED  BY <2>1, <2>2, <2>3, SettlingMoves
<1>7. ASSUME settling'.of # None
      PROVE  /\ settling'.of \notin settling'.todo
             /\ settling'.of[1] # Demo /\ Exists(settling.of[1])' =>
                  settling'.seen = RowOf(settling.of)'
  <2>1. CASE UNCHANGED settling /\ ~Settle
    <3>1. settling.of \in InHand /\ settling.of \notin settling.todo
      BY <1>7, <2>1 DEF InHand, HonestInv
    <3>2. ASSUME settling.of[1] # Demo, Exists(settling.of[1])'
          PROVE  settling.seen = RowOf(settling.of)'
      <4>1. settling.of[1] \in Mandates
        BY <1>4, <3>1
      <4>2. Exists(settling.of[1]) /\ RowOf(settling.of)' = RowOf(settling.of)
        BY <1>1, <1>5, <2>1, <3>1, <3>2, <4>1
      <4>. QED  BY <1>7, <2>1, <3>2, <4>2 DEF HonestInv
    <3>. QED  BY <2>1, <3>1, <3>2
  <2>2. CASE /\ UNCHANGED book
             /\ settling'.of \notin settling'.todo /\ settling'.seen = RowOf(settling'.of)
    BY <2>2 DEF RowOf
  <2>. QED  BY <1>7, <2>1, <2>2, SettlingMoves
<1>. QED  BY <1>2, <1>3, <1>6, <1>7 DEF HonestInv, Exists

\* Executed plans have a paid attempt, and the two jobs decide on rows that are still as they
\* read them, for every mandate that no scenario writes to.
THEOREM HonestInvariant == DevSpec => []HonestInv
<1>1. DevInit => HonestInv
  <2>. SUFFICES ASSUME DevInit PROVE HonestInv
    OBVIOUS
  <2>1. job.pc = "idle" /\ settling.of = None /\ settling.todo = {}
    BY DEF DevInit, BatchInit, NoJob, NoSettlement
  <2>3. Overdue.plan.status = "pending"
    BY DEF Overdue, NewBook, Pursued
  <2>4. \A m \in Mandates \ {Demo} : book[m] = Overdue
    BY DEF DevInit
  <2>. QED  BY <2>1, <2>3, <2>4 DEF HonestInv, Honest, InHand, Relying
<1>2. RunInv /\ BookInv /\ HonestInv /\ [DevNext]_devVars => HonestInv'
  BY StepKeepsHonest
<1>. QED  BY <1>1, <1>2, RunInvariant, BookInvariant, PTL DEF DevSpec

\* Whatever jobs, failures and restarts meet, a real mandate's plan is closed as executed only
\* if an attempt was paid, and as exhausted only with its budget spent.
THEOREM PlansAreTrue == DevSpec => []PlansTellTheTruth
<1>1. BookInv /\ HonestInv => PlansTellTheTruth
  BY DEF BookInv, BooksOfJob, BooksSound, Counted, HonestInv, Honest, PaidOnce,
     PlansTellTheTruth
<1>. QED  BY <1>1, BookInvariant, HonestInvariant, PTL

\* No run and no paid attempt takes a real mandate's closed plan up again: only the failure of
\* an attempt that was unresolved does.
THEOREM ClosedPlansStay == DevSpec => ClosedPlansStayClosed
<1>1. ASSUME RunInv, BookInv, HonestInv, [DevNext]_devVars,
             NEW m \in Mandates \ {Demo}, Exists(m), Closed(book[m].plan), book'[m] # None,
             ~Closed(book'[m].plan)
      PROVE  \E i \in DOMAIN book[m].attempts :
               /\ book[m].attempts[i].status \in Unresolved
               /\ book'[m].attempts[i].status = "failed"
  <2>1. PICK i \in Nat : Resolves(book[m], book'[m], i)
    BY <1>1, RealBooksChange DEF Exists, Tame
  <2>. QED  BY <1>1, <2>1 DEF Resolves
<1>2. RunInv /\ BookInv /\ HonestInv /\ [DevNext]_devVars =>
        [\A m \in Mandates \ {Demo} :
           Exists(m) /\ Closed(book[m].plan) /\ book'[m] # None /\ ~Closed(book'[m].plan) =>
             \E i \in DOMAIN book[m].attempts :
               /\ book[m].attempts[i].status \in Unresolved
               /\ book'[m].attempts[i].status = "failed"]_devVars
  BY <1>1
<1>. QED  BY <1>2, RunInvariant, BookInvariant, HonestInvariant, PTL
          DEF DevSpec, ClosedPlansStayClosed

-----------------------------------------------------------------------------
(* Types *)

\* What no other invariant tells of the types.
CallTypes ==
  /\ AiTypeOK
  /\ job.decision \in Decision \union {None}
  /\ failures \in 0..MaxFailures

LEMMA AskKeepsType ==
  ASSUME AiTypeOK, Prompt \/ ProviderStep \/ ForgetCall
  PROVE  AiTypeOK'
<1>. USE AiAssumption
<1>1. CASE Prompt
  BY <1>1 DEF Prompt, Traced, NotAsked, AiTypeOK, Answer
<1>2. CASE ForgetCall
  BY <1>2 DEF ForgetCall, NotAsked, AiTypeOK, Answer
<1>3. CASE TransientError
  BY <1>3 DEF TransientError, AfterError, Raised, AiTypeOK
<1>4. CASE FinalError
  BY <1>4 DEF FinalError, Raised, AiTypeOK
<1>5. CASE Content
  BY <1>5 DEF Content, AiTypeOK, Answer
<1>. QED  BY <1>1, <1>2, <1>3, <1>4, <1>5 DEF ProviderStep

LEMMA StepKeepsCalls ==
  ASSUME RunInv, CallTypes, [DevNext]_devVars
  PROVE  CallTypes'
<1>1. AiTypeOK'
  <2>1. CASE UNCHANGED ask
    BY <2>1 DEF CallTypes, AiTypeOK
  <2>2. CASE Prompt \/ ProviderStep \/ ForgetCall
    BY <2>2, AskKeepsType DEF CallTypes
  <2>3. UNCHANGED ask \/ Prompt \/ ProviderStep \/ ForgetCall
    BY DEF DevNext, devVars, batchVars, Alone, Restart, Startup, Shutdown, KillAll, Kill, Tick,
       StepFails, FailureFailsAgain, Unrecorded, BatchStep, Pick, BatchAborts, BatchDone,
       RunStep,
       TakeContext, AskProvider, Decide, Communicate, NoEscalationNeeded, Escalate, BookAttempt,
       AdvancePlan, ClosePlan, Persist, Finish, LogDecision, StepRefused, RecordFailure,
       FailureUnrecorded, SettlementTick, TakeAttempt, Settle, NotSettled, SettlementAborts,
       SeedRegister,
       SeedLooks, SeedStep, SeedStepVoid, SeedAborts, DeleteSeedData, TimePasses
  <2>. QED  BY <2>1, <2>2, <2>3
<1>2. job'.decision \in Decision \union {None}
  <2>0. JobShape /\ job.decision \in Decision \union {None}
    BY DEF RunInv, JobInv, CallTypes
  <2>1. CASE UNCHANGED job
    BY <2>0, <2>1
  <2>2. CASE job' = NoJob \/ \E broken : job' = NextOfBatch(broken)
    <3>1. ASSUME NEW broken, job' = NextOfBatch(broken) PROVE job'.decision = None
      BY <3>1, NoJobFits DEF NextOfBatch, NoJob
    <3>2. ASSUME job' = NoJob PROVE job'.decision = None
      BY <3>2 DEF NoJob
    <3>. QED  BY <2>2, <3>1, <3>2
  <2>3. CASE Tick \/ StepRefused \/ StepFails
    BY <2>0, <2>3 DEF Tick, StepRefused, StepFails, Fails, JobShape
  <2>4. CASE Pick
    BY <2>0, <2>4 DEF Pick, JobShape
  <2>5. CASE TakeContext
    <3>1. PICK ctx : job' = [[Started(ctx) EXCEPT !.pc = "decide"] EXCEPT !.history = @ + 1]
      BY <2>5 DEF TakeContext, Advance, AddHistory
    <3>2. job'.decision = None
      BY <2>0, <3>1 DEF Started, JobShape
    <3>. QED  BY <3>2
  <2>6. CASE Decide
    <3>1. job'.decision = Finalize(job.ctx, ask)
      BY <2>0, <2>6 DEF Decide, Advance, AddHistory, JobShape
    <3>. QED  BY <3>1, FinalizeDecides
  <2>7. CASE Communicate \/ NoEscalationNeeded \/ Escalate \/ BookAttempt \/ AdvancePlan
             \/ ClosePlan \/ Persist \/ Finish
    <3>1. job'.decision = job.decision
      BY <2>0, <2>7 DEF Communicate, NoEscalationNeeded, Escalate, BookAttempt, AdvancePlan,
         ClosePlan, Persist, Finish, CommitTo, Advance, AddHistory, Committed, JobShape
    <3>. QED  BY <2>0, <3>1
  <2>. QED
    BY <2>1, <2>2, <2>3, <2>4, <2>5, <2>6, <2>7
       DEF DevNext, devVars, batchVars, Alone, Restart, Startup, Shutdown, KillAll, Kill,
       FailureFailsAgain, Unrecorded, BatchStep, BatchAborts, BatchDone, RunStep, AskProvider,
       LogDecision, RecordFailure, FailureUnrecorded, SettlementTick, TakeAttempt, Settle,
       NotSettled,
       SettlementAborts, SeedRegister, SeedLooks, SeedStep, SeedStepVoid, SeedAborts,
       DeleteSeedData,
       TimePasses
<1>3. failures' \in 0..MaxFailures
  <2>1. UNCHANGED failures \/ Mishap
    BY DEF DevNext, devVars, batchVars, Alone, Restart, Startup, Shutdown, KillAll, Kill, Tick,
       StepFails, FailureFailsAgain, BatchStep, Pick, BatchAborts, BatchDone, RunStep,
       TakeContext, AskProvider, Decide, Communicate, NoEscalationNeeded, Escalate, BookAttempt,
       AdvancePlan, ClosePlan, Persist, Finish, LogDecision, StepRefused, RecordFailure,
       FailureUnrecorded, SettlementTick, TakeAttempt, Settle, NotSettled, SettlementAborts,
       SeedRegister,
       SeedLooks, SeedStep, SeedStepVoid, SeedAborts, DeleteSeedData, TimePasses
  <2>. QED  BY <2>1, BatchAssumption DEF CallTypes, Mishap
<1>. QED  BY <1>1, <1>2, <1>3 DEF CallTypes

\* Every variable of the development environment always holds a value of its kind.
THEOREM DevTypes == DevSpec => []DevTypeOK
<1>1. DevInit => CallTypes
  BY AiAssumption, BatchAssumption, NoJobFits
     DEF DevInit, BatchInit, AiInit, NotAsked, NoJob, CallTypes, AiTypeOK, Answer
<1>2. RunInv /\ CallTypes /\ [DevNext]_devVars => CallTypes'
  BY StepKeepsCalls
<1>3. DevInit => SchemaInv
  BY InitSchema
<1>4. SchemaInv /\ [DevNext]_devVars => SchemaInv'
  BY StepKeepsSchema
<1>5. SchemaInv /\ RunInv /\ BookInv /\ CallTypes => DevTypeOK
  <2>. SUFFICES ASSUME SchemaInv, RunInv, BookInv, CallTypes PROVE DevTypeOK
    OBVIOUS
  <2>1. BooksTypeOK
    BY DEF BookInv, BooksOfJob, BooksSound, Sound, WithinMax, BooksTypeOK
  <2>2. /\ settling.todo \subseteq Mandates \X Nat
        /\ settling.of \in (Mandates \X Nat) \union {None}
        /\ {settling.seen, seed.seen} \subseteq Attempt \union {None}
    BY DEF BookInv, SettlingOK, SeedOK
  <2>. QED  BY <2>1, <2>2 DEF SchemaInv, RunInv, JobInv, RecordKinds, CallTypes, DevTypeOK
<1>. QED  BY <1>1, <1>2, <1>3, <1>4, <1>5, RunInvariant, BookInvariant, PTL DEF DevSpec
=============================================================================
