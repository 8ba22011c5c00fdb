---------------------------- MODULE DevBooks_proofs ----------------------------
(***************************************************************************)
(* Proofs about DevSeed, for any mandates, scenarios and bounds: the books *)
(* the retry job, the settlement job and the scenarios keep between them.  *)
(***************************************************************************)
EXTENDS DevSeed_proofs

-----------------------------------------------------------------------------
(* What one call of a service makes of a mandate's rows *)

WithinMax(plan) == plan.count <= plan.max

\* Rows of their types, and no more retries counted than the budget has.
Sound(b) == b \in Book /\ (b.plan # None => WithinMax(b.plan))

\* An exhausted plan has spent its budget; any other has some left, unless there was none.
Counted(b) ==
  b.plan # None =>
    IF b.plan.status = "exhausted" THEN b.plan.count = b.plan.max
    ELSE b.plan.count < b.plan.max \/ b.plan.max = 0

\* What is never undone while a run may rely on it.
Kept(b, c) ==
  /\ DOMAIN b.attempts \subseteq DOMAIN c.attempts
  /\ b.plan # None => c.plan # None /\ c.plan.max = b.plan.max

\* What nobody but a plan's own run, or a scenario, undoes.
Gentle(b, c) ==
  /\ Kept(b, c)
  /\ c.open >= b.open
  /\ b.plan # None /\ c.plan.status = "exhausted" => b.plan.status = "exhausted"

LEMMA BookColumns ==
  ASSUME NEW b \in Book
  PROVE  /\ b.mandate \in MandateStatus /\ b.attempts \in Seq(Attempt)
         /\ b.plan \in PlanRow \union {None} /\ b.open \in Nat
         /\ b # None
         /\ DOMAIN b.attempts = 1..Len(b.attempts) /\ Len(b.attempts) \in Nat
<1>1. /\ b.mandate \in MandateStatus /\ b.attempts \in Seq(Attempt)
      /\ b.plan \in PlanRow \union {None} /\ b.open \in Nat
  BY DEF Book
<1>. QED  BY <1>1, NoneIsNoBook, LenProperties

LEMMA NewColumns ==
  ASSUME NEW b \in Book, NEW mandate \in MandateStatus, NEW attempts \in Seq(Attempt),
         NEW plan \in PlanRow \union {None}, NEW open \in Nat
  PROVE  [b EXCEPT !.mandate = mandate, !.attempts = attempts, !.plan = plan, !.open = open]
           \in Book
BY DEF Book

LEMMA RecordedIs ==
  ASSUME NEW b, Sound(b)
  PROVE  LET c == Recorded(b)
         IN  /\ Sound(c) /\ Gentle(b, c) /\ (Counted(b) => Counted(c))
             /\ Len(c.attempts) = Len(b.attempts) + 1 /\ Len(c.attempts) \in DOMAIN c.attempts
             /\ \A i \in DOMAIN b.attempts : c.attempts[i] = b.attempts[i]
             /\ c.plan = b.plan /\ c.open = b.open
<1> DEFINE row == [status |-> "pending", category |-> NoDecline]
           c == Recorded(b)
<1>1. b \in Book
  BY DEF Sound
<1>2. row \in Attempt
  BY DEF Attempt, PaymentStatus
<1>3. c = [b EXCEPT !.attempts = Append(b.attempts, row)]
  BY DEF Recorded
<1> HIDE DEF row, c
<1>4. /\ Append(b.attempts, row) \in Seq(Attempt)
      /\ Len(Append(b.attempts, row)) = Len(b.attempts) + 1
      /\ \A i \in 1..Len(b.attempts) : Append(b.attempts, row)[i] = b.attempts[i]
      /\ Len(b.attempts) \in Nat
  BY <1>1, <1>2, BookColumns, AppendProperties, LenProperties
<1>5. c \in Book
  BY <1>1, <1>3, <1>4 DEF Book
<1>6. /\ c.attempts = Append(b.attempts, row) /\ c.plan = b.plan /\ c.open = b.open
  BY <1>1, <1>3 DEF Book
<1>7. DOMAIN b.attempts = 1..Len(b.attempts) /\ DOMAIN c.attempts = 1..(Len(b.attempts) + 1)
  BY <1>1, <1>4, <1>5, <1>6, BookColumns
<1>8. Gentle(b, c)
  BY <1>1, <1>4, <1>6, <1>7, BookColumns DEF Gentle, Kept
<1>9. Sound(c)
  BY <1>5, <1>6 DEF Sound
<1>. QED  BY <1>4, <1>6, <1>7, <1>8, <1>9 DEF Counted, c

\* The attempt's row and the plan that a gateway outcome writes.
Outcome(b, i, row, plan) == [b EXCEPT !.attempts[i] = row, !.plan = plan]

LEMMA OutcomeIs ==
  ASSUME NEW b \in Book, NEW i \in DOMAIN b.attempts, NEW row \in Attempt,
         NEW plan \in PlanRow \union {None}
  PROVE  LET c == Outcome(b, i, row, plan)
         IN  /\ c \in Book /\ c.plan = plan /\ c.open = b.open
             /\ DOMAIN c.attempts = DOMAIN b.attempts
             /\ \A j \in DOMAIN b.attempts :
                  c.attempts[j] = IF j = i THEN row ELSE b.attempts[j]
<1> DEFINE c == Outcome(b, i, row, plan)
<1>1. c = [b EXCEPT !.attempts = [b.attempts EXCEPT ![i] = row], !.plan = plan]
  BY DEF Outcome
<1> HIDE DEF c
<1>2. [b.attempts EXCEPT ![i] = row] \in Seq(Attempt)
  BY BookColumns, ExceptSeq
<1>3. c \in Book /\ c.attempts = [b.attempts EXCEPT ![i] = row] /\ c.plan = plan
      /\ c.open = b.open
  BY <1>1, <1>2 DEF Book
<1>. QED  BY <1>3, BookColumns DEF c

\* Whatever copy it is written over, a row stays one.  A status the copy did not have is
\* written.
LEMMA MarkedIs ==
  ASSUME NEW attempt \in Attempt, NEW seen \in Attempt, NEW status \in PaymentStatus,
         NEW category \in DeclineCategory \union {NoDecline}
  PROVE  LET row == Marked(attempt, seen, status, category)
         IN  row \in Attempt /\ (seen.status # status => row.status = status)
<1>1. /\ Written(attempt.status, Changed(seen.status, status)) \in PaymentStatus
      /\ Written(attempt.category, Changed(seen.category, category))
           \in DeclineCategory \union {NoDecline}
  BY DEF Written, Changed, Attempt
<1>2. seen.status # status => Written(attempt.status, Changed(seen.status, status)) = status
  BY NoneIsNoStatus DEF Written, Changed
<1>. QED  BY <1>1, <1>2 DEF Marked, Attempt

LEMMA PaidIs ==
  ASSUME NEW b, Sound(b), NEW i \in DOMAIN b.attempts, NEW seen \in Attempt
  PROVE  LET c == Paid(b, i, seen)
             row == Marked(b.attempts[i], seen, "succeeded", seen.category)
         IN  /\ Sound(c) /\ Gentle(b, c) /\ (Counted(b) => Counted(c))
             /\ c.open = b.open /\ DOMAIN c.attempts = DOMAIN b.attempts
             /\ \A j \in DOMAIN b.attempts :
                  c.attempts[j] = IF j = i THEN row ELSE b.attempts[j]
             /\ b.plan = None => c.plan = None
             /\ b.plan # None =>
                  /\ c.plan.count = b.plan.count /\ c.plan.time = b.plan.time
                  /\ c.plan.status = IF b.plan.status \in ActiveRetryStatus
                                     THEN "executed" ELSE b.plan.status
<1> DEFINE row == Marked(b.attempts[i], seen, "succeeded", seen.category)
           plan == IF b.plan # None /\ b.plan.status \in ActiveRetryStatus
                   THEN [b.plan EXCEPT !.status = "executed"] ELSE b.plan
           c == Paid(b, i, seen)
<1>1. b \in Book /\ b.plan \in PlanRow \union {None} /\ b.attempts[i] \in Attempt
  BY BookColumns DEF Sound
<1>2. row \in Attempt
  <2>1. "succeeded" \in PaymentStatus /\ seen.category \in DeclineCategory \union {NoDecline}
    BY DEF PaymentStatus, Attempt
  <2>. QED  BY <1>1, <2>1, MarkedIs
<1>3. c = Outcome(b, i, row, plan)
  BY DEF Paid, Outcome
<1>4. plan \in PlanRow \union {None}
  BY <1>1 DEF PlanRow, RetryStatus
<1>5. /\ b.plan = None => plan = None
      /\ b.plan # None =>
           /\ plan # None /\ plan.count = b.plan.count /\ plan.max = b.plan.max
           /\ plan.time = b.plan.time
           /\ plan.status = IF b.plan.status \in ActiveRetryStatus
                            THEN "executed" ELSE b.plan.status
  <2>1. CASE b.plan # None /\ b.plan.status \in ActiveRetryStatus
    <3>1. plan = [b.plan EXCEPT !.status = "executed"] /\ b.plan \in PlanRow
      BY <1>1, <2>1
    <3>2. plan \in PlanRow
      BY <3>1 DEF PlanRow, RetryStatus
    <3>. QED  BY <2>1, <3>1, <3>2, NoneIsNoRow DEF PlanRow, ActiveRetryStatus
  <2>2. CASE ~(b.plan # None /\ b.plan.status \in ActiveRetryStatus)
    BY <2>2
  <2>. QED  BY <2>1, <2>2
<1> HIDE DEF row, plan, c
<1>6. /\ c \in Book /\ c.plan = plan /\ c.open = b.open
      /\ DOMAIN c.attempts = DOMAIN b.attempts
      /\ \A j \in DOMAIN b.attempts : c.attempts[j] = IF j = i THEN row ELSE b.attempts[j]
  BY <1>1, <1>2, <1>3, <1>4, OutcomeIs
<1>7. Gentle(b, c)
  BY <1>1, <1>5, <1>6, BookColumns DEF Gentle, Kept
<1>8. Sound(c)
  BY <1>1, <1>5, <1>6 DEF Sound, WithinMax
<1>9. Counted(b) => Counted(c)
  BY <1>5, <1>6 DEF Counted, ActiveRetryStatus
<1>. QED  BY <1>5, <1>6, <1>7, <1>8, <1>9 DEF c, row

LEMMA PursuedIs ==
  ASSUME NEW plan \in PlanRow \union {None}, plan # None => WithinMax(plan)
  PROVE  LET p == Pursued(plan)
         IN  /\ p \in PlanRow /\ WithinMax(p) /\ p.status \in ActiveRetryStatus
             /\ plan = None => p.status = "pending" /\ p.count = 0 /\ p.time = "later"
             /\ plan # None => p.max = plan.max
             /\ p.count = 0 \/ (plan # None /\ plan.status \in ActiveRetryStatus /\ p = plan)
             /\ plan # None /\ plan.count = 0 => p.count = 0
             /\ plan # None /\ plan.time = "later" => p.time = "later"
<1> DEFINE p == Pursued(plan)
<1>1. CASE plan = None
  <2>1. p = [status |-> "pending", count |-> 0, max |-> DefaultMaxRetries, time |-> "later"]
    BY <1>1 DEF Pursued
  <2> HIDE DEF p
  <2>. QED  BY <1>1, <2>1, BooksAssumption
            DEF PlanRow, RetryStatus, PlanTime, WithinMax, ActiveRetryStatus, p
<1>2. CASE plan # None /\ plan.status \in ActiveRetryStatus
  BY <1>2 DEF Pursued
<1>3. CASE plan # None /\ plan.status \notin ActiveRetryStatus
  <2>1. p = [plan EXCEPT !.status = "pending", !.count = 0, !.time = "later"]
    BY <1>3 DEF Pursued
  <2>2. plan \in PlanRow
    BY <1>3
  <2> HIDE DEF p
  <2>3. p \in PlanRow /\ p.status = "pending" /\ p.count = 0 /\ p.time = "later"
        /\ p.max = plan.max /\ plan.max \in Nat
    BY <2>1, <2>2 DEF PlanRow, RetryStatus, PlanTime
  <2>. QED  BY <1>3, <2>3 DEF WithinMax, ActiveRetryStatus, p
<1>. QED  BY <1>1, <1>2, <1>3

LEMMA DeclinedIs ==
  ASSUME NEW b, Sound(b), NEW i \in DOMAIN b.attempts, NEW seen \in Attempt,
         NEW category \in DeclineCategory
  PROVE  LET c == Declined(b, i, seen, category)
             row == Marked(b.attempts[i], seen, "failed", category)
         IN  /\ Sound(c) /\ Gentle(b, c) /\ (Counted(b) => Counted(c))
             /\ c.open = b.open /\ DOMAIN c.attempts = DOMAIN b.attempts
             /\ \A j \in DOMAIN b.attempts :
                  c.attempts[j] = IF j = i THEN row ELSE b.attempts[j]
             /\ c.plan = Pursued(b.plan) /\ c.plan # None
<1> DEFINE row == Marked(b.attempts[i], seen, "failed", category)
           plan == Pursued(b.plan)
           c == Declined(b, i, seen, category)
<1>1. /\ b \in Book /\ b.plan \in PlanRow \union {None}
      /\ b.plan # None => WithinMax(b.plan)
      /\ b.attempts[i] \in Attempt
  BY BookColumns DEF Sound
<1>2. row \in Attempt
  <2>1. "failed" \in PaymentStatus /\ category \in DeclineCategory \union {NoDecline}
    BY DEF PaymentStatus
  <2>. QED  BY <1>1, <2>1, MarkedIs
<1>3. c = Outcome(b, i, row, plan)
  BY DEF Declined, Outcome
<1>4. /\ plan \in PlanRow /\ WithinMax(plan) /\ plan.status \in ActiveRetryStatus
      /\ plan # None
      /\ b.plan # None => plan.max = b.plan.max
      /\ plan.count = 0
         \/ (b.plan # None /\ b.plan.status \in ActiveRetryStatus /\ plan = b.plan)
  BY <1>1, PursuedIs, NoneIsNoRow
<1> HIDE DEF row, plan, c
<1>6. /\ c \in Book /\ c.plan = plan /\ c.open = b.open
      /\ DOMAIN c.attempts = DOMAIN b.attempts
      /\ \A j \in DOMAIN b.attempts : c.attempts[j] = IF j = i THEN row ELSE b.attempts[j]
  BY <1>1, <1>2, <1>3, <1>4, OutcomeIs
<1>7. Gentle(b, c)
  BY <1>1, <1>4, <1>6, BookColumns DEF Gentle, Kept, ActiveRetryStatus
<1>8. Sound(c)
  BY <1>4, <1>6 DEF Sound
<1>9. Counted(b) => Counted(c)
  <2>1. plan.count \in Nat /\ plan.max \in Nat
    BY <1>4 DEF PlanRow
  <2>. QED  BY <1>4, <1>6, <2>1 DEF Counted, ActiveRetryStatus
<1>. QED  BY <1>4, <1>6, <1>7, <1>8, <1>9 DEF c, plan, row

\* What a write of a plan leaves.
LEMMA PlannedIs ==
  ASSUME NEW b, Sound(b), b.plan # None, NEW edit \in PlanWrite
  PROVE  LET c == Planned(b, edit)
         IN  /\ c \in Book /\ c.attempts = b.attempts /\ c.open = b.open
             /\ c.plan \in PlanRow /\ c.plan # None
             /\ c.plan.status = Written(b.plan.status, edit.status)
             /\ c.plan.count = Written(b.plan.count, edit.count)
             /\ c.plan.max = Written(b.plan.max, edit.max)
             /\ c.plan.time = Written(b.plan.time, edit.time)
<1> DEFINE c == Planned(b, edit)
           plan == ApplyPlanWrite(b.plan, edit)
<1>1. b \in Book /\ b.plan \in PlanRow
  BY BookColumns DEF Sound
<1>2. /\ plan \in PlanRow /\ plan # None
      /\ plan.status = Written(b.plan.status, edit.status)
      /\ plan.count = Written(b.plan.count, edit.count)
      /\ plan.max = Written(b.plan.max, edit.max)
      /\ plan.time = Written(b.plan.time, edit.time)
  <2>1. plan \in PlanRow
    BY <1>1 DEF ApplyPlanWrite, PlanWrite, PlanRow, Written
  <2>. QED  BY <2>1, NoneIsNoRow DEF ApplyPlanWrite
<1>3. c = [b EXCEPT !.plan = plan]
  BY DEF Planned
<1> HIDE DEF plan, c
<1>4. c \in Book /\ c.plan = plan /\ c.attempts = b.attempts /\ c.open = b.open
  BY <1>1, <1>2, <1>3 DEF Book
<1>. QED  BY <1>2, <1>4 DEF c

\* Escalations and the mandate's own status leave attempts and plan alone.
LEMMA OpenedIs ==
  ASSUME NEW b, Sound(b)
  PROVE  LET c == Opened(b)
         IN  /\ Sound(c) /\ Gentle(b, c) /\ (Counted(b) => Counted(c))
             /\ c.open = b.open + 1 /\ c.attempts = b.attempts /\ c.plan = b.plan
<1> DEFINE c == Opened(b)
<1>1. b \in Book /\ b.open \in Nat /\ DOMAIN b.attempts = 1..Len(b.attempts)
  BY BookColumns DEF Sound
<1>2. c = [b EXCEPT !.open = b.open + 1]
  BY DEF Opened
<1> HIDE DEF c
<1>3. c \in Book /\ c.open = b.open + 1 /\ c.attempts = b.attempts /\ c.plan = b.plan
  BY <1>1, <1>2 DEF Book
<1>4. Gentle(b, c)
  BY <1>1, <1>3 DEF Gentle, Kept
<1>. QED  BY <1>3, <1>4 DEF Sound, Counted, c

LEMMA ResolvedIs ==
  ASSUME NEW b, Sound(b), b.open > 0
  PROVE  LET c == Resolved(b)
         IN  Sound(c) /\ c.attempts = b.attempts /\ c.plan = b.plan
<1> DEFINE c == Resolved(b)
<1>1. b \in Book /\ b.open \in Nat
  BY BookColumns DEF Sound
<1>2. c = [b EXCEPT !.open = b.open - 1] /\ b.open - 1 \in Nat
  BY <1>1 DEF Resolved
<1> HIDE DEF c
<1>3. c \in Book /\ c.attempts = b.attempts /\ c.plan = b.plan
  BY <1>1, <1>2 DEF Book
<1>. QED  BY <1>3 DEF Sound, c

LEMMA LeftInIs ==
  ASSUME NEW b, Sound(b), NEW final \in SUBSET MandateStatus, NEW c \in LeftIn(b, final)
  PROVE  Sound(c) /\ c.attempts = b.attempts /\ c.plan = b.plan /\ c.open = b.open
<1>1. b \in Book
  BY DEF Sound
<1>2. PICK s \in final : c = [b EXCEPT !.mandate = s]
  BY DEF LeftIn
<1>3. c \in Book /\ c.attempts = b.attempts /\ c.plan = b.plan /\ c.open = b.open
  BY <1>1, <1>2 DEF Book
<1>. QED  BY <1>3 DEF Sound

LEMMA NewBookIs ==
  /\ Sound(NewBook) /\ NewBook # None
  /\ NewBook.attempts = <<>> /\ NewBook.plan = None /\ NewBook.open = 0
<1>1. NewBook \in Book
  BY DEF NewBook, Book, MandateStatus
<1>2. NewBook.attempts = <<>> /\ NewBook.plan = None /\ NewBook.open = 0
  BY DEF NewBook
<1>. QED  BY <1>1, <1>2, NoneIsNoBook DEF Sound

-----------------------------------------------------------------------------
(* What holds of the books between any two steps *)

BooksSound ==
  \A m \in Mandates : Exists(m) => Sound(book[m]) /\ (m # Demo => Counted(book[m]))

\* The steps of a run that still rely on the context it took.
Relying == {"decide", "communicate", "escalate", "act", "advance"}

\* A mandate of the batch has a plan, which nobody exhausts before its own run does.
BatchHasPlans ==
  /\ job.of \notin job.todo
  /\ \A m \in Mandates :
       Exists(m) /\ (m \in job.todo \/ m = job.of) =>
         /\ book[m].plan # None
         /\ m # Demo /\ (m \in job.todo \/ job.pc \in Relying \union {"context"}) =>
              book[m].plan.status # "exhausted"

\* What a run read stays true in what it will use it for: the budget's limit.
ContextTrue ==
  /\ job.pc \in Relying =>
       /\ job.ctx.plan \in PlanRow /\ WithinMax(job.ctx.plan)
       /\ job.of # Demo => job.ctx.plan.count < job.ctx.plan.max \/ job.ctx.plan.max = 0
       /\ Exists(job.of) => book[job.of].plan.max = job.ctx.plan.max
  /\ job.pc = "advance" => IsRetryAllowed(job.ctx)

\* The attempts the settlement job has listed and not finished with.
InHand == settling.todo \union ({settling.of} \ {None})

\* They are attempts there are, unless the mandate is gone; the one whose turn it is has a
\* copy in the session.
SettlingOK ==
  /\ settling \in [todo: SUBSET (Mandates \X Nat), of: (Mandates \X Nat) \union {None},
                   seen: Attempt \union {None}]
  /\ settling.of # None => settling.seen # None
  /\ \A x \in InHand : Exists(x[1]) => x[2] \in DOMAIN book[x[1]].attempts

-----------------------------------------------------------------------------
(* Frames *)

\* A step of another actor that changes no book, or changes books gently.
LEMMA GentleKeepsBatch ==
  ASSUME RunInv, BooksSound, BatchHasPlans, ContextTrue, UNCHANGED job,
         \A m \in Mandates : Exists(m)' =>
           \/ /\ Exists(m) /\ Kept(book[m], book'[m])
              /\ m # Demo => Gentle(book[m], book'[m])
           \/ m \notin job.todo /\ m # job.of
  PROVE  BatchHasPlans' /\ ContextTrue'
<1>1. BatchHasPlans'
  <2>. SUFFICES ASSUME NEW m \in Mandates, Exists(m)', m \in job.todo \/ m = job.of
                PROVE  /\ book'[m].plan # None
                       /\ m # Demo /\ (m \in job.todo \/ job.pc \in Relying \union {"context"}) =>
                            book'[m].plan.status # "exhausted"
    BY DEF BatchHasPlans
  <2>1. /\ Exists(m) /\ Kept(book[m], book'[m])
        /\ m # Demo => Gentle(book[m], book'[m])
    OBVIOUS
  <2>2. /\ book[m].plan # None
        /\ m # Demo /\ (m \in job.todo \/ job.pc \in Relying \union {"context"}) =>
             book[m].plan.status # "exhausted"
    BY <2>1 DEF BatchHasPlans
  <2>. QED  BY <2>1, <2>2 DEF Gentle, Kept
<1>2. ContextTrue'
  <2>1. CASE job.pc \notin Relying
    BY <2>1 DEF ContextTrue, Relying
  <2>2. CASE job.pc \in Relying /\ ~Exists(job.of)'
    BY <2>2 DEF ContextTrue
  <2>3. CASE job.pc \in Relying /\ Exists(job.of)'
    <3>1. job.of \in Mandates
      BY <2>3 DEF RunInv, JobInv, Relying
    <3>2. Exists(job.of) /\ Kept(book[job.of], book'[job.of]) /\ book[job.of].plan # None
      BY <2>3, <3>1 DEF BatchHasPlans
    <3>3. book'[job.of].plan.max = book[job.of].plan.max
      BY <3>2 DEF Kept
    <3>. QED  BY <2>3, <3>2, <3>3 DEF ContextTrue
  <2>. QED  BY <2>1, <2>2, <2>3
<1>. QED  BY <1>1, <1>2

\* One mandate's book is replaced.
LEMMA OneBookChanges ==
  ASSUME RunInv, BooksSound, NEW m \in Mandates, NEW c, book' = [book EXCEPT ![m] = c],
         c # None => Sound(c) /\ (m # Demo => Counted(c))
  PROVE  /\ BooksSound'
         /\ book'[m] = c
         /\ \A x \in Mandates : x # m => book'[x] = book[x]
<1>1. book'[m] = c /\ \A x \in Mandates : x # m => book'[x] = book[x]
  BY DEF RunInv, RecordKinds
<1>. QED  BY <1>1 DEF BooksSound, Exists

LEMMA SameIsGentle ==
  ASSUME NEW b, Sound(b)
  PROVE  Kept(b, b) /\ Gentle(b, b)
BY BookColumns DEF Sound, Kept, Gentle

-----------------------------------------------------------------------------
(* The steps of the retry job *)

BooksOfJob == BooksSound /\ BatchHasPlans /\ ContextTrue

\* A step within a run whose changes of books are gentle.
LEMMA RunMovesOn ==
  ASSUME RunInv, BooksOfJob, BooksSound',
         job'.todo = job.todo, job'.of = job.of,
         job'.pc \in Relying \union {"context"} => job.pc \in Relying \union {"context"},
         job'.pc \in Relying => job.pc \in Relying /\ UNCHANGED job.ctx,
         job'.pc = "advance" => IsRetryAllowed(job.ctx),
         \A m \in Mandates : Exists(m)' => Exists(m) /\ Gentle(book[m], book'[m])
  PROVE  BooksOfJob'
<1>1. BatchHasPlans'
  <2>. SUFFICES ASSUME NEW m \in Mandates, Exists(m)', m \in job.todo \/ m = job.of
                PROVE  /\ book'[m].plan # None
                       /\ m # Demo /\ (m \in job.todo \/ job'.pc \in Relying \union {"context"})
                            => book'[m].plan.status # "exhausted"
    BY DEF BooksOfJob, BatchHasPlans
  <2>1. Exists(m) /\ Gentle(book[m], book'[m])
    OBVIOUS
  <2>2. /\ book[m].plan # None
        /\ m # Demo /\ (m \in job.todo \/ job.pc \in Relying \union {"context"}) =>
             book[m].plan.status # "exhausted"
    BY <2>1 DEF BooksOfJob, BatchHasPlans
  <2>. QED  BY <2>1, <2>2 DEF Gentle, Kept
<1>2. ContextTrue'
  <2>1. CASE job'.pc \notin Relying
    BY <2>1 DEF ContextTrue, Relying
  <2>2. CASE job'.pc \in Relying /\ ~Exists(job.of)'
    BY <2>2 DEF BooksOfJob, ContextTrue
  <2>3. CASE job'.pc \in Relying /\ Exists(job.of)'
    <3>1. job.of \in Mandates
      BY <2>3 DEF RunInv, JobInv, Relying
    <3>2. Exists(job.of) /\ Kept(book[job.of], book'[job.of]) /\ book[job.of].plan # None
      BY <2>3, <3>1 DEF BooksOfJob, BatchHasPlans, Gentle
    <3>3. book'[job.of].plan.max = book[job.of].plan.max
      BY <3>2 DEF Kept
    <3>. QED  BY <2>3, <3>2, <3>3 DEF BooksOfJob, ContextTrue
  <2>. QED  BY <2>1, <2>2, <2>3
<1>. QED  BY <1>1, <1>2 DEF BooksOfJob

LEMMA SameBooks ==
  ASSUME BooksSound, UNCHANGED book
  PROVE  /\ BooksSound'
         /\ \A m \in Mandates : Exists(m)' => Exists(m) /\ Gentle(book[m], book'[m])
<1>1. \A m \in Mandates : Exists(m) => Gentle(book[m], book[m])
  BY SameIsGentle DEF BooksSound
<1>. QED  BY <1>1 DEF BooksSound, Exists

\* Nothing is asked of a job that has no run and nothing left to do but what it had.
LEMMA BetweenRuns ==
  ASSUME RunInv, BooksOfJob, UNCHANGED book, job'.of = None,
         job'.pc \in {"idle", "pick"}, job'.todo \in {job.todo, {}}
  PROVE  BooksOfJob'
<1>1. BooksSound'
  BY SameBooks DEF BooksOfJob
<1>2. None \notin job'.todo /\ job'.todo \subseteq job.todo
  BY NoneIsNoRun DEF RunInv, JobInv
<1>. QED  BY <1>1, <1>2, NoneIsNoRun DEF BooksOfJob, BatchHasPlans, ContextTrue, Relying, Exists

LEMMA TickKeepsBooks ==
  ASSUME RunInv, BooksOfJob, Tick
  PROVE  BooksOfJob'
<1>1. /\ job'.todo = {m \in Mandates : Selected(m)} /\ job'.of = None /\ job'.pc = "pick"
      /\ UNCHANGED book
  BY DEF Tick, At, RunInv, JobInv, JobShape
<1>2. \A m \in Mandates : Selected(m) => book[m].plan # None /\ book[m].plan.status # "exhausted"
  BY DEF Selected, Due, HasDuePlan, ActiveRetryStatus
<1>3. BooksSound'
  BY <1>1, SameBooks DEF BooksOfJob
<1>4. BatchHasPlans'
  BY <1>1, <1>2, NoneIsNoRun DEF BatchHasPlans, Relying
<1>. QED  BY <1>1, <1>3, <1>4 DEF BooksOfJob, ContextTrue, Relying

LEMMA PickKeepsBooks ==
  ASSUME RunInv, BooksOfJob, Pick
  PROVE  BooksOfJob'
<1>1. PICK d \in job.todo :
        job' = [job EXCEPT !.pc = "context", !.todo = @ \ {d}, !.of = d]
  BY DEF Pick
<1>2. /\ job'.pc = "context" /\ job'.of = d /\ job'.todo = job.todo \ {d}
      /\ UNCHANGED book
  BY <1>1 DEF Pick, RunInv, JobInv, JobShape
<1>3. BooksSound'
  BY <1>2, SameBooks DEF BooksOfJob
<1>4. BatchHasPlans'
  BY <1>2 DEF BooksOfJob, BatchHasPlans, Exists
<1>. QED  BY <1>2, <1>3, <1>4 DEF BooksOfJob, ContextTrue, Relying

LEMMA TakeContextKeepsBooks ==
  ASSUME RunInv, BooksOfJob, TakeContext
  PROVE  BooksOfJob'
<1> DEFINE m == job.of
           ctx == ContextOf(book[job.of])
<1>0. JobShape /\ m \in Mandates /\ Exists(m) /\ job.pc = "context"
  BY DEF TakeContext, At, RunInv, JobInv
<1>1. /\ job'.pc = "decide" /\ job'.of = m /\ job'.todo = job.todo /\ job'.ctx = ctx
      /\ UNCHANGED book
  <2> DEFINE begun == Started(ctx)
  <2>1. begun = [job EXCEPT !.ctx = ctx, !.decision = None, !.history = 0]
    BY DEF Started
  <2>2. job' = [[begun EXCEPT !.pc = "decide"] EXCEPT !.history = @ + 1]
    BY DEF TakeContext, Advance, AddHistory
  <2> HIDE DEF begun, ctx
  <2>3. /\ begun.of = job.of /\ begun.todo = job.todo /\ begun.ctx = ctx
        /\ begun = [pc |-> begun.pc, todo |-> begun.todo, of |-> begun.of, ctx |-> begun.ctx,
                    decision |-> begun.decision, history |-> begun.history,
                    fresh |-> begun.fresh, broken |-> begun.broken]
    BY <1>0, <2>1 DEF JobShape
  <2>. QED  BY <2>2, <2>3 DEF TakeContext
<1>2. /\ Sound(book[m]) /\ (m # Demo => Counted(book[m])) /\ book[m].plan # None
      /\ m # Demo => book[m].plan.status # "exhausted"
  BY <1>0 DEF BooksOfJob, BooksSound, BatchHasPlans
<1>3. ctx.plan = book[m].plan
  BY DEF ContextOf
<1>4. ctx.plan \in PlanRow /\ WithinMax(ctx.plan)
  BY <1>2, <1>3, BookColumns DEF Sound
<1>6. m # Demo => ctx.plan.count < ctx.plan.max \/ ctx.plan.max = 0
  BY <1>2, <1>3 DEF Counted
<1>7. BooksSound'
  BY <1>1, SameBooks DEF BooksOfJob
<1>8. BatchHasPlans'
  BY <1>0, <1>1 DEF BooksOfJob, BatchHasPlans, Exists
<1>9. ContextTrue'
  <2>1. job'.pc # "advance" /\ book'[m] = book[m]
    BY <1>1
  <2> HIDE DEF ctx
  <2>. QED  BY <1>1, <1>3, <1>4, <1>6, <2>1 DEF ContextTrue
<1>. QED  BY <1>7, <1>8, <1>9 DEF BooksOfJob

\* Escalating and booking an attempt are gentle.
LEMMA EscalateOrBookKeepsBooks ==
  ASSUME RunInv, BooksOfJob, Escalate \/ BookAttempt
  PROVE  BooksOfJob'
<1> DEFINE m == job.of
           b == book[job.of]
<1>0. JobShape /\ m \in Mandates /\ Exists(m) /\ Sound(b) /\ (m # Demo => Counted(b))
  BY DEF Escalate, BookAttempt, At, RunInv, JobInv, BooksOfJob, BooksSound
<1>1. PICK c : /\ book' = [book EXCEPT ![m] = c]
               /\ Sound(c) /\ Gentle(b, c) /\ (Counted(b) => Counted(c))
  <2>1. CASE Escalate
    <3>1. book' = [book EXCEPT ![m] = Opened(b)]
      BY <2>1 DEF Escalate
    <3>. QED  BY <1>0, <3>1, OpenedIs
  <2>2. CASE BookAttempt
    <3>1. book' = [book EXCEPT ![m] = Recorded(b)]
      BY <2>2 DEF BookAttempt
    <3>. QED  BY <1>0, <3>1, RecordedIs
  <2>. QED  BY <2>1, <2>2
<1>2. BooksSound' /\ book'[m] = c /\ \A x \in Mandates : x # m => book'[x] = book[x]
  BY <1>0, <1>1, OneBookChanges DEF BooksOfJob
<1>3. \A x \in Mandates : Exists(x)' => Exists(x) /\ Gentle(book[x], book'[x])
  <2>1. \A x \in Mandates : Exists(x) => Gentle(book[x], book[x])
    BY SameIsGentle DEF BooksOfJob, BooksSound
  <2>. QED  BY <1>0, <1>1, <1>2, <2>1 DEF Exists
<1>4. job'.todo = job.todo /\ job'.of = job.of /\ UNCHANGED job.ctx
      /\ job.pc \in {"escalate", "act"}
  BY <1>0 DEF Escalate, BookAttempt, At, CommitTo, Advance, AddHistory, Committed, JobShape
<1>5. /\ job'.pc \in {"act", "advance"}
      /\ job'.pc = "advance" => job.decision.retry /\ job.pc = "act"
  BY <1>0 DEF Escalate, BookAttempt, At, CommitTo, Advance, AddHistory, Committed, JobShape
<1>6. job'.pc = "advance" => IsRetryAllowed(job.ctx)
  BY <1>5 DEF RunInv, JobInv, Decided
<1>. QED  BY <1>2, <1>3, <1>4, <1>5, <1>6, RunMovesOn DEF Relying

\* What the last write of a run leaves of its plan.
LEMMA LastWriteKeepsBooks ==
  ASSUME RunInv, BooksOfJob, job.pc \in {"act", "advance"}, Exists(job.of),
         NEW edit \in PlanWrite, book' = [book EXCEPT ![job.of] = Planned(book[job.of], edit)],
         job'.pc = "persist", job'.of = job.of, job'.todo = job.todo,
         LET c == Planned(book[job.of], edit) IN
           /\ WithinMax(c.plan)
           /\ job.of # Demo => Counted(c)
  PROVE  BooksOfJob'
<1> DEFINE m == job.of
           b == book[job.of]
           c == Planned(b, edit)
<1>1. m \in Mandates /\ Sound(b) /\ b.plan # None
  BY DEF RunInv, JobInv, BooksOfJob, BooksSound, BatchHasPlans
<1>2. c \in Book /\ c.attempts = b.attempts /\ c.plan # None
  BY <1>1, PlannedIs
<1>3. Sound(c)
  BY <1>2 DEF Sound
<1> HIDE DEF c
<1>4. BooksSound' /\ book'[m] = c /\ \A x \in Mandates : x # m => book'[x] = book[x]
  BY <1>1, <1>3, OneBookChanges DEF BooksOfJob, c
<1>5. BatchHasPlans'
  BY <1>1, <1>2, <1>4 DEF BooksOfJob, BatchHasPlans, Relying, Exists
<1>. QED  BY <1>4, <1>5 DEF BooksOfJob, ContextTrue, Relying

LEMMA AdvanceKeepsBooks ==
  ASSUME RunInv, BooksOfJob, AdvancePlan
  PROVE  BooksOfJob'
<1> DEFINE m == job.of
           b == book[job.of]
           plan == job.ctx.plan
           edit == Advancement(plan)
           c == Planned(b, edit)
<1>1. /\ JobShape /\ m \in Mandates /\ Exists(m) /\ job.pc = "advance"
      /\ book' = [book EXCEPT ![m] = c]
  BY DEF AdvancePlan, At, RunInv, JobInv
<1>2. job'.pc = "persist" /\ job'.of = job.of /\ job'.todo = job.todo
  BY <1>1 DEF AdvancePlan, CommitTo, Committed, JobShape
<1>3. /\ Sound(b) /\ b.plan # None /\ (m # Demo => Counted(b) /\ b.plan.status # "exhausted")
      /\ plan \in PlanRow /\ b.plan.max = plan.max /\ IsRetryAllowed(job.ctx)
  BY <1>1 DEF BooksOfJob, BooksSound, BatchHasPlans, ContextTrue, Relying
<1>4. plan.count \in Nat /\ plan.max \in Nat /\ plan.count < plan.max
  BY <1>3 DEF IsRetryAllowed, RemainingRetryAttempts, PlanRow
<1>5. /\ edit \in PlanWrite /\ edit.count = plan.count + 1 /\ edit.max = None
      /\ \/ plan.count + 1 = plan.max /\ edit.status = "exhausted"
         \/ plan.count + 1 < plan.max /\ edit.status = None
  <2> DEFINE n == plan.count + 1
  <2>1. n \in Nat
    BY <1>4
  <2>2. CASE n >= plan.max
    <3>1. edit = [NoWrite EXCEPT !.count = n, !.status = "exhausted"]
      BY <2>2 DEF Advancement
    <3> HIDE DEF n, edit
    <3>2. edit \in PlanWrite /\ edit.count = n /\ edit.max = None /\ edit.status = "exhausted"
      BY <2>1, <3>1 DEF NoWrite, PlanWrite, RetryStatus
    <3>. QED  BY <1>4, <2>2, <3>2 DEF n
  <2>3. CASE ~(n >= plan.max)
    <3>1. edit = [NoWrite EXCEPT !.count = n, !.time = "later"]
      BY <2>3 DEF Advancement
    <3> HIDE DEF n, edit
    <3>2. edit \in PlanWrite /\ edit.count = n /\ edit.max = None /\ edit.status = None
      BY <2>1, <3>1 DEF NoWrite, PlanWrite, PlanTime
    <3>. QED  BY <1>4, <2>3, <3>2 DEF n
  <2>. QED  BY <2>2, <2>3
<1> HIDE DEF edit
<1>6. /\ c.plan.status = IF edit.status = None THEN b.plan.status ELSE edit.status
      /\ c.plan.count = plan.count + 1 /\ c.plan.max = plan.max /\ c.plan # None
  <2>1. plan.count + 1 # None
    BY <1>4, NoneIsNoCount
  <2>. QED  BY <1>3, <1>5, <2>1, PlannedIs DEF Written
<1>7. "exhausted" # None
  BY NoneIsNoStatus DEF RetryStatus
<1>8. WithinMax(c.plan)
  BY <1>4, <1>6 DEF WithinMax
<1>9. m # Demo => Counted(c)
  BY <1>3, <1>4, <1>5, <1>6, <1>7 DEF Counted
<1> HIDE DEF c
<1>10. Exists(job.of) /\ job.pc \in {"act", "advance"} /\ edit \in PlanWrite
  BY <1>1, <1>5
<1>. QED  BY <1>1, <1>2, <1>8, <1>9, <1>10, LastWriteKeepsBooks DEF c

LEMMA CloseKeepsBooks ==
  ASSUME RunInv, BooksOfJob, ClosePlan
  PROVE  BooksOfJob'
<1> DEFINE m == job.of
           b == book[job.of]
           plan == job.ctx.plan
           status == CloseOutStatus(job.ctx)
           edit == [NoWrite EXCEPT !.status = status]
           c == Planned(b, edit)
<1>1. /\ JobShape /\ m \in Mandates /\ Exists(m) /\ job.pc = "act"
      /\ book' = [book EXCEPT ![m] = c]
  BY DEF ClosePlan, At, RunInv, JobInv
<1>2. job'.pc = "persist" /\ job'.of = job.of /\ job'.todo = job.todo
  BY <1>1 DEF ClosePlan, CommitTo, Committed, JobShape
<1>3. /\ Sound(b) /\ b.plan # None /\ (m # Demo => Counted(b) /\ b.plan.status # "exhausted")
      /\ plan \in PlanRow /\ b.plan.max = plan.max
      /\ m # Demo => plan.count < plan.max \/ plan.max = 0
  BY <1>1 DEF BooksOfJob, BooksSound, BatchHasPlans, ContextTrue, Relying
<1>4. plan.count \in Nat /\ plan.max \in Nat /\ b.plan \in PlanRow
  BY <1>3, BookColumns DEF PlanRow, Sound
<1>5. /\ status \in {"executed", "exhausted", "cancelled"}
      /\ status = "exhausted" => plan.count >= plan.max
  BY <1>3 DEF CloseOutStatus
<1>6. /\ edit \in PlanWrite /\ edit.status = status /\ edit.count = None /\ edit.max = None
      /\ status # None
  BY <1>5, NoneIsNoStatus DEF NoWrite, PlanWrite, RetryStatus
<1> HIDE DEF edit, status
<1>7. /\ c.plan.status = status /\ c.plan.count = b.plan.count /\ c.plan.max = b.plan.max
      /\ c.plan # None
  BY <1>3, <1>6, PlannedIs DEF Written
<1>8. WithinMax(c.plan)
  BY <1>3, <1>7 DEF WithinMax, Sound
<1>9. m # Demo => Counted(c)
  <2>1. b.plan.count \in Nat /\ b.plan.max \in Nat /\ b.plan.count <= b.plan.max
    BY <1>3, <1>4 DEF PlanRow, Sound, WithinMax
  <2>. QED  BY <1>3, <1>4, <1>5, <1>7, <2>1 DEF Counted
<1> HIDE DEF c
<1>10. Exists(job.of) /\ job.pc \in {"act", "advance"} /\ edit \in PlanWrite
  BY <1>1, <1>6
<1>. QED  BY <1>1, <1>2, <1>8, <1>9, <1>10, LastWriteKeepsBooks DEF c

LEMMA BatchKeepsBooks ==
  ASSUME RunInv, BooksOfJob, BatchStep \/ StepFails \/ Unrecorded
  PROVE  BooksOfJob'
<1>. USE DEF RunInv
<1>0. JobShape /\ (UNCHANGED book => BooksSound' /\
        \A m \in Mandates : Exists(m)' => Exists(m) /\ Gentle(book[m], book'[m]))
  BY SameBooks DEF BooksOfJob, JobInv
<1>1. CASE BatchAborts \/ BatchDone
  BY <1>1, NoJobFits, BetweenRuns DEF BatchAborts, BatchDone
<1>2. CASE LogDecision \/ RecordFailure \/ Unrecorded
  <2>1. job'.of = None /\ job'.pc = "pick" /\ job'.todo = job.todo /\ UNCHANGED book
    BY <1>2, NextOfBatchFits DEF LogDecision, RecordFailure, Unrecorded
  <2>. QED  BY <2>1, BetweenRuns
<1>3. CASE AskProvider
  <2>1. UNCHANGED <<job, book>> /\ (job.pc = "advance" => IsRetryAllowed(job.ctx))
    BY <1>3 DEF AskProvider, BooksOfJob, ContextTrue
  <2>. QED  BY <1>0, <2>1, RunMovesOn
<1>4. CASE Decide \/ Communicate \/ NoEscalationNeeded
  <2>1. /\ job'.of = job.of /\ job'.todo = job.todo /\ UNCHANGED job.ctx
        /\ job.pc \in Relying /\ job'.pc \in Relying \ {"advance"}
    BY <1>0, <1>4 DEF Decide, Communicate, NoEscalationNeeded, At, Advance, AddHistory,
       Committed, JobShape, Relying
  <2>2. UNCHANGED book
    BY <1>4 DEF Decide, Communicate, NoEscalationNeeded
  <2>. QED  BY <1>0, <2>1, <2>2, RunMovesOn
<1>5. CASE Persist \/ Finish \/ StepRefused \/ StepFails
  <2>1. /\ job'.of = job.of /\ job'.todo = job.todo
        /\ job'.pc \in {"finish", "log", "failing"}
    BY <1>0, <1>5 DEF Persist, Finish, StepRefused, StepFails, Fails, CommitTo, Advance,
       AddHistory, Committed, JobShape
  <2>2. UNCHANGED book
    BY <1>5 DEF Persist, Finish, StepRefused, StepFails
  <2>. QED  BY <1>0, <2>1, <2>2, RunMovesOn DEF Relying
<1>. QED
  BY <1>1, <1>2, <1>3, <1>4, <1>5, PickKeepsBooks, TakeContextKeepsBooks,
     EscalateOrBookKeepsBooks, AdvanceKeepsBooks, CloseKeepsBooks
     DEF BatchStep, RunStep, FailureUnrecorded

\* A step that leaves the books and the job as they are.
LEMMA NobodyKeepsBooks ==
  ASSUME RunInv, BooksOfJob, UNCHANGED <<job, book>>
  PROVE  BooksOfJob'
<1>1. BooksSound' /\ \A m \in Mandates : Exists(m)' => Exists(m) /\ Gentle(book[m], book'[m])
  BY SameBooks DEF BooksOfJob
<1>2. job.pc = "advance" => IsRetryAllowed(job.ctx)
  BY DEF BooksOfJob, ContextTrue
<1>. QED  BY <1>1, <1>2, RunMovesOn

-----------------------------------------------------------------------------
(* The settlement job *)

LEMMA ListedIs ==
  ASSUME BooksSound, NEW x \in Listed
  PROVE  /\ x \in Mandates \X Nat /\ Exists(x[1])
         /\ x[2] \in DOMAIN book[x[1]].attempts
         /\ book[x[1]].attempts[x[2]].status \in Unresolved
<1>1. PICK m \in Mandates : Exists(m) /\ x \in {m} \X UnresolvedOf(m)
  BY DEF Listed
<1>2. PICK i \in UnresolvedOf(m) : x = <<m, i>>
  BY <1>1
<1>3. i \in DOMAIN book[m].attempts /\ book[m].attempts[i].status \in Unresolved
  BY <1>2 DEF UnresolvedOf, StillUnresolved
<1>4. i \in Nat
  BY <1>1, <1>3, BookColumns DEF BooksSound, Sound
<1>. QED  BY <1>1, <1>2, <1>3, <1>4

\* The attempt whose turn it is is paid or declined; its book is sound before and after.
LEMMA SettleIs ==
  ASSUME RunInv, BooksSound, SettlingOK, Settle
  PROVE  \E m \in Mandates, i \in Nat :
           LET b == book[m] c == book'[m] seen == settling.seen IN
           /\ settling.of = <<m, i>> /\ seen \in Attempt
           /\ Exists(m) /\ c # None /\ i \in DOMAIN b.attempts /\ Sound(b)
           /\ \/ c = Paid(b, i, seen)
              \/ /\ MayFail(seen)
                 /\ \E category \in DeclineCategory : c = Declined(b, i, seen, category)
           /\ book' = [book EXCEPT ![m] = c]
<1>1. /\ settling.of \in Mandates \X Nat /\ settling.of \in InHand
      /\ settling.seen \in Attempt
  BY DEF Settle, SettlingOK, InHand
<1>2. PICK m \in Mandates, i \in Nat : settling.of = <<m, i>>
  BY <1>1
<1>3. Exists(m) /\ i \in DOMAIN book[m].attempts /\ Sound(book[m])
  BY <1>1, <1>2 DEF Settle, SettlingOK, BooksSound
<1> DEFINE seen == settling.seen
<1>4. PICK after : /\ book' = [book EXCEPT ![m] = after]
                   /\ \/ after = Paid(book[m], i, seen)
                      \/ /\ MayFail(seen)
                         /\ \E category \in SoftDeclines :
                              after = Declined(book[m], i, seen, category)
  <2>1. settling.of[1] = m /\ settling.of[2] = i
    BY <1>2
  <2>2. PICK after \in SettledAs(book[m], i, seen) : book' = [book EXCEPT ![m] = after]
    BY <2>1 DEF Settle
  <2>. QED  BY <2>2 DEF SettledAs
<1>5. book'[m] = after
  BY <1>4 DEF RunInv, RecordKinds
<1>6. SoftDeclines \subseteq DeclineCategory
  BY DevAssumption DEF SOFT_DECLINE_CATEGORIES, DeclineCategory
<1>7. after # None
  <2>1. CASE after = Paid(book[m], i, seen)
    BY <1>1, <1>3, <2>1, PaidIs, BookColumns DEF Sound
  <2>2. CASE \E category \in SoftDeclines : after = Declined(book[m], i, seen, category)
    BY <1>1, <1>3, <1>6, <2>2, DeclinedIs, BookColumns DEF Sound
  <2>. QED  BY <1>4, <2>1, <2>2
<1>8. /\ book' = [book EXCEPT ![m] = book'[m]]
      /\ \/ book'[m] = Paid(book[m], i, seen)
         \/ /\ MayFail(seen)
            /\ \E category \in DeclineCategory :
                 book'[m] = Declined(book[m], i, seen, category)
  BY <1>4, <1>5, <1>6
<1>. QED  BY <1>1, <1>2, <1>3, <1>5, <1>7, <1>8

\* After its turn the session holds no copy of it, and the others are still to do.
LEMMA TurnOverIs ==
  ASSUME SettlingOK, TurnOver
  PROVE  /\ settling' \in [todo: SUBSET (Mandates \X Nat), of: (Mandates \X Nat) \union {None},
                           seen: Attempt \union {None}]
         /\ settling'.todo = settling.todo /\ settling'.of = None /\ InHand' \subseteq InHand
<1>1. settling' = [settling EXCEPT !.of = None, !.seen = None]
  BY DEF TurnOver
<1>. QED  BY <1>1 DEF SettlingOK, InHand

\* A gentle change of one book, by another actor than the retry job.
LEMMA GentleChangeKeepsBooks ==
  ASSUME RunInv, BooksOfJob, UNCHANGED job, NEW m \in Mandates, Exists(m), NEW c,
         book' = [book EXCEPT ![m] = c], Sound(c), Gentle(book[m], c),
         Counted(book[m]) => Counted(c)
  PROVE  /\ BooksOfJob'
         /\ book'[m] = c /\ \A x \in Mandates : x # m => book'[x] = book[x]
<1>1. m # Demo => Counted(c)
  BY DEF BooksOfJob, BooksSound
<1>2. BooksSound' /\ book'[m] = c /\ \A x \in Mandates : x # m => book'[x] = book[x]
  BY <1>1, OneBookChanges DEF BooksOfJob
<1>3. \A x \in Mandates : Exists(x)' => Exists(x) /\ Gentle(book[x], book'[x])
  <2>1. \A x \in Mandates : Exists(x) => Gentle(book[x], book[x])
    BY SameIsGentle DEF BooksOfJob, BooksSound
  <2>. QED  BY <1>2, <2>1 DEF Exists
<1>4. job.pc = "advance" => IsRetryAllowed(job.ctx)
  BY DEF BooksOfJob, ContextTrue
<1>. QED  BY <1>2, <1>3, <1>4, RunMovesOn

LEMMA GentleChangeKeepsSettling ==
  ASSUME RunInv, SettlingOK, UNCHANGED settling \/ TurnOver,
         NEW m \in Mandates, Exists(m), NEW c,
         book' = [book EXCEPT ![m] = c], DOMAIN book[m].attempts \subseteq DOMAIN c.attempts
  PROVE  SettlingOK'
<1>1. book'[m] = c /\ \A x \in Mandates : x # m => book'[x] = book[x]
  BY DEF RunInv, RecordKinds
<1>2. /\ settling' \in [todo: SUBSET (Mandates \X Nat), of: (Mandates \X Nat) \union {None},
                        seen: Attempt \union {None}]
      /\ settling'.of # None => settling'.seen # None
      /\ InHand' \subseteq InHand /\ InHand \subseteq Mandates \X Nat
  BY TurnOverIs DEF SettlingOK, InHand
<1>3. ASSUME NEW x \in InHand', Exists(x[1])' PROVE x[2] \in DOMAIN book'[x[1]].attempts
  <2>1. x[1] \in Mandates /\ x \in InHand
    BY <1>2
  <2>2. CASE x[1] = m
    BY <1>1, <2>1, <2>2 DEF SettlingOK
  <2>3. CASE x[1] # m
    BY <1>1, <1>3, <2>1, <2>3 DEF SettlingOK, Exists
  <2>. QED  BY <2>2, <2>3
<1>. QED  BY <1>2, <1>3 DEF SettlingOK

LEMMA SettleKeepsBooks ==
  ASSUME RunInv, BooksOfJob, SettlingOK, Settle
  PROVE  BooksOfJob' /\ SettlingOK'
<1>1. PICK m \in Mandates, i \in Nat :
        LET b == book[m] c == book'[m] seen == settling.seen IN
        /\ settling.of = <<m, i>> /\ seen \in Attempt
        /\ Exists(m) /\ c # None /\ i \in DOMAIN b.attempts /\ Sound(b)
        /\ \/ c = Paid(b, i, seen)
           \/ /\ MayFail(seen)
              /\ \E category \in DeclineCategory : c = Declined(b, i, seen, category)
        /\ book' = [book EXCEPT ![m] = c]
  BY SettleIs DEF BooksOfJob
<1>2. PICK c : c = book'[m]
  OBVIOUS
<1>3. Sound(c) /\ Gentle(book[m], c) /\ (Counted(book[m]) => Counted(c))
  BY <1>1, <1>2, PaidIs, DeclinedIs
<1>4. UNCHANGED job /\ TurnOver
  BY DEF Settle
<1>5. BooksOfJob'
  BY <1>1, <1>2, <1>3, <1>4, GentleChangeKeepsBooks
<1>6. SettlingOK'
  BY <1>1, <1>2, <1>3, <1>4, GentleChangeKeepsSettling DEF Gentle, Kept
<1>. QED  BY <1>5, <1>6

LEMMA ComesDueIs ==
  ASSUME RunInv, BooksSound, NEW m \in Mandates, ComesDue(m)
  PROVE  LET b == book[m] c == book'[m] IN
         /\ Exists(m) /\ book' = [book EXCEPT ![m] = c]
         /\ Sound(c) /\ Gentle(b, c) /\ (Counted(b) => Counted(c))
         /\ c.attempts = b.attempts /\ c.plan.status = b.plan.status
<1> DEFINE b == book[m]
           plan == [b.plan EXCEPT !.time = "due"]
           c == [b EXCEPT !.plan = plan]
<1>1. Exists(m) /\ b.plan # None /\ book' = [book EXCEPT ![m] = c]
  BY DEF ComesDue
<1>2. Sound(b) /\ b \in Book /\ b.plan \in PlanRow /\ DOMAIN b.attempts = 1..Len(b.attempts)
      /\ b.open \in Nat
  BY <1>1, BookColumns DEF BooksSound, Sound
<1>3. /\ plan \in PlanRow /\ plan.status = b.plan.status /\ plan.count = b.plan.count
      /\ plan.max = b.plan.max /\ plan # None
  <2>1. plan \in PlanRow
    BY <1>2 DEF PlanRow, PlanTime
  <2>. QED  BY <1>2, <2>1, NoneIsNoRow DEF PlanRow
<1> HIDE DEF plan
<1>4. c \in Book /\ c.plan = plan /\ c.attempts = b.attempts /\ c.open = b.open
  BY <1>2, <1>3 DEF Book
<1> HIDE DEF c
<1>5. book'[m] = c
  BY <1>1 DEF RunInv, RecordKinds
<1>6. Gentle(b, c)
  BY <1>2, <1>3, <1>4 DEF Gentle, Kept
<1>7. Sound(c) /\ (Counted(b) => Counted(c))
  BY <1>1, <1>2, <1>3, <1>4 DEF Sound, Counted, WithinMax
<1>. QED  BY <1>1, <1>3, <1>4, <1>5, <1>6, <1>7
=============================================================================
