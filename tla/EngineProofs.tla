---------------------------- MODULE EngineProofs ----------------------------
(***************************************************************************)
(* Theorems about Engine, for every set of tasks, every dependency graph   *)
(* and all bounds: types, one run per review, and final run statuses.      *)
(***************************************************************************)
EXTENDS Engine, SequenceTheorems, FiniteSetTheorems, TLAPS

-----------------------------------------------------------------------------
(* What every transaction of the Ledger keeps, whoever calls it: types,    *)
(* growing tables, final run statuses, reviews that never become pending   *)
(* again, and the link from a run to its review.                           *)

LedgerOK ==
  /\ tasks \in [Tasks -> TaskRow]
  /\ runs \in Seq(RunRow) /\ Len(runs) <= MaxRuns
  /\ reviews \in Seq(ReviewRow) /\ Len(reviews) <= MaxReviews
  /\ asked \subseteq DOMAIN runs
  /\ \A r \in DOMAIN runs : runs[r].review \in {0} \cup DOMAIN reviews

Grown ==
  /\ DOMAIN runs \subseteq DOMAIN runs'
  /\ DOMAIN reviews \subseteq DOMAIN reviews'
  /\ \A r \in DOMAIN runs : runs'[r].task = runs[r].task
  /\ \A r \in DOMAIN runs : runs[r].review # 0 => runs'[r].review = runs[r].review

\* No review becomes pending again.
NoRepend ==
  \A v \in DOMAIN reviews :
    reviews[v].status # "pending" => reviews'[v].status # "pending"

StoreStep == LedgerOK' /\ Grown /\ NoRepend /\ FinalStep

\* No run is linked to a review by this step.
LinksKept ==
  \A r \in DOMAIN runs' :
    runs'[r].review = IF r \in DOMAIN runs THEN runs[r].review ELSE 0

-----------------------------------------------------------------------------

\* A task moved to another status keeps its row type.
LEMMA MovedType ==
  ASSUME NEW row \in TaskRow, NEW s \in TaskStatus
  PROVE  Moved(row, s) \in TaskRow
<1>1. row.gate \in BOOLEAN
  BY Zenon DEF TaskRow
<1>2. row.reworks + (IF s = "rework" THEN 1 ELSE 0) \in Nat
  BY DEF TaskRow
<1>. QED
  BY <1>1, <1>2, Zenon DEF Moved, TaskRow

\* Setting its gate does too.
LEMMA GatedType ==
  ASSUME NEW row \in TaskRow, NEW g \in BOOLEAN
  PROVE  Gated(row, g) \in TaskRow
BY Zenon DEF Gated, TaskRow

\* One task moved leaves the table of tasks well typed.
LEMMA WithTaskType ==
  ASSUME LedgerOK, NEW t \in Tasks, NEW s \in TaskStatus
  PROVE  WithTask(t, s) \in [Tasks -> TaskRow]
BY MovedType DEF LedgerOK, WithTask

\* One field of one run changes.
LEMMA RunUpdate ==
  ASSUME LedgerOK, NEW r \in DOMAIN runs, NEW row \in RunRow
  PROVE  LET new == [runs EXCEPT ![r] = row]
         IN  /\ new \in Seq(RunRow) /\ Len(new) = Len(runs)
             /\ DOMAIN new = DOMAIN runs
             /\ new[r] = row
             /\ \A q \in DOMAIN runs : q # r => new[q] = runs[q]
<1>1. runs \in Seq(RunRow) /\ r \in 1..Len(runs)
  BY DEF LedgerOK
<1>. QED
  BY <1>1, ExceptSeq

LEMMA FinishedType ==
  ASSUME LedgerOK, NEW r \in DOMAIN runs, NEW s \in RunStatus
  PROVE  /\ Finished(r, s) \in Seq(RunRow)
         /\ Len(Finished(r, s)) = Len(runs)
         /\ DOMAIN Finished(r, s) = DOMAIN runs
         /\ \A q \in DOMAIN runs :
              /\ Finished(r, s)[q].task = runs[q].task
              /\ Finished(r, s)[q].review = runs[q].review
              /\ Finished(r, s)[q].status # runs[q].status
                   => runs[q].status = "running"
<1>1. runs[r] \in RunRow
  BY DEF LedgerOK
<1>2. [runs[r] EXCEPT !.status = s] \in RunRow
  BY <1>1 DEF RunRow
<1>3. \A q \in DOMAIN runs : runs[q] \in RunRow
  BY DEF LedgerOK
<1>4. CASE runs[r].status = "running"
  <2>1. Finished(r, s) = [runs EXCEPT ![r] = [runs[r] EXCEPT !.status = s]]
    BY <1>4 DEF Finished
  <2>2. LET new == Finished(r, s)
        IN  /\ new \in Seq(RunRow) /\ Len(new) = Len(runs)
            /\ DOMAIN new = DOMAIN runs
            /\ new[r] = [runs[r] EXCEPT !.status = s]
            /\ \A q \in DOMAIN runs : q # r => new[q] = runs[q]
    BY <2>1, <1>2, RunUpdate
  <2>3. \A q \in DOMAIN runs : q = r \/ Finished(r, s)[q] = runs[q]
    BY <2>2
  <2>4. /\ Finished(r, s)[r].task = runs[r].task
        /\ Finished(r, s)[r].review = runs[r].review
    BY <2>2, <1>1 DEF RunRow
  <2>. QED
    BY <2>2, <2>3, <2>4, <1>4
<1>5. CASE runs[r].status # "running"
  BY <1>5 DEF Finished, LedgerOK
<1>. QED
  BY <1>4, <1>5

LEMMA DecidedType ==
  ASSUME LedgerOK, NEW V, NEW s \in ReviewStatus, s # "pending"
  PROVE  /\ Decided(V, s) \in Seq(ReviewRow)
         /\ Len(Decided(V, s)) = Len(reviews)
         /\ DOMAIN Decided(V, s) = DOMAIN reviews
         /\ \A v \in DOMAIN reviews :
              reviews[v].status # "pending" => Decided(V, s)[v].status # "pending"
<1>1. /\ DOMAIN reviews = 1..Len(reviews) /\ Len(reviews) \in Nat
      /\ \A v \in DOMAIN reviews : reviews[v] \in ReviewRow
  BY DEF LedgerOK
<1>2. \A v \in DOMAIN reviews : [reviews[v] EXCEPT !.status = s] \in ReviewRow
  BY <1>1 DEF ReviewRow
<1>3. \A v \in DOMAIN reviews : Decided(V, s)[v] \in ReviewRow
  BY <1>1, <1>2 DEF Decided
<1>4. DOMAIN Decided(V, s) = 1..Len(reviews)
  BY <1>1 DEF Decided
<1>5. Decided(V, s) \in [1..Len(reviews) -> ReviewRow]
  BY <1>1, <1>3, <1>4 DEF Decided
<1>6. Decided(V, s) \in Seq(ReviewRow) /\ Len(Decided(V, s)) = Len(reviews)
  BY <1>1, <1>5
<1>7. \A v \in DOMAIN reviews :
        reviews[v].status # "pending" => Decided(V, s)[v].status # "pending"
  BY <1>1 DEF Decided, ReviewRow
<1>. QED
  BY <1>1, <1>4, <1>6, <1>7

LEMMA PromotedType ==
  ASSUME LedgerOK, NEW P
  PROVE  Promoted(P) \in [Tasks -> TaskRow]
BY MovedType DEF LedgerOK, Promoted, TaskStatus

\* A step that leaves runs and reviews alone.
LEMMA TasksOnly ==
  ASSUME LedgerOK, tasks' \in [Tasks -> TaskRow],
         UNCHANGED <<runs, reviews, asked>>
  PROVE  StoreStep /\ LinksKept
BY DEF LedgerOK, StoreStep, Grown, NoRepend, FinalStep, LinksKept

\* A step that decides reviews and may move tasks.
LEMMA ReviewsOnly ==
  ASSUME LedgerOK, tasks' \in [Tasks -> TaskRow],
         NEW V, NEW s \in ReviewStatus, s # "pending",
         reviews' = Decided(V, s), UNCHANGED <<runs, asked>>
  PROVE  StoreStep /\ LinksKept
<1>1. /\ reviews' \in Seq(ReviewRow) /\ Len(reviews') = Len(reviews)
      /\ DOMAIN reviews' = DOMAIN reviews
      /\ NoRepend
  BY DecidedType DEF NoRepend
<1>. QED
  BY <1>1 DEF LedgerOK, StoreStep, Grown, FinalStep, LinksKept

\* A step that finishes a run and may move tasks.
LEMMA FinishOnly ==
  ASSUME LedgerOK, tasks' \in [Tasks -> TaskRow],
         NEW r \in DOMAIN runs, NEW s \in RunStatus,
         runs' = Finished(r, s), UNCHANGED <<reviews, asked>>
  PROVE  StoreStep /\ LinksKept
<1>1. /\ runs' \in Seq(RunRow) /\ Len(runs') = Len(runs)
      /\ DOMAIN runs' = DOMAIN runs
      /\ \A q \in DOMAIN runs :
           /\ runs'[q].task = runs[q].task
           /\ runs'[q].review = runs[q].review
           /\ runs'[q].status # runs[q].status => runs[q].status = "running"
  BY FinishedType
<1>. QED
  BY <1>1 DEF LedgerOK, StoreStep, Grown, NoRepend, FinalStep, LinksKept

-----------------------------------------------------------------------------

Kept == StoreStep /\ LinksKept

\* promote_waiting_approval_ready
LEMMA PromoteWaitingKept ==
  ASSUME LedgerOK, PromoteWaiting
  PROVE  Kept
BY PromotedType, TasksOnly DEF PromoteWaiting, Kept

\* The transactions that only move tasks.
LEMMA TaskMovesKept ==
  ASSUME LedgerOK, NEW t \in Tasks,
         \/ PromoteDependents(t)
         \/ ClaimTask(t) \/ StallTask(t) \/ RefuseLanding(t)
         \/ \E s \in TaskStatus : CompleteRun(t, s)
         \/ MarkReady(t) \/ RetryTask(t) \/ MarkManual(t)
  PROVE  Kept
<1>1. tasks' \in [Tasks -> TaskRow]
  <2>1. CASE PromoteDependents(t)
    BY <2>1, PromotedType DEF PromoteDependents
  <2>2. CASE \E s \in TaskStatus : tasks' = WithTask(t, s)
    BY <2>2, WithTaskType
  <2>3. CASE tasks' = tasks
    BY <2>3 DEF LedgerOK
  <2>. QED
    BY <2>1, <2>2, <2>3
    DEF ClaimTask, StallTask, RefuseLanding, CompleteRun, MarkReady,
        RetryTask, MarkManual, TaskStatus
<1>2. UNCHANGED <<runs, reviews, asked>>
  BY DEF PromoteDependents, ClaimTask, StallTask, RefuseLanding,
         CompleteRun, MarkReady, RetryTask, MarkManual
<1>. QED
  BY <1>1, <1>2, TasksOnly DEF Kept

\* edit_task on the owner gate.
LEMMA EditGateKept ==
  ASSUME LedgerOK, NEW t \in Tasks, EditGate(t)
  PROVE  Kept
<1>1. tasks[t] \in TaskRow /\ Moved(tasks[t], "ready") \in TaskRow
  BY MovedType DEF LedgerOK, TaskStatus
<1>2. (~ tasks[t].gate) \in BOOLEAN
  BY Zenon
<1>3. /\ Gated(tasks[t], ~ tasks[t].gate) \in TaskRow
      /\ Gated(Moved(tasks[t], "ready"), FALSE) \in TaskRow
  BY <1>1, <1>2, GatedType
<1>4. \/ tasks' = [tasks EXCEPT ![t] = Gated(Moved(tasks[t], "ready"), FALSE)]
      \/ tasks' = [tasks EXCEPT ![t] = Gated(tasks[t], ~ tasks[t].gate)]
  BY DEF EditGate, LedgerOK
<1>5. tasks' \in [Tasks -> TaskRow]
  BY <1>3, <1>4 DEF LedgerOK
<1>. QED
  BY <1>5, TasksOnly DEF EditGate, Kept

\* The statuses a review is decided with.
LEMMA DecidingStatuses ==
  \A s \in {"done", "changes_requested", "waived", "running", "failed",
            "blocked", "reviewed"} : s \in ReviewStatus /\ s # "pending"
BY DEF ReviewStatus, Open

\* The transactions that decide or claim reviews.
LEMMA ReviewMovesKept ==
  ASSUME LedgerOK, NEW v \in DOMAIN reviews,
         \/ ClaimReview(v)
         \/ \E s \in {"failed", "blocked", "reviewed"} :
              SetReviewStatus(v, s) \/ CloseReviewRun(v, s)
  PROVE  Kept
<1>1. /\ tasks' = tasks /\ UNCHANGED <<runs, asked>>
      /\ \/ reviews' = reviews
         \/ \E s \in {"running", "failed", "blocked", "reviewed"} :
               reviews' = Decided({v}, s)
  BY DEF ClaimReview, SetReviewStatus, CloseReviewRun
<1>2. tasks' \in [Tasks -> TaskRow]
  BY <1>1 DEF LedgerOK
<1>3. CASE reviews' = reviews
  BY <1>1, <1>2, <1>3, TasksOnly DEF Kept
<1>4. CASE \E s \in {"running", "failed", "blocked", "reviewed"} :
             reviews' = Decided({v}, s)
  BY <1>1, <1>2, <1>4, ReviewsOnly, DecidingStatuses DEF Kept
<1>. QED
  BY <1>1, <1>3, <1>4

\* Verdicts, waivers, feedback and closing by the owner.
LEMMA VerdictsKept ==
  ASSUME LedgerOK, NEW t \in Tasks,
         \/ ApproveReview(t) \/ RequestChanges(t) \/ WaiveReview(t)
         \/ CloseOrphanReview(t) \/ OwnerFeedback(t) \/ CloseByOwner(t)
  PROVE  Kept
<1>1. \E V, s : /\ s \in ReviewStatus /\ s # "pending"
                /\ reviews' = Decided(V, s)
  BY DecidingStatuses
  DEF ApproveReview, RequestChanges, WaiveReview, CloseOrphanReview,
      OwnerFeedback, CloseByOwner
<1>2. UNCHANGED <<runs, asked>>
  BY DEF ApproveReview, RequestChanges, WaiveReview, CloseOrphanReview,
         OwnerFeedback, CloseByOwner
<1>3. tasks' \in [Tasks -> TaskRow]
  <2>1. CASE \E s \in TaskStatus : tasks' = WithTask(t, s)
    BY <2>1, WithTaskType
  <2>2. CASE tasks' = tasks
    BY <2>2 DEF LedgerOK
  <2>3. CASE OwnerFeedback(t)
    <3>1. \A u \in Tasks :
            /\ tasks[u] \in TaskRow
            /\ Moved(tasks[u], "rework") \in TaskRow
            /\ Moved(tasks[u], "waiting_approval") \in TaskRow
      BY MovedType DEF LedgerOK, TaskStatus
    <3>. QED
      BY <2>3, <3>1 DEF OwnerFeedback
  <2>. QED
    BY <2>1, <2>2, <2>3
    DEF ApproveReview, RequestChanges, WaiveReview, CloseOrphanReview,
        CloseByOwner, TaskStatus
<1>. QED
  BY <1>1, <1>2, <1>3, ReviewsOnly DEF Kept

\* finish_run and fail_run.
LEMMA FinishKept ==
  ASSUME LedgerOK, NEW r \in DOMAIN runs,
         \/ FailRun(r)
         \/ \E s \in {"done", "failed", "blocked"} : FinishRun(r, s)
  PROVE  Kept
<1>1. runs[r].task \in Tasks
  <2>1. runs[r] \in RunRow
    BY DEF LedgerOK
  <2>. QED
    BY <2>1 DEF RunRow
<1>2. tasks' \in [Tasks -> TaskRow]
  <2>1. CASE tasks' = tasks
    BY <2>1 DEF LedgerOK
  <2>2. CASE tasks' = WithTask(runs[r].task, "failed")
    BY <2>2, <1>1, WithTaskType DEF TaskStatus
  <2>. QED
    BY <2>1, <2>2 DEF FailRun, FinishRun
<1>3. \E s \in RunStatus : runs' = Finished(r, s)
  BY DEF FailRun, FinishRun, RunStatus
<1>4. UNCHANGED <<reviews, asked>>
  BY DEF FailRun, FinishRun
<1>. QED
  BY <1>2, <1>3, <1>4, FinishOnly DEF Kept

\* start_run adds a running run that executes no review.
LEMMA StartRunKept ==
  ASSUME LedgerOK, NEW t \in Tasks, StartRun(t)
  PROVE  Kept /\ Len(runs) + 1 \in DOMAIN runs'
<1>1. PICK row \in RunRow : runs' = Append(runs, row) /\ row.review = 0
  <2>1. [task |-> t, status |-> "running", review |-> 0, pid |-> 0] \in RunRow
    BY DEF RunRow, RunStatus
  <2>. QED
    BY <2>1 DEF StartRun
<1>2. /\ runs \in Seq(RunRow) /\ Len(runs) \in Nat
      /\ DOMAIN runs = 1..Len(runs)
      /\ Len(runs) < MaxRuns /\ MaxRuns \in Nat
  BY LedgerAssumption DEF LedgerOK, StartRun
<1>3. /\ runs' \in Seq(RunRow) /\ Len(runs') = Len(runs) + 1
      /\ DOMAIN runs' = 1..(Len(runs) + 1)
      /\ runs'[Len(runs) + 1] = row
      /\ \A q \in DOMAIN runs : runs'[q] = runs[q]
  BY <1>1, <1>2, AppendProperties
<1>4. UNCHANGED <<tasks, reviews, asked>>
  BY DEF StartRun
<1>5. /\ DOMAIN runs \subseteq DOMAIN runs' /\ Len(runs') <= MaxRuns
      /\ \A q \in DOMAIN runs' : q \in DOMAIN runs \/ q = Len(runs) + 1
      /\ Len(runs) + 1 \in DOMAIN runs' /\ Len(runs) + 1 \notin DOMAIN runs
  BY <1>2, <1>3
<1>6. LinksKept
  BY <1>1, <1>3, <1>5 DEF LinksKept
<1>7. LedgerOK'
  <2>1. \A q \in DOMAIN runs' : runs'[q].review \in {0} \cup DOMAIN reviews'
    BY <1>4, <1>6 DEF LinksKept, LedgerOK
  <2>. QED
    BY <2>1, <1>3, <1>4, <1>5 DEF LedgerOK
<1>8. Grown /\ NoRepend /\ FinalStep
  BY <1>3, <1>4, <1>5 DEF Grown, NoRepend, FinalStep
<1>. QED
  BY <1>5, <1>6, <1>7, <1>8 DEF Kept, StoreStep

\* One run row changes, its task stays, and its link is not lost.
LEMMA OneRunStep ==
  ASSUME LedgerOK, tasks' \in [Tasks -> TaskRow], UNCHANGED <<reviews, asked>>,
         NEW r \in DOMAIN runs, NEW row \in RunRow,
         runs' = [runs EXCEPT ![r] = row],
         row.task = runs[r].task,
         row.review = runs[r].review
           \/ (runs[r].review = 0 /\ row.review \in DOMAIN reviews),
         \/ row.status = runs[r].status
         \/ /\ runs[r].status = "blocked" /\ row.status = "running"
            /\ \A q \in DOMAIN runs : runs[q].task = runs[r].task => q <= r
  PROVE  /\ StoreStep
         /\ row.review = runs[r].review => LinksKept
         /\ DOMAIN runs' = DOMAIN runs
         /\ runs'[r] = row
         /\ \A q \in DOMAIN runs : q # r => runs'[q] = runs[q]
<1>1. /\ runs' \in Seq(RunRow) /\ Len(runs') = Len(runs)
      /\ DOMAIN runs' = DOMAIN runs
      /\ runs'[r] = row
      /\ \A q \in DOMAIN runs : q # r => runs'[q] = runs[q]
  BY RunUpdate
<1>2. \A q \in DOMAIN runs : q = r \/ runs'[q] = runs[q]
  BY <1>1
<1>3. LedgerOK'
  <2>1. \A q \in DOMAIN runs' : runs'[q].review \in {0} \cup DOMAIN reviews'
    BY <1>1, <1>2 DEF LedgerOK
  <2>. QED
    BY <2>1, <1>1 DEF LedgerOK
<1>4. Grown
  BY <1>1, <1>2 DEF Grown
<1>5. NoRepend /\ FinalStep
  BY <1>1, <1>2 DEF NoRepend, FinalStep
<1>6. row.review = runs[r].review => LinksKept
  BY <1>1, <1>2 DEF LinksKept
<1>. QED
  BY <1>1, <1>3, <1>4, <1>5, <1>6 DEF StoreStep

\* What one changed field leaves of a run row.
LEMMA RunFields ==
  ASSUME NEW row \in RunRow, NEW n \in Nat
  PROVE  /\ LET new == [row EXCEPT !.pid = n]
            IN  /\ new \in RunRow /\ new.task = row.task
                /\ new.review = row.review /\ new.status = row.status
         /\ LET new == [row EXCEPT !.review = n]
            IN  /\ new \in RunRow /\ new.task = row.task
                /\ new.review = n /\ new.status = row.status
         /\ LET new == [row EXCEPT !.status = "running"]
            IN  /\ new \in RunRow /\ new.task = row.task
                /\ new.review = row.review /\ new.status = "running"
BY DEF RunRow, RunStatus

\* set_run_pid
LEMMA SetRunPidKept ==
  ASSUME LedgerOK, NEW r \in DOMAIN runs, NEW p \in Nat, SetRunPid(r, p)
  PROVE  Kept
<1>1. runs[r] \in RunRow
  BY DEF LedgerOK
<1>. DEFINE row == [runs[r] EXCEPT !.pid = p]
<1>2. /\ row \in RunRow /\ row.task = runs[r].task
      /\ row.review = runs[r].review /\ row.status = runs[r].status
  BY <1>1, RunFields
<1>3. runs' = [runs EXCEPT ![r] = row] /\ UNCHANGED <<tasks, reviews, asked>>
  BY DEF SetRunPid
<1>. QED
  BY <1>2, <1>3, OneRunStep DEF LedgerOK, Kept

\* resume_blocked_run
LEMMA ResumeKept ==
  ASSUME LedgerOK, NEW r \in DOMAIN runs, ResumeBlockedRun(r)
  PROVE  Kept
<1>1. runs[r] \in RunRow
  BY DEF LedgerOK
<1>. DEFINE row == [runs[r] EXCEPT !.status = "running"]
<1>2. /\ row \in RunRow /\ row.task = runs[r].task
      /\ row.review = runs[r].review /\ row.status = "running"
  <2>1. 0 \in Nat
    OBVIOUS
  <2>. QED
    BY <1>1, <2>1, RunFields
<1>3. runs' = [runs EXCEPT ![r] = row] /\ UNCHANGED <<reviews, asked>>
  BY DEF ResumeBlockedRun
<1>4. tasks' \in [Tasks -> TaskRow]
  BY <1>1, WithTaskType DEF ResumeBlockedRun, TaskStatus, RunRow
<1>5. \A q \in DOMAIN runs : runs[q].task = runs[r].task => q <= r
  BY DEF ResumeBlockedRun, RunsOf
<1>6. runs[r].status = "blocked"
  BY DEF ResumeBlockedRun
<1>. QED
  BY <1>2, <1>3, <1>4, <1>5, <1>6, OneRunStep DEF Kept

\* set_run_review is the only transaction that links a run to a review.
LEMMA SetRunReviewKept ==
  ASSUME LedgerOK, NEW r \in DOMAIN runs, NEW v \in DOMAIN reviews,
         SetRunReview(r, v)
  PROVE  /\ StoreStep /\ DOMAIN runs' = DOMAIN runs
         /\ \A q \in DOMAIN runs :
              runs'[q].review = IF q = r THEN v ELSE runs[q].review
<1>1. runs[r] \in RunRow /\ v \in Nat
  BY DEF LedgerOK
<1>. DEFINE row == [runs[r] EXCEPT !.review = v]
<1>2. /\ row \in RunRow /\ row.task = runs[r].task
      /\ row.review = v /\ row.status = runs[r].status
  BY <1>1, RunFields
<1>3. /\ runs' = [runs EXCEPT ![r] = row] /\ UNCHANGED <<tasks, reviews, asked>>
      /\ runs[r].review = 0
  BY DEF SetRunReview
<1>4. /\ StoreStep /\ DOMAIN runs' = DOMAIN runs /\ runs'[r] = row
      /\ \A q \in DOMAIN runs : q # r => runs'[q] = runs[q]
  BY <1>2, <1>3, OneRunStep DEF LedgerOK
<1>. QED
  BY <1>2, <1>4

\* A question recorded for a run.
LEMMA NoteQuestionKept ==
  ASSUME LedgerOK, NEW r \in DOMAIN runs, NoteQuestion(r)
  PROVE  Kept
BY DEF LedgerOK, NoteQuestion, Kept, StoreStep, Grown, NoRepend, FinalStep,
       LinksKept

\* record_completion: the task and the run as reported, and a new pending
\* review at the end of the table when the report is routed.
LEMMA RecordCompletionKept ==
  ASSUME LedgerOK, NEW r \in DOMAIN runs,
         NEW report \in {"done", "manual", "blocked", "failed", "dirty"},
         RecordCompletion(r, report)
  PROVE  /\ Kept
         /\ \A v \in DOMAIN reviews' :
              v \in DOMAIN reviews \/ v = Len(reviews) + 1
<1>. DEFINE t == runs[r].task
            moved == Moved(tasks[t], TaskAfter(t, report))
            gate == tasks[t].gate \/ (report = "manual" /\ ~ Routed(t, report))
<1>1. t \in Tasks
  <2>1. runs[r] \in RunRow
    BY DEF LedgerOK
  <2>. QED
    BY <2>1 DEF RunRow
<1>2. TaskAfter(t, report) \in TaskStatus
  <2>1. CASE report = "dirty"
    BY <2>1 DEF TaskAfter, TaskStatus, Routed
  <2>2. CASE report # "dirty"
    BY <2>2 DEF TaskAfter, TaskStatus
  <2>. QED
    BY <2>1, <2>2
<1>3. tasks' \in [Tasks -> TaskRow]
  <2>1. tasks[t] \in TaskRow
    BY <1>1 DEF LedgerOK
  <2>2. moved \in TaskRow
    BY <2>1, <1>2, MovedType
  <2>3. gate \in BOOLEAN
    BY <2>1, Zenon DEF TaskRow
  <2>4. Gated(moved, gate) \in TaskRow
    BY <2>2, <2>3, GatedType
  <2>5. tasks' = [tasks EXCEPT ![t] = Gated(moved, gate)]
    BY DEF RecordCompletion
  <2>. QED
    BY <2>4, <2>5, <1>1 DEF LedgerOK
<1>4. /\ runs' = Finished(r, RunAfter(report)) /\ RunAfter(report) \in RunStatus
      /\ asked' = asked
  BY DEF RecordCompletion, RunAfter, RunStatus
<1>5. /\ runs' \in Seq(RunRow) /\ Len(runs') = Len(runs)
      /\ DOMAIN runs' = DOMAIN runs
      /\ \A q \in DOMAIN runs :
           /\ runs'[q].task = runs[q].task
           /\ runs'[q].review = runs[q].review
           /\ runs'[q].status # runs[q].status => runs[q].status = "running"
  BY <1>4, FinishedType
<1>6. /\ reviews' \in Seq(ReviewRow) /\ Len(reviews') <= MaxReviews
      /\ DOMAIN reviews \subseteq DOMAIN reviews'
      /\ \A v \in DOMAIN reviews : reviews'[v] = reviews[v]
      /\ \A v \in DOMAIN reviews' : v \in DOMAIN reviews \/ v = Len(reviews) + 1
  <2>1. CASE reviews' = reviews
    BY <2>1 DEF LedgerOK
  <2>2. CASE reviews' # reviews
    <3>1. /\ Len(reviews) < MaxReviews
          /\ reviews' = Append(reviews, [task |-> t, status |-> "pending"])
      BY <2>2 DEF RecordCompletion, CreateReview
    <3>2. [task |-> t, status |-> "pending"] \in ReviewRow
      BY <1>1 DEF ReviewRow, ReviewStatus, Open
    <3>3. /\ reviews \in Seq(ReviewRow) /\ Len(reviews) \in Nat
          /\ DOMAIN reviews = 1..Len(reviews) /\ MaxReviews \in Nat
      BY LedgerAssumption DEF LedgerOK
    <3>4. /\ reviews' \in Seq(ReviewRow) /\ Len(reviews') = Len(reviews) + 1
          /\ DOMAIN reviews' = 1..(Len(reviews) + 1)
          /\ \A v \in DOMAIN reviews : reviews'[v] = reviews[v]
      BY <3>1, <3>2, <3>3, AppendProperties
    <3>. QED
      BY <3>1, <3>3, <3>4
  <2>. QED
    BY <2>1, <2>2
<1>7. LedgerOK'
  BY <1>3, <1>4, <1>5, <1>6 DEF LedgerOK
<1>8. Grown /\ NoRepend /\ FinalStep /\ LinksKept
  BY <1>5, <1>6 DEF Grown, NoRepend, FinalStep, LinksKept
<1>. QED
  BY <1>6, <1>7, <1>8 DEF Kept, StoreStep

-----------------------------------------------------------------------------
(* The processes of the engine *)

\* TypeOK and Wired, regrouped by process: what each may rely on.
DeskOK ==
  /\ pc \in {"idle", "select", "work", "claimed", "launch", "spawned",
             "unspawned", "review", "assigned", "link", "scan", "stalled",
             "unreview", "killed", "requeue"}
  /\ queue \subseteq Tasks
  /\ desk \subseteq DOMAIN reviews
  /\ scan \subseteq [run : DOMAIN runs, pid : Nat]
  /\ cur \in [task : Tasks \cup {None}, review : {0} \cup DOMAIN reviews,
              run : {0} \cup DOMAIN runs]
  /\ left \in Nat
  /\ pc \in {"claimed", "launch", "spawned", "unspawned", "assigned", "link",
             "stalled", "unreview", "killed", "requeue"} => cur.task \in Tasks
  /\ pc \in {"launch", "spawned", "unspawned", "link", "stalled", "unreview",
             "killed", "requeue"} => cur.run \in DOMAIN runs
  /\ pc \in {"assigned", "link"} => cur.review \in DOMAIN reviews
  /\ pc = "claimed" => cur.review = 0
  /\ (pc \in {"assigned", "link", "launch", "spawned"} /\ cur.review # 0)
       => left > 0

StopOK ==
  /\ stop \in [phase : {"none", "waiting", "holding"}, task : Tasks \cup {None},
               run : {0} \cup DOMAIN runs, pid : Nat,
               review : {0} \cup DOMAIN reviews, keep : BOOLEAN]
  /\ stop.phase # "none" => stop.task \in Tasks /\ stop.run \in DOMAIN runs

WrapperOK ==
  /\ wrapper \in [RunIds -> [state : {"none", "boot", "agent", "done",
                                      "blocked", "failed", "zombie"},
                             pid : Nat]]
  /\ \A r \in RunIds :
       /\ wrapper[r].state # "none" => r \in DOMAIN runs
       /\ wrapper[r].state \in {"done", "blocked", "failed"} =>
            runs[r].review # 0

AnswerOK ==
  /\ answer \in [RunIds -> {"none", "resumed", "spawned", "unspawned"}]
  /\ \A r \in RunIds : answer[r] # "none" => r \in DOMAIN runs
  /\ resumed \subseteq DOMAIN runs

CallsOK == landing \subseteq Tasks /\ promoting \subseteq Tasks

BudgetOK ==
  /\ ownerOps \in 0..MaxOwnerOps
  /\ crashes \in 0..MaxCrashes /\ faults \in 0..MaxFaults

Parts ==
  /\ LedgerOK /\ DeskOK /\ StopOK /\ WrapperOK /\ AnswerOK /\ CallsOK
  /\ BudgetOK

IInv == Parts /\ ReviewClaims

\* Parts says exactly what TypeOK and Wired say.
LEMMA PartsAreTypes == Parts <=> TypeOK /\ Wired
BY DEF Parts, TypeOK, Wired, LedgerOK, DeskOK, StopOK, WrapperOK, AnswerOK,
       CallsOK, BudgetOK

-----------------------------------------------------------------------------
(* What a step that leaves a process alone keeps of it *)

\* The store only grows, so what a process holds in hand stays valid.
LEMMA Frames ==
  ASSUME Parts, StoreStep
  PROVE  /\ UNCHANGED tick => DeskOK'
         /\ UNCHANGED stop => StopOK'
         /\ UNCHANGED wrapper => WrapperOK'
         /\ UNCHANGED <<answer, resumed>> => AnswerOK'
         /\ UNCHANGED <<landing, promoting>> => CallsOK'
         /\ UNCHANGED budget => BudgetOK'
<1>1. /\ DOMAIN runs \subseteq DOMAIN runs'
      /\ DOMAIN reviews \subseteq DOMAIN reviews'
      /\ \A r \in DOMAIN runs : runs[r].review # 0 => runs'[r].review # 0
  BY DEF StoreStep, Grown
<1>2. UNCHANGED tick => DeskOK'
  BY <1>1 DEF Parts, DeskOK, tick
<1>3. UNCHANGED stop => StopOK'
  BY <1>1 DEF Parts, StopOK
<1>4. UNCHANGED wrapper => WrapperOK'
  BY <1>1 DEF Parts, WrapperOK
<1>5. UNCHANGED <<answer, resumed>> => AnswerOK'
  BY <1>1 DEF Parts, AnswerOK
<1>6. UNCHANGED <<landing, promoting>> => CallsOK'
  BY DEF Parts, CallsOK
<1>7. UNCHANGED budget => BudgetOK'
  BY DEF Parts, BudgetOK, budget
<1>. QED
  BY <1>2, <1>3, <1>4, <1>5, <1>6, <1>7

\* A step that leaves the store alone keeps everything about it.
LEMMA LedgerStutter ==
  ASSUME LedgerOK, UNCHANGED ledger
  PROVE  Kept
BY DEF LedgerOK, ledger, Kept, StoreStep, Grown, NoRepend, FinalStep, LinksKept

\* A step that links no run keeps one run per review, and none for a review
\* that is still pending.
LEMMA LinksUnique ==
  ASSUME Parts, ReviewClaims, Kept
  PROVE  ReviewRunUnique' /\ \A v \in DOMAIN reviews' : Unclaimed(v)'
<1>1. LedgerOK' /\ LinksKept /\ NoRepend
  BY DEF Kept, StoreStep
<1>2. \A r \in DOMAIN runs' :
        /\ r \in DOMAIN runs => runs'[r].review = runs[r].review
        /\ r \notin DOMAIN runs => runs'[r].review = 0
  BY <1>1 DEF LinksKept
<1>3. ReviewRunUnique'
  BY <1>2 DEF ReviewClaims, ReviewRunUnique
<1>4. \A v \in DOMAIN reviews' : Unclaimed(v)'
  <2>1. SUFFICES ASSUME NEW v \in DOMAIN reviews', reviews'[v].status = "pending",
                        NEW r \in DOMAIN runs', runs'[r].review = v
                 PROVE  FALSE
    BY DEF Unclaimed
  <2>2. v # 0
    BY <1>1 DEF LedgerOK
  <2>3. r \in DOMAIN runs /\ runs[r].review = v
    BY <1>2, <2>1, <2>2
  <2>4. v \in DOMAIN reviews
    BY <2>2, <2>3 DEF Parts, LedgerOK
  <2>. QED
    BY <1>1, <2>1, <2>3, <2>4 DEF ReviewClaims, Unclaimed, NoRepend
<1>. QED
  BY <1>3, <1>4

\* A review in hand stays claimed until its run is linked to it.
LEMMA ClaimsKept ==
  ASSUME Parts, ReviewClaims, Kept,
         pc' \in {"assigned", "link"} =>
           pc \in {"assigned", "link"} /\ cur'.review = cur.review
  PROVE  ReviewClaims'
<1>1. ASSUME pc' \in {"assigned", "link"}
      PROVE  /\ reviews'[cur'.review].status # "pending"
             /\ \A r \in DOMAIN runs' : runs'[r].review # cur'.review
  <2>1. /\ cur'.review = cur.review /\ cur.review \in DOMAIN reviews
        /\ reviews[cur.review].status # "pending"
        /\ \A r \in DOMAIN runs : runs[r].review # cur.review
    BY <1>1 DEF Parts, DeskOK, ReviewClaims
  <2>2. cur.review # 0
    BY <2>1 DEF Parts, LedgerOK
  <2>. QED
    BY <2>1, <2>2 DEF NoRepend, LinksKept, Kept, StoreStep
<1>. QED
  BY <1>1, LinksUnique DEF ReviewClaims

\* Every budget step leaves the budgets in their bounds.
LEMMA BudgetSteps ==
  ASSUME BudgetOK, Fault \/ OwnerOp \/ Crash \/ UNCHANGED budget
  PROVE  BudgetOK'
BY EngineAssumption DEF BudgetOK, Fault, OwnerOp, Crash, budget

-----------------------------------------------------------------------------
(* The lock holder *)

\* What a step of the tick or of the stop still has to show.
LEMMA DeskStep ==
  ASSUME IInv, Kept, DeskOK', StopOK', WrapperOK', UNCHANGED callers,
         Fault \/ UNCHANGED budget,
         pc' \in {"assigned", "link"} =>
           pc \in {"assigned", "link"} /\ cur'.review = cur.review
  PROVE  IInv' /\ FinalStep
<1>1. Parts /\ ReviewClaims /\ StoreStep /\ BudgetOK
  BY DEF IInv, Kept, Parts
<1>2. AnswerOK' /\ CallsOK'
  BY <1>1, Frames DEF callers
<1>3. BudgetOK'
  BY <1>1, BudgetSteps
<1>4. LedgerOK'
  BY <1>1 DEF StoreStep
<1>. QED
  BY <1>1, <1>2, <1>3, <1>4, ClaimsKept DEF IInv, Parts, Kept, StoreStep


\* A run's id is within the bound on runs.
LEMMA RunInBounds ==
  ASSUME LedgerOK
  PROVE  DOMAIN runs \subseteq RunIds
<1>1. DOMAIN runs = 1..Len(runs) /\ Len(runs) \in Nat /\ Len(runs) <= MaxRuns
  BY DEF LedgerOK
<1>. QED
  BY <1>1, LedgerAssumption DEF RunIds

\* The capacity left is a number.
LEMMA SlotsType ==
  ASSUME LedgerOK
  PROVE  Slots \in Nat
<1>1. DOMAIN runs = 1..Len(runs) /\ Len(runs) \in Nat
  BY DEF LedgerOK
<1>2. IsFiniteSet(RunningRuns)
  <2>1. IsFiniteSet(1..Len(runs))
    BY <1>1, FS_Interval
  <2>2. RunningRuns \subseteq 1..Len(runs)
    BY <1>1 DEF RunningRuns
  <2>. QED
    BY <2>1, <2>2, FS_Subset
<1>3. Cardinality(RunningRuns) \in Nat
  BY <1>2, FS_CardinalityType
<1>. QED
  BY <1>3, EngineAssumption DEF Slots, Free

\* The work half of a tick, and the launch of a run, keep the invariant.
LEMMA WorkKeeps ==
  ASSUME IInv,
         \/ TickPromote \/ TickSelect \/ (\E t \in Tasks : WorkClaim(t))
         \/ WorkBadPath \/ WorkStartRun \/ ReviewStartRun \/ Spawn
         \/ SpawnFails \/ SpawnFailed \/ RecordPid \/ ListReviews
  PROVE  IInv' /\ FinalStep
<1>0. Parts /\ LedgerOK /\ DeskOK /\ WrapperOK
  BY DEF IInv, Parts
<1>1. CASE TickPromote
  <2>1. Kept
    BY <1>0, <1>1, PromoteWaitingKept DEF TickPromote
  <2>2. /\ DeskOK' /\ UNCHANGED <<stop, wrapper, callers>>
        /\ pc' \in {"assigned", "link"} =>
             pc \in {"assigned", "link"} /\ cur'.review = cur.review
    BY <1>0, <1>1 DEF TickPromote, PromoteWaiting, DeskOK
  <2>3. Fault \/ UNCHANGED budget
    BY <1>1 DEF TickPromote
  <2>4. StopOK' /\ WrapperOK'
    BY <1>0, <2>1, <2>2, Frames DEF Kept
  <2>. QED
    BY <2>1, <2>2, <2>3, <2>4, DeskStep
<1>2. CASE TickSelect
  <2>1. Kept
    BY <1>0, <1>2, LedgerStutter DEF TickSelect
  <2>2. /\ DeskOK' /\ UNCHANGED <<stop, wrapper, callers>>
        /\ pc' \in {"assigned", "link"} =>
             pc \in {"assigned", "link"} /\ cur'.review = cur.review
    BY <1>0, <1>2 DEF TickSelect, ledger, DeskOK
  <2>3. Fault \/ UNCHANGED budget
    BY <1>2 DEF TickSelect
  <2>4. StopOK' /\ WrapperOK'
    BY <1>0, <2>1, <2>2, Frames DEF Kept
  <2>. QED
    BY <2>1, <2>2, <2>3, <2>4, DeskStep
<1>3. ASSUME NEW t \in Tasks, WorkClaim(t)
      PROVE  IInv' /\ FinalStep
  <2>1. Kept
    BY <1>0, <1>3, TaskMovesKept, LedgerStutter DEF WorkClaim
  <2>2. /\ DeskOK' /\ UNCHANGED <<stop, wrapper, callers>>
        /\ pc' \in {"assigned", "link"} =>
             pc \in {"assigned", "link"} /\ cur'.review = cur.review
    BY <1>0, <1>3 DEF WorkClaim, ClaimTask, NoCur, ledger, DeskOK
  <2>3. Fault \/ UNCHANGED budget
    BY <1>3 DEF WorkClaim
  <2>4. StopOK' /\ WrapperOK'
    BY <1>0, <2>1, <2>2, Frames DEF Kept
  <2>. QED
    BY <2>1, <2>2, <2>3, <2>4, DeskStep
<1>4. CASE WorkBadPath
  <2>1. Kept
    BY <1>0, <1>4, TaskMovesKept DEF WorkBadPath, DeskOK, TaskStatus
  <2>2. /\ DeskOK' /\ UNCHANGED <<stop, wrapper, callers>>
        /\ pc' \in {"assigned", "link"} =>
             pc \in {"assigned", "link"} /\ cur'.review = cur.review
    BY <1>0, <1>4 DEF WorkBadPath, CompleteRun, NoCur, DeskOK
  <2>3. Fault \/ UNCHANGED budget
    BY <1>4 DEF WorkBadPath
  <2>4. StopOK' /\ WrapperOK'
    BY <1>0, <2>1, <2>2, Frames DEF Kept
  <2>. QED
    BY <2>1, <2>2, <2>3, <2>4, DeskStep
<1>5. CASE WorkStartRun
  <2>1. Kept /\ Len(runs) + 1 \in DOMAIN runs'
    BY <1>0, <1>5, StartRunKept DEF WorkStartRun, DeskOK
  <2>0. DOMAIN runs \subseteq DOMAIN runs' /\ DOMAIN reviews \subseteq DOMAIN reviews'
    BY <2>1 DEF Kept, StoreStep, Grown
  <2>2. /\ DeskOK' /\ UNCHANGED <<stop, wrapper, callers>>
        /\ pc' \in {"assigned", "link"} =>
             pc \in {"assigned", "link"} /\ cur'.review = cur.review
    <3>. DEFINE new == Len(runs) + 1
    <3>1. /\ cur' = [cur EXCEPT !.run = new] /\ new \in DOMAIN runs'
          /\ cur \in [task : Tasks \cup {None}, review : {0} \cup DOMAIN reviews,
                      run : {0} \cup DOMAIN runs]
      BY <1>0, <1>5, <2>1 DEF WorkStartRun, DeskOK
    <3>2. /\ cur' \in [task : Tasks \cup {None}, review : {0} \cup DOMAIN reviews,
                        run : {0} \cup DOMAIN runs']
          /\ cur'.task = cur.task /\ cur'.review = cur.review /\ cur'.run = new
      BY <3>1
    <3>. HIDE DEF new
    <3>. QED
      BY <1>0, <1>5, <2>0, <3>1, <3>2 DEF WorkStartRun, DeskOK
  <2>3. Fault \/ UNCHANGED budget
    BY <1>5 DEF WorkStartRun
  <2>4. StopOK' /\ WrapperOK'
    BY <1>0, <2>1, <2>2, Frames DEF Kept
  <2>. QED
    BY <2>1, <2>2, <2>3, <2>4, DeskStep
<1>6. CASE ReviewStartRun
  <2>1. Kept /\ Len(runs) + 1 \in DOMAIN runs'
    BY <1>0, <1>6, StartRunKept DEF ReviewStartRun, DeskOK
  <2>0. DOMAIN runs \subseteq DOMAIN runs' /\ DOMAIN reviews \subseteq DOMAIN reviews'
    BY <2>1 DEF Kept, StoreStep, Grown
  <2>2. /\ DeskOK' /\ UNCHANGED <<stop, wrapper, callers>>
        /\ pc' \in {"assigned", "link"} =>
             pc \in {"assigned", "link"} /\ cur'.review = cur.review
    <3>. DEFINE new == Len(runs) + 1
    <3>1. /\ cur' = [cur EXCEPT !.run = new] /\ new \in DOMAIN runs'
          /\ cur \in [task : Tasks \cup {None}, review : {0} \cup DOMAIN reviews,
                      run : {0} \cup DOMAIN runs]
      BY <1>0, <1>6, <2>1 DEF ReviewStartRun, DeskOK
    <3>2. /\ cur' \in [task : Tasks \cup {None}, review : {0} \cup DOMAIN reviews,
                        run : {0} \cup DOMAIN runs']
          /\ cur'.task = cur.task /\ cur'.review = cur.review /\ cur'.run = new
      BY <3>1
    <3>. HIDE DEF new
    <3>. QED
      BY <1>0, <1>6, <2>0, <3>1, <3>2 DEF ReviewStartRun, DeskOK
  <2>3. Fault \/ UNCHANGED budget
    BY <1>6 DEF ReviewStartRun
  <2>4. StopOK' /\ WrapperOK'
    BY <1>0, <2>1, <2>2, Frames DEF Kept
  <2>. QED
    BY <2>1, <2>2, <2>3, <2>4, DeskStep
<1>7. CASE Spawn
  <2>1. Kept
    BY <1>0, <1>7, LedgerStutter DEF Spawn
  <2>2. /\ DeskOK' /\ UNCHANGED <<stop, callers>>
        /\ pc' \in {"assigned", "link"} =>
             pc \in {"assigned", "link"} /\ cur'.review = cur.review
    BY <1>0, <1>7 DEF Spawn, ledger, DeskOK
  <2>3. Fault \/ UNCHANGED budget
    BY <1>7 DEF Spawn
  <2>4. StopOK' /\ WrapperOK'
    <3>1. StopOK' /\ cur.run \in DOMAIN runs /\ UNCHANGED runs
      BY <1>0, <1>7, <2>1, <2>2, Frames DEF Kept, Spawn, DeskOK, ledger
    <3>2. cur.run \in RunIds /\ wrapper[cur.run].pid + 1 \in Nat
      BY <1>0, <3>1, RunInBounds DEF WrapperOK
    <3>3. wrapper' = [wrapper EXCEPT ![cur.run] =
                        [state |-> "boot", pid |-> wrapper[cur.run].pid + 1]]
      BY <1>7 DEF Spawn, Spawned
    <3>. QED
      BY <1>0, <3>1, <3>2, <3>3 DEF WrapperOK
  <2>. QED
    BY <2>1, <2>2, <2>3, <2>4, DeskStep
<1>8. CASE SpawnFails
  <2>1. Kept
    BY <1>0, <1>8, FinishKept DEF SpawnFails, DeskOK
  <2>0. DOMAIN runs \subseteq DOMAIN runs' /\ DOMAIN reviews \subseteq DOMAIN reviews'
    BY <2>1 DEF Kept, StoreStep, Grown
  <2>2. /\ DeskOK' /\ UNCHANGED <<stop, wrapper, callers>>
        /\ pc' \in {"assigned", "link"} =>
             pc \in {"assigned", "link"} /\ cur'.review = cur.review
    BY <1>0, <1>8, <2>0 DEF SpawnFails, DeskOK
  <2>3. Fault \/ UNCHANGED budget
    BY <1>8 DEF SpawnFails
  <2>4. StopOK' /\ WrapperOK'
    BY <1>0, <2>1, <2>2, Frames DEF Kept
  <2>. QED
    BY <2>1, <2>2, <2>3, <2>4, DeskStep
<1>9. CASE SpawnFailed
  <2>1. Kept
    <3>1. cur.task \in Tasks /\ cur.review \in {0} \cup DOMAIN reviews
      BY <1>0, <1>9 DEF SpawnFailed, DeskOK
    <3>. QED
      BY <1>0, <1>9, <3>1, TaskMovesKept, ReviewMovesKept DEF SpawnFailed, TaskStatus
  <2>0. DOMAIN runs \subseteq DOMAIN runs' /\ DOMAIN reviews \subseteq DOMAIN reviews'
    BY <2>1 DEF Kept, StoreStep, Grown
  <2>2. /\ DeskOK' /\ UNCHANGED <<stop, wrapper, callers>>
        /\ pc' \in {"assigned", "link"} =>
             pc \in {"assigned", "link"} /\ cur'.review = cur.review
    BY <1>0, <1>9, <2>0 DEF SpawnFailed, NoCur, Loop, DeskOK
  <2>3. Fault \/ UNCHANGED budget
    BY <1>9 DEF SpawnFailed
  <2>4. StopOK' /\ WrapperOK'
    BY <1>0, <2>1, <2>2, Frames DEF Kept
  <2>. QED
    BY <2>1, <2>2, <2>3, <2>4, DeskStep
<1>10. CASE RecordPid
  <2>1. Kept
    <3>1. cur.run \in DOMAIN runs /\ wrapper[cur.run].pid \in Nat
      BY <1>0, <1>10, RunInBounds DEF RecordPid, DeskOK, WrapperOK
    <3>. QED
      BY <1>0, <1>10, <3>1, SetRunPidKept DEF RecordPid
  <2>0. DOMAIN runs \subseteq DOMAIN runs' /\ DOMAIN reviews \subseteq DOMAIN reviews'
    BY <2>1 DEF Kept, StoreStep, Grown
  <2>2. /\ DeskOK' /\ UNCHANGED <<stop, wrapper, callers>>
        /\ pc' \in {"assigned", "link"} =>
             pc \in {"assigned", "link"} /\ cur'.review = cur.review
    BY <1>0, <1>10, <2>0 DEF RecordPid, NoCur, Loop, DeskOK
  <2>3. Fault \/ UNCHANGED budget
    BY <1>10 DEF RecordPid
  <2>4. StopOK' /\ WrapperOK'
    BY <1>0, <2>1, <2>2, Frames DEF Kept
  <2>. QED
    BY <2>1, <2>2, <2>3, <2>4, DeskStep
<1>11. CASE ListReviews
  <2>1. Kept
    BY <1>0, <1>11, LedgerStutter DEF ListReviews
  <2>2. /\ DeskOK' /\ UNCHANGED <<stop, wrapper, callers>>
        /\ pc' \in {"assigned", "link"} =>
             pc \in {"assigned", "link"} /\ cur'.review = cur.review
    BY <1>0, <1>11, SlotsType DEF ListReviews, PendingReviews, ledger, DeskOK
  <2>3. Fault \/ UNCHANGED budget
    BY <1>11 DEF ListReviews
  <2>4. StopOK' /\ WrapperOK'
    BY <1>0, <2>1, <2>2, Frames DEF Kept
  <2>. QED
    BY <2>1, <2>2, <2>3, <2>4, DeskStep
<1>. QED
  BY <1>1, <1>2, <1>3, <1>4, <1>5, <1>6, <1>7, <1>8, <1>9, <1>10, <1>11

\* What a run row holds.
LEMMA RowType ==
  ASSUME LedgerOK, NEW r \in DOMAIN runs
  PROVE  /\ runs[r].task \in Tasks /\ runs[r].pid \in Nat
         /\ runs[r].review \in {0} \cup DOMAIN reviews
<1>1. runs[r] \in RunRow
  BY DEF LedgerOK
<1>. QED
  BY <1>1 DEF LedgerOK, RunRow

\* Listing, and the verdicts of the liveness scan, keep the invariant.
LEMMA ScanKeeps ==
  ASSUME IInv,
         \/ ReviewBadPath \/ ListRuns
         \/ (\E x \in scan : ScanAlive(x) \/ ScanStalled(x))
         \/ MarkTaskStalled \/ FailStalledReview \/ TickEnd
  PROVE  IInv' /\ FinalStep
<1>0. Parts /\ LedgerOK /\ DeskOK /\ StopOK /\ WrapperOK
  BY DEF IInv, Parts
<1>1. CASE ReviewBadPath
  <2>1. Kept
    BY <1>0, <1>1, ReviewMovesKept DEF ReviewBadPath, DeskOK
  <2>2. DOMAIN runs \subseteq DOMAIN runs' /\ DOMAIN reviews \subseteq DOMAIN reviews'
    BY <2>1 DEF Kept, StoreStep, Grown
  <2>3. /\ DeskOK' /\ UNCHANGED <<stop, wrapper, callers>>
        /\ pc' \in {"assigned", "link"} =>
             pc \in {"assigned", "link"} /\ cur'.review = cur.review
    BY <1>0, <1>1, <2>2 DEF ReviewBadPath, NoCur, DeskOK
  <2>4. Fault \/ UNCHANGED budget
    BY <1>1 DEF ReviewBadPath
  <2>5. StopOK' /\ WrapperOK'
    BY <1>0, <2>1, <2>3, Frames DEF Kept
  <2>. QED
    BY <2>1, <2>3, <2>4, <2>5, DeskStep
<1>2. CASE ListRuns
  <2>1. Kept
    BY <1>0, <1>2, LedgerStutter DEF ListRuns
  <2>2. DOMAIN runs \subseteq DOMAIN runs' /\ DOMAIN reviews \subseteq DOMAIN reviews'
    BY <2>1 DEF Kept, StoreStep, Grown
  <2>3. /\ DeskOK' /\ UNCHANGED <<stop, wrapper, callers>>
        /\ pc' \in {"assigned", "link"} =>
             pc \in {"assigned", "link"} /\ cur'.review = cur.review
    BY <1>0, <1>2, <2>2, RowType DEF ListRuns, RunningRuns, ledger, DeskOK
  <2>4. Fault \/ UNCHANGED budget
    BY <1>2 DEF ListRuns
  <2>5. StopOK' /\ WrapperOK'
    BY <1>0, <2>1, <2>3, Frames DEF Kept
  <2>. QED
    BY <2>1, <2>3, <2>4, <2>5, DeskStep
<1>3. ASSUME NEW x \in scan, ScanAlive(x)
      PROVE  IInv' /\ FinalStep
  <2>1. Kept
    BY <1>0, <1>3, LedgerStutter DEF ScanAlive
  <2>2. DOMAIN runs \subseteq DOMAIN runs' /\ DOMAIN reviews \subseteq DOMAIN reviews'
    BY <2>1 DEF Kept, StoreStep, Grown
  <2>3. /\ DeskOK' /\ UNCHANGED <<stop, wrapper, callers>>
        /\ pc' \in {"assigned", "link"} =>
             pc \in {"assigned", "link"} /\ cur'.review = cur.review
    BY <1>0, <1>3, <2>2 DEF ScanAlive, DeskOK
  <2>4. Fault \/ UNCHANGED budget
    BY <1>3 DEF ScanAlive
  <2>5. StopOK' /\ WrapperOK'
    BY <1>0, <2>1, <2>3, Frames DEF Kept
  <2>. QED
    BY <2>1, <2>3, <2>4, <2>5, DeskStep
<1>4. ASSUME NEW x \in scan, ScanStalled(x)
      PROVE  IInv' /\ FinalStep
  <2>1. Kept
    BY <1>0, <1>4, FinishKept DEF ScanStalled, DeskOK
  <2>2. DOMAIN runs \subseteq DOMAIN runs' /\ DOMAIN reviews \subseteq DOMAIN reviews'
    BY <2>1 DEF Kept, StoreStep, Grown
  <2>3. /\ DeskOK' /\ UNCHANGED <<stop, wrapper, callers>>
        /\ pc' \in {"assigned", "link"} =>
             pc \in {"assigned", "link"} /\ cur'.review = cur.review
    BY <1>0, <1>4, <2>2, RowType DEF ScanStalled, DeskOK
  <2>4. Fault \/ UNCHANGED budget
    BY <1>4 DEF ScanStalled
  <2>5. StopOK' /\ WrapperOK'
    BY <1>0, <2>1, <2>3, Frames DEF Kept
  <2>. QED
    BY <2>1, <2>3, <2>4, <2>5, DeskStep
<1>5. CASE MarkTaskStalled
  <2>1. Kept
    BY <1>0, <1>5, TaskMovesKept DEF MarkTaskStalled, DeskOK
  <2>2. DOMAIN runs \subseteq DOMAIN runs' /\ DOMAIN reviews \subseteq DOMAIN reviews'
    BY <2>1 DEF Kept, StoreStep, Grown
  <2>3. /\ DeskOK' /\ UNCHANGED <<stop, wrapper, callers>>
        /\ pc' \in {"assigned", "link"} =>
             pc \in {"assigned", "link"} /\ cur'.review = cur.review
    BY <1>0, <1>5, <2>2 DEF MarkTaskStalled, DeskOK
  <2>4. Fault \/ UNCHANGED budget
    BY <1>5 DEF MarkTaskStalled
  <2>5. StopOK' /\ WrapperOK'
    BY <1>0, <2>1, <2>3, Frames DEF Kept
  <2>. QED
    BY <2>1, <2>3, <2>4, <2>5, DeskStep
<1>6. CASE FailStalledReview
  <2>1. Kept
    <3>1. cur.review \in {0} \cup DOMAIN reviews
      BY <1>0 DEF DeskOK
    <3>. QED
      BY <1>0, <1>6, <3>1, ReviewMovesKept, LedgerStutter DEF FailStalledReview
  <2>2. DOMAIN runs \subseteq DOMAIN runs' /\ DOMAIN reviews \subseteq DOMAIN reviews'
    BY <2>1 DEF Kept, StoreStep, Grown
  <2>3. /\ DeskOK' /\ UNCHANGED <<stop, wrapper, callers>>
        /\ pc' \in {"assigned", "link"} =>
             pc \in {"assigned", "link"} /\ cur'.review = cur.review
    BY <1>0, <1>6, <2>2 DEF FailStalledReview, NoCur, DeskOK
  <2>4. Fault \/ UNCHANGED budget
    BY <1>6 DEF FailStalledReview
  <2>5. StopOK' /\ WrapperOK'
    BY <1>0, <2>1, <2>3, Frames DEF Kept
  <2>. QED
    BY <2>1, <2>3, <2>4, <2>5, DeskStep
<1>7. CASE TickEnd
  <2>1. Kept
    BY <1>0, <1>7, LedgerStutter DEF TickEnd
  <2>2. DOMAIN runs \subseteq DOMAIN runs' /\ DOMAIN reviews \subseteq DOMAIN reviews'
    BY <2>1 DEF Kept, StoreStep, Grown
  <2>3. /\ DeskOK' /\ UNCHANGED <<stop, wrapper, callers>>
        /\ pc' \in {"assigned", "link"} =>
             pc \in {"assigned", "link"} /\ cur'.review = cur.review
    BY <1>0, <1>7, <2>2 DEF TickEnd, DeskOK
  <2>4. Fault \/ UNCHANGED budget
    BY <1>7 DEF TickEnd
  <2>5. StopOK' /\ WrapperOK'
    BY <1>0, <2>1, <2>3, Frames DEF Kept
  <2>. QED
    BY <2>1, <2>3, <2>4, <2>5, DeskStep
<1>. QED
  BY <1>1, <1>2, <1>3, <1>4, <1>5, <1>6, <1>7

\* claim_review takes a review no run executes; set_run_review then links the
\* run just started, and only that one.
LEMMA ReviewKeeps ==
  ASSUME IInv, (\E v \in desk : ReviewClaim(v)) \/ ReviewLink
  PROVE  IInv' /\ FinalStep
<1>0. Parts /\ LedgerOK /\ DeskOK /\ BudgetOK /\ ReviewClaims
  BY DEF IInv, Parts
<1>1. ASSUME NEW v \in desk, ReviewClaim(v)
      PROVE  IInv' /\ FinalStep
  <2>1. v \in DOMAIN reviews /\ reviews[v].task \in Tasks
    <3>1. v \in DOMAIN reviews
      BY <1>0, <1>1 DEF DeskOK
    <3>2. reviews[v] \in ReviewRow
      BY <1>0, <3>1 DEF LedgerOK
    <3>. QED
      BY <3>1, <3>2 DEF ReviewRow
  <2>2. Kept
    BY <1>0, <1>1, <2>1, ReviewMovesKept, LedgerStutter DEF ReviewClaim
  <2>3. DOMAIN runs \subseteq DOMAIN runs' /\ DOMAIN reviews \subseteq DOMAIN reviews'
    BY <2>2 DEF Kept, StoreStep, Grown
  <2>4. DeskOK' /\ UNCHANGED <<stop, wrapper, callers, budget>>
    BY <1>0, <1>1, <2>1, <2>3 DEF ReviewClaim, DeskOK
  <2>5. Parts'
    BY <1>0, <2>2, <2>4, Frames DEF Parts, Kept, StoreStep, callers
  <2>6. CASE pc' = "review"
    BY <1>0, <2>2, <2>5, <2>6, ClaimsKept DEF IInv, Kept, StoreStep
  <2>7. CASE pc' = "assigned"
    <3>1. /\ reviews[v].status = "pending" /\ cur'.review = v
          /\ reviews' = Decided({v}, "running") /\ runs' = runs
      BY <1>1, <2>7 DEF ReviewClaim, ClaimReview
    <3>2. reviews'[v].status # "pending"
      <4>1. reviews[v] \in ReviewRow
        BY <1>0, <2>1 DEF LedgerOK
      <4>. QED
        BY <2>1, <3>1, <4>1 DEF Decided, ReviewRow
    <3>3. \A r \in DOMAIN runs : runs[r].review # v
      BY <1>0, <2>1, <3>1 DEF ReviewClaims, Unclaimed
    <3>. QED
      BY <1>0, <2>2, <2>5, <3>1, <3>2, <3>3, LinksUnique DEF IInv, ReviewClaims, Kept, StoreStep
  <2>. QED
    BY <1>1, <2>6, <2>7 DEF ReviewClaim
<1>2. CASE ReviewLink
  <2>1. /\ pc = "link" /\ pc' = "launch"
        /\ cur.run \in DOMAIN runs /\ cur.review \in DOMAIN reviews
        /\ SetRunReview(cur.run, cur.review)
        /\ UNCHANGED <<queue, desk, scan, cur, left, stop, wrapper, callers, budget>>
    BY <1>0, <1>2 DEF ReviewLink, DeskOK
  <2>2. /\ StoreStep /\ DOMAIN runs' = DOMAIN runs
        /\ \A q \in DOMAIN runs :
             runs'[q].review = IF q = cur.run THEN cur.review ELSE runs[q].review
    BY <1>0, <2>1, SetRunReviewKept
  <2>3. reviews' = reviews
    BY <2>1 DEF SetRunReview
  <2>4. DeskOK'
    BY <1>0, <2>1, <2>2, <2>3 DEF DeskOK
  <2>5. Parts'
    BY <1>0, <2>1, <2>2, <2>4, Frames DEF Parts, StoreStep, callers
  <2>6. /\ reviews[cur.review].status # "pending"
        /\ \A q \in DOMAIN runs : runs[q].review # cur.review
    BY <1>0, <2>1 DEF ReviewClaims
  <2>7. ReviewRunUnique'
    BY <1>0, <2>2, <2>6 DEF ReviewClaims, ReviewRunUnique
  <2>8. \A v \in DOMAIN reviews' : Unclaimed(v)'
    BY <1>0, <2>2, <2>3, <2>6 DEF ReviewClaims, Unclaimed
  <2>. QED
    BY <2>1, <2>2, <2>5, <2>7, <2>8 DEF IInv, ReviewClaims, StoreStep
<1>. QED
  BY <1>1, <1>2

\* The owner stop, once it holds the lock, keeps the invariant.
LEMMA StopKeeps ==
  ASSUME IInv, Stop
  PROVE  IInv' /\ FinalStep
<1>0. Parts /\ LedgerOK /\ DeskOK /\ StopOK /\ WrapperOK
  BY DEF IInv, Parts
<1>1. CASE StopKill
  <2>1. Kept /\ UNCHANGED <<runs, reviews>>
    BY <1>0, <1>1, LedgerStutter DEF StopKill, ledger
  <2>2. stop.task \in Tasks /\ stop.run \in DOMAIN runs
        /\ stop.review \in {0} \cup DOMAIN reviews
    BY <1>0, <1>1 DEF StopKill, StopOK
  <2>3. DeskOK' /\ UNCHANGED callers /\ UNCHANGED budget
    BY <1>0, <1>1, <2>1, <2>2 DEF StopKill, DeskOK
  <2>4. WrapperOK'
    BY <1>0, <1>1, <2>1 DEF StopKill, WrapperOK
  <2>5. StopOK'
    BY <1>0, <1>1, <2>1 DEF StopKill, StopOK
  <2>6. pc' = "killed"
    BY <1>1 DEF StopKill
  <2>. QED
    BY <2>1, <2>3, <2>4, <2>5, <2>6, DeskStep
<1>2. CASE StopFinishRun
  <2>1. Kept
    BY <1>0, <1>2, FinishKept DEF StopFinishRun, DeskOK
  <2>2. DOMAIN runs \subseteq DOMAIN runs' /\ DOMAIN reviews \subseteq DOMAIN reviews'
    BY <2>1 DEF Kept, StoreStep, Grown
  <2>3. /\ DeskOK' /\ UNCHANGED <<stop, wrapper, callers>> /\ UNCHANGED budget
        /\ pc' = "stalled"
    BY <1>0, <1>2, <2>2 DEF StopFinishRun, DeskOK
  <2>4. StopOK' /\ WrapperOK'
    BY <1>0, <2>1, <2>3, Frames DEF Kept
  <2>. QED
    BY <2>1, <2>3, <2>4, DeskStep
<1>3. CASE StopRequeue
  <2>1. Kept
    BY <1>0, <1>3, TaskMovesKept, LedgerStutter DEF StopRequeue, DeskOK
  <2>2. DOMAIN runs \subseteq DOMAIN runs' /\ DOMAIN reviews \subseteq DOMAIN reviews'
    BY <2>1 DEF Kept, StoreStep, Grown
  <2>3. /\ DeskOK' /\ UNCHANGED <<wrapper, callers>> /\ UNCHANGED budget
        /\ pc' = "idle" /\ stop' = NoStop
    BY <1>0, <1>3, <2>2 DEF StopRequeue, DeskOK, NoCur
  <2>4. WrapperOK'
    BY <1>0, <2>1, <2>3, Frames DEF Kept
  <2>5. StopOK'
    BY <2>3 DEF StopOK, NoStop
  <2>. QED
    BY <2>1, <2>3, <2>4, <2>5, DeskStep
<1>. QED
  BY <1>1, <1>2, <1>3 DEF Stop

-----------------------------------------------------------------------------
(* The owner, the answers, the wrappers and the callers *)

\* What a step outside the lock still has to show.
LEMMA OtherStep ==
  ASSUME IInv, Kept, UNCHANGED tick, StopOK', WrapperOK', AnswerOK', CallsOK',
         Fault \/ OwnerOp \/ Crash \/ UNCHANGED budget
  PROVE  IInv' /\ FinalStep
<1>1. Parts /\ ReviewClaims /\ StoreStep /\ BudgetOK
  BY DEF IInv, Kept, Parts
<1>2. DeskOK'
  BY <1>1, Frames
<1>3. BudgetOK'
  BY <1>1, BudgetSteps
<1>4. LedgerOK'
  BY <1>1 DEF StoreStep
<1>5. ReviewClaims'
  BY <1>1, ClaimsKept DEF tick
<1>. QED
  BY <1>1, <1>2, <1>3, <1>4, <1>5 DEF IInv, Parts, StoreStep

\* The owner's actions keep the invariant.
LEMMA OwnerKeeps ==
  ASSUME IInv, Owner
  PROVE  IInv' /\ FinalStep
<1>0. Parts /\ LedgerOK /\ StopOK /\ WrapperOK /\ AnswerOK /\ CallsOK
  BY DEF IInv, Parts
<1>1. ASSUME NEW t \in Tasks, NEW keep \in BOOLEAN, StopRead(t, keep)
      PROVE  IInv' /\ FinalStep
  <2>1. Kept /\ UNCHANGED <<runs, reviews>>
    BY <1>0, <1>1, LedgerStutter DEF StopRead, ledger
  <2>2. PICK r \in DOMAIN runs :
          stop' = [phase |-> "waiting", task |-> t, run |-> r,
                   pid |-> runs[r].pid, review |-> runs[r].review,
                   keep |-> keep]
    BY <1>1 DEF StopRead, RunningRuns
  <2>3. runs[r].pid \in Nat /\ runs[r].review \in {0} \cup DOMAIN reviews
    BY <1>0, RowType
  <2>4. StopOK'
    BY <2>1, <2>2, <2>3 DEF StopOK
  <2>5. WrapperOK' /\ AnswerOK' /\ CallsOK'
    BY <1>0, <1>1, <2>1, Frames DEF StopRead, callers, Kept
  <2>. QED
    BY <1>1, <2>1, <2>4, <2>5, OtherStep DEF StopRead
<1>2. ASSUME NEW t \in Tasks, OwnerEdit(t)
      PROVE  IInv' /\ FinalStep
  <2>1. Kept
    BY <1>0, <1>2, TaskMovesKept, EditGateKept, VerdictsKept DEF OwnerEdit
  <2>2. UNCHANGED <<tick, stop, wrapper, callers>> /\ OwnerOp
    BY <1>2 DEF OwnerEdit
  <2>3. StopOK' /\ WrapperOK' /\ AnswerOK' /\ CallsOK'
    BY <1>0, <2>1, <2>2, Frames DEF callers, Kept
  <2>. QED
    BY <2>1, <2>2, <2>3, OtherStep
<1>3. ASSUME NEW t \in Tasks, OwnerClose(t) \/ OwnerWaive(t) \/ OwnerVerdict(t)
      PROVE  IInv' /\ FinalStep
  <2>1. Kept
    BY <1>0, <1>3, VerdictsKept
    DEF OwnerClose, OwnerWaive, OwnerVerdict, ReviewVerdict
  <2>2. UNCHANGED <<tick, stop, wrapper, answer, resumed>> /\ OwnerOp
    BY <1>3 DEF OwnerClose, OwnerWaive, OwnerVerdict, ReviewVerdict
  <2>3. CallsOK'
    BY <1>0, <1>3
    DEF OwnerClose, OwnerWaive, OwnerVerdict, ReviewVerdict, CallsOK, LandCall,
        PromoteCall
  <2>4. StopOK' /\ WrapperOK' /\ AnswerOK'
    BY <1>0, <2>1, <2>2, Frames DEF Kept
  <2>. QED
    BY <2>1, <2>2, <2>3, <2>4, OtherStep
<1>4. ASSUME NEW r \in RunIds, Answer(r)
      PROVE  IInv' /\ FinalStep
  <2>1. Kept
    BY <1>0, <1>4, ResumeKept DEF Answer
  <2>2. UNCHANGED <<tick, stop, wrapper, landing, promoting>> /\ OwnerOp
    BY <1>4 DEF Answer
  <2>3. DOMAIN runs \subseteq DOMAIN runs'
    BY <2>1 DEF Kept, StoreStep, Grown
  <2>4. AnswerOK'
    BY <1>0, <1>4, <2>3 DEF Answer, AnswerOK
  <2>5. StopOK' /\ WrapperOK' /\ CallsOK'
    BY <1>0, <2>1, <2>2, Frames DEF Kept
  <2>. QED
    BY <2>1, <2>2, <2>4, <2>5, OtherStep
<1>. QED
  BY <1>1, <1>2, <1>3, <1>4 DEF Owner

\* A wrapper changes state: what is left to show of it.
LEMMA WrapperMoves ==
  ASSUME Parts, StoreStep, NEW r \in RunIds, r \in DOMAIN runs,
         NEW to \in {"none", "boot", "agent", "done", "blocked", "failed",
                    "zombie"},
         NEW p \in Nat,
         wrapper' = [wrapper EXCEPT ![r] = [state |-> to, pid |-> p]],
         to \in {"done", "blocked", "failed"} => runs[r].review # 0
  PROVE  WrapperOK'
<1>1. /\ DOMAIN runs \subseteq DOMAIN runs'
      /\ \A q \in DOMAIN runs : runs[q].review # 0 => runs'[q].review # 0
  BY DEF StoreStep, Grown
<1>2. WrapperOK
  BY DEF Parts
<1>. QED
  BY <1>1, <1>2 DEF WrapperOK

\* The steps of an answer keep the invariant.
LEMMA ResumingKeeps ==
  ASSUME IInv, NEW r \in RunIds, Resuming(r)
  PROVE  IInv' /\ FinalStep
<1>0. Parts /\ LedgerOK /\ StopOK /\ WrapperOK /\ AnswerOK /\ CallsOK
  BY DEF IInv, Parts
<1>1. r \in DOMAIN runs /\ wrapper[r].pid \in Nat
  BY <1>0
  DEF Resuming, AnswerSpawn, AnswerRecordPid, AnswerSetupFails,
      AnswerSpawnFails, AnswerSpawnFailed, AnswerStep, AnswerOK, WrapperOK
<1>2. Kept
  <2>1. CASE UNCHANGED ledger
    BY <1>0, <2>1, LedgerStutter
  <2>2. CASE FailRun(r) \/ FinishRun(r, "failed")
    BY <1>0, <1>1, <2>2, FinishKept
  <2>3. CASE SetRunPid(r, wrapper[r].pid)
    BY <1>0, <1>1, <2>3, SetRunPidKept
  <2>4. CASE CompleteRun(runs[r].task, "failed")
    BY <1>0, <1>1, <2>4, RowType, TaskMovesKept DEF TaskStatus
  <2>. QED
    BY <2>1, <2>2, <2>3, <2>4
    DEF Resuming, AnswerSpawn, AnswerRecordPid, AnswerSetupFails,
        AnswerSpawnFails, AnswerSpawnFailed
<1>3. PICK to \in {"none", "spawned", "unspawned"} : AnswerStep(r, answer[r], to)
  BY DEF Resuming, AnswerSpawn, AnswerRecordPid, AnswerSetupFails,
         AnswerSpawnFails, AnswerSpawnFailed, AnswerStep
<1>4. Fault \/ UNCHANGED budget
  BY DEF Resuming, AnswerSpawn, AnswerRecordPid, AnswerSetupFails,
         AnswerSpawnFails, AnswerSpawnFailed
<1>5. DOMAIN runs \subseteq DOMAIN runs'
  BY <1>2 DEF Kept, StoreStep, Grown
<1>6. AnswerOK'
  BY <1>0, <1>1, <1>3, <1>5 DEF AnswerStep, AnswerOK
<1>7. WrapperOK'
  <2>1. CASE UNCHANGED wrapper
    BY <1>0, <1>2, <2>1, Frames DEF Kept
  <2>2. CASE AnswerSpawn(r)
    <3>1. wrapper' = [wrapper EXCEPT ![r] =
                        [state |-> "boot", pid |-> wrapper[r].pid + 1]]
      BY <2>2 DEF AnswerSpawn, Spawned
    <3>2. wrapper[r].pid + 1 \in Nat
      BY <1>1
    <3>. QED
      BY <1>0, <1>1, <1>2, <3>1, <3>2, WrapperMoves DEF Kept
  <2>. QED
    BY <2>1, <2>2
    DEF Resuming, AnswerRecordPid, AnswerSetupFails, AnswerSpawnFails,
        AnswerSpawnFailed
<1>8. UNCHANGED tick /\ StopOK' /\ CallsOK'
  BY <1>0, <1>2, <1>3, Frames DEF AnswerStep, Kept
<1>. QED
  BY <1>2, <1>4, <1>6, <1>7, <1>8, OtherStep

\* The steps of a wrapper keep the invariant.
LEMMA WrapperKeeps ==
  ASSUME IInv, NEW r \in RunIds, Wrapper(r)
  PROVE  IInv' /\ FinalStep
<1>0. Parts /\ LedgerOK /\ StopOK /\ WrapperOK /\ AnswerOK /\ CallsOK
  BY DEF IInv, Parts
<1>1. /\ r \in DOMAIN runs /\ wrapper[r].pid \in Nat
      /\ wrapper[r].state \in {"done", "blocked", "failed"} => runs[r].review # 0
  <2>1. wrapper[r].state # "none"
    BY DEF Wrapper, Boot, BriefUnreadable, CloseReview, Reap, FinalizeWork,
           FinalizeReview, WrapperStep
  <2>. QED
    BY <1>0, <2>1 DEF WrapperOK
<1>2. runs[r].task \in Tasks /\ runs[r].review \in {0} \cup DOMAIN reviews
  BY <1>0, <1>1, RowType
<1>3. Kept
  <2>1. CASE Boot(r) \/ Reap(r)
    BY <1>0, <2>1, LedgerStutter DEF Boot, Reap
  <2>2. CASE BriefUnreadable(r)
    BY <1>0, <1>1, <2>2, FinishKept DEF BriefUnreadable
  <2>3. CASE CloseReview(r)
    <3>1. wrapper[r].state \in {"done", "blocked", "failed"}
      BY <2>3 DEF CloseReview, WrapperStep
    <3>2. PICK s \in {"failed", "blocked", "reviewed"} :
            CloseReviewRun(runs[r].review, s)
      BY <2>3, <3>1 DEF CloseReview
    <3>3. runs[r].review \in DOMAIN reviews
      BY <1>1, <1>2, <3>1
    <3>. QED
      BY <1>0, <3>2, <3>3, ReviewMovesKept
  <2>4. ASSUME NEW report \in {"done", "manual", "blocked", "failed", "dirty"},
               FinalizeWork(r, report)
        PROVE  Kept
    BY <1>0, <1>1, <2>4, RecordCompletionKept DEF FinalizeWork
  <2>5. ASSUME NEW report \in {"done", "blocked", "failed"},
               FinalizeReview(r, report)
        PROVE  Kept
    BY <1>0, <1>1, <2>5, FinishKept DEF FinalizeReview
  <2>. QED
    BY <2>1, <2>2, <2>3, <2>4, <2>5 DEF Wrapper
<1>4. PICK to \in {"none", "agent", "done", "blocked", "failed"} :
        /\ wrapper' = [wrapper EXCEPT ![r] = [state |-> to, pid |-> wrapper[r].pid]]
        /\ UNCHANGED <<tick, stop, answer, landing, resumed>>
        /\ to \in {"done", "blocked", "failed"} => runs[r].review # 0
  <2>1. ASSUME NEW from, NEW to, WrapperStep(r, from, to)
        PROVE  /\ wrapper' = [wrapper EXCEPT ![r] =
                                [state |-> to, pid |-> wrapper[r].pid]]
               /\ UNCHANGED <<tick, stop, answer, landing, resumed>>
    <3>1. wrapper[r] \in [state : {"none", "boot", "agent", "done", "blocked",
                                  "failed", "zombie"}, pid : Nat]
      BY <1>0 DEF WrapperOK
    <3>2. [wrapper[r] EXCEPT !.state = to] = [state |-> to, pid |-> wrapper[r].pid]
      BY <3>1
    <3>. QED
      BY <2>1, <3>2 DEF WrapperStep
  <2>2. CASE Boot(r) \/ BriefUnreadable(r) \/ CloseReview(r)
    BY <2>1, <2>2 DEF Boot, BriefUnreadable, CloseReview
  <2>3. CASE \E report \in {"done", "manual", "blocked", "failed", "dirty"} :
               FinalizeWork(r, report)
    BY <2>1, <2>3 DEF FinalizeWork
  <2>4. CASE \E report \in {"done", "blocked", "failed"} :
               FinalizeReview(r, report)
    BY <2>1, <2>4 DEF FinalizeReview
  <2>5. CASE Reap(r)
    <3>1. wrapper[r] \in [state : {"none", "boot", "agent", "done", "blocked",
                                  "failed", "zombie"}, pid : Nat]
      BY <1>0 DEF WrapperOK
    <3>2. [wrapper[r] EXCEPT !.state = "none"]
            = [state |-> "none", pid |-> wrapper[r].pid]
      BY <3>1
    <3>. QED
      BY <2>5, <3>2 DEF Reap, callers
  <2>. QED
    BY <2>2, <2>3, <2>4, <2>5 DEF Wrapper
<1>5. WrapperOK'
  BY <1>0, <1>1, <1>3, <1>4, WrapperMoves DEF Kept
<1>6. CallsOK'
  BY <1>0, <1>2, <1>4
  DEF Wrapper, Boot, BriefUnreadable, CloseReview, Reap, FinalizeWork,
      FinalizeReview, CallsOK, PromoteCall, callers
<1>7. Fault \/ UNCHANGED budget
  BY DEF Wrapper, Boot, BriefUnreadable, CloseReview, Reap, FinalizeWork,
         FinalizeReview
<1>8. UNCHANGED tick /\ StopOK' /\ AnswerOK'
  BY <1>0, <1>3, <1>4, Frames DEF Kept
<1>. QED
  BY <1>3, <1>5, <1>6, <1>7, <1>8, OtherStep

\* Questions and verdicts from inside an agent's session keep the invariant.
LEMMA AgentKeeps ==
  ASSUME IInv, NEW r \in RunIds, Agent(r)
  PROVE  IInv' /\ FinalStep
<1>0. Parts /\ LedgerOK /\ WrapperOK /\ CallsOK
  BY DEF IInv, Parts
<1>1. r \in DOMAIN runs /\ runs[r].task \in Tasks
  BY <1>0, RowType DEF Agent, Question, Verdict
<1>2. Kept
  BY <1>0, <1>1, NoteQuestionKept, VerdictsKept
  DEF Agent, Question, Verdict, ReviewVerdict
<1>3. UNCHANGED <<tick, stop, wrapper, answer, resumed>> /\ UNCHANGED budget
  BY DEF Agent, Question, Verdict, ReviewVerdict, callers
<1>4. CallsOK'
  BY <1>0, <1>1
  DEF Agent, Question, Verdict, ReviewVerdict, callers, CallsOK, LandCall
<1>5. StopOK' /\ WrapperOK' /\ AnswerOK'
  BY <1>0, <1>2, <1>3, Frames DEF Kept
<1>. QED
  BY <1>2, <1>3, <1>4, <1>5, OtherStep

\* Landing and promoting keep the invariant.
LEMMA CallerKeeps ==
  ASSUME IInv, NEW t \in Tasks, Caller(t)
  PROVE  IInv' /\ FinalStep
<1>0. Parts /\ LedgerOK /\ CallsOK
  BY DEF IInv, Parts
<1>1. Kept
  BY <1>0, TaskMovesKept, LedgerStutter DEF Caller, Land, Promote
<1>2. UNCHANGED <<tick, stop, wrapper, answer, resumed>> /\ UNCHANGED budget
  BY DEF Caller, Land, Promote
<1>3. CallsOK'
  BY <1>0 DEF Caller, Land, Promote, CallsOK, PromoteCall
<1>4. StopOK' /\ WrapperOK' /\ AnswerOK'
  BY <1>0, <1>1, <1>2, Frames DEF Kept
<1>. QED
  BY <1>1, <1>2, <1>3, <1>4, OtherStep

\* A crash takes a process away and leaves the store alone.
LEMMA CrashKeeps ==
  ASSUME IInv, Crashing
  PROVE  IInv' /\ FinalStep
<1>0. Parts /\ LedgerOK /\ WrapperOK /\ CallsOK /\ AnswerOK /\ BudgetOK
  BY DEF IInv, Parts
<1>1. Crash /\ UNCHANGED ledger
  BY DEF Crashing, ServiceCrash, TickAborts, CallerCrash, WrapperCrash
<1>2. Kept /\ UNCHANGED <<runs, reviews>>
  BY <1>0, <1>1, LedgerStutter DEF ledger
<1>3. CASE ServiceCrash
  <2>1. DeskOK' /\ StopOK'
    BY <1>3 DEF ServiceCrash, DeskOK, StopOK, NoCur, NoStop
  <2>2. AnswerOK'
    BY <1>0, <1>2, <1>3 DEF ServiceCrash, AnswerOK
  <2>3. WrapperOK'
    BY <1>0, <1>2, <1>3 DEF ServiceCrash, WrapperOK, Working
  <2>4. CallsOK' /\ BudgetOK' /\ pc' = "idle"
    BY <1>0, <1>1, <1>2, <1>3, Frames, BudgetSteps DEF ServiceCrash, Kept
  <2>. QED
    BY <1>0, <1>2, <2>1, <2>2, <2>3, <2>4, ClaimsKept
    DEF IInv, Parts, Kept, StoreStep
<1>4. CASE TickAborts
  <2>1. DeskOK' /\ pc' = "idle"
    BY <1>4 DEF TickAborts, DeskOK, NoCur
  <2>2. StopOK' /\ WrapperOK' /\ AnswerOK' /\ CallsOK' /\ BudgetOK'
    BY <1>0, <1>1, <1>2, <1>4, Frames, BudgetSteps DEF TickAborts, Kept, callers
  <2>. QED
    BY <1>0, <1>2, <2>1, <2>2, ClaimsKept DEF IInv, Parts, Kept, StoreStep
<1>5. CASE \E t \in Tasks : CallerCrash(t)
  <2>1. UNCHANGED <<tick, stop, wrapper, answer, resumed>> /\ CallsOK'
    BY <1>0, <1>5 DEF CallerCrash, CallsOK
  <2>2. StopOK' /\ WrapperOK' /\ AnswerOK'
    BY <1>0, <1>2, <2>1, Frames DEF Kept
  <2>. QED
    BY <1>1, <1>2, <2>1, <2>2, OtherStep
<1>6. CASE \E r \in RunIds : WrapperCrash(r)
  <2>1. UNCHANGED <<tick, stop, answer, landing, promoting, resumed>>
    BY <1>6 DEF WrapperCrash, callers
  <2>2. WrapperOK'
    BY <1>0, <1>2, <1>6 DEF WrapperCrash, WrapperOK, Working
  <2>3. StopOK' /\ CallsOK' /\ AnswerOK'
    BY <1>0, <1>2, <2>1, Frames DEF Kept
  <2>. QED
    BY <1>1, <1>2, <2>1, <2>2, <2>3, OtherStep
<1>. QED
  BY <1>3, <1>4, <1>5, <1>6 DEF Crashing

-----------------------------------------------------------------------------
(* The invariant *)

\* It holds initially.
LEMMA InitHolds == Init => IInv
<1>. SUFFICES ASSUME Init PROVE IInv
  OBVIOUS
<1>1. tasks \in [Tasks -> TaskRow]
  <2>1. PICK gated \in SUBSET Tasks :
          tasks = [t \in Tasks |->
            [status |-> IF t \notin Released THEN "planned"
                        ELSE IF t \in gated \/ ~ (\A p \in Tasks : <<t, p>> \notin Deps)
                               THEN "waiting_approval" ELSE "ready",
             gate |-> t \in gated, reworks |-> 0]]
    BY DEF Init
  <2>2. \A s \in {"planned", "waiting_approval", "ready"}, t \in Tasks :
          [status |-> s, gate |-> t \in gated, reworks |-> 0] \in TaskRow
    <3>1. \A t \in Tasks : (t \in gated) \in BOOLEAN
      OBVIOUS
    <3>2. /\ \A s \in {"planned", "waiting_approval", "ready"} : s \in TaskStatus
          /\ 0 \in Nat
      BY DEF TaskStatus
    <3>. QED
      BY <3>1, <3>2, Zenon DEF TaskRow
  <2>. QED
    BY <2>1, <2>2
<1>2. /\ runs = <<>> /\ reviews = <<>> /\ asked = {}
      /\ DOMAIN runs = {} /\ DOMAIN reviews = {}
  BY DEF Init
<1>3. LedgerOK
  BY <1>1, <1>2, LedgerAssumption DEF LedgerOK
<1>4. DeskOK /\ StopOK /\ CallsOK
  BY <1>2 DEF Init, DeskOK, StopOK, CallsOK, NoCur, NoStop
<1>5. WrapperOK /\ AnswerOK
  BY <1>2 DEF Init, WrapperOK, AnswerOK
<1>6. BudgetOK
  BY EngineAssumption DEF Init, BudgetOK
<1>7. ReviewClaims
  BY <1>2 DEF Init, ReviewClaims, ReviewRunUnique
<1>. QED
  BY <1>3, <1>4, <1>5, <1>6, <1>7 DEF IInv, Parts

\* Every step keeps it.
LEMMA NextKeeps == IInv /\ [Next]_vars => IInv' /\ FinalStep
<1>. SUFFICES ASSUME IInv, [Next]_vars PROVE IInv' /\ FinalStep
  OBVIOUS
<1>1. CASE Tick
  BY <1>1, WorkKeeps, ScanKeeps, ReviewKeeps DEF Tick
<1>2. CASE Stop
  BY <1>2, StopKeeps
<1>3. CASE Owner
  BY <1>3, OwnerKeeps
<1>4. CASE Crashing
  BY <1>4, CrashKeeps
<1>5. CASE \E r \in RunIds : Resuming(r) \/ Wrapper(r) \/ Agent(r)
  BY <1>5, ResumingKeeps, WrapperKeeps, AgentKeeps
<1>6. CASE \E t \in Tasks : Caller(t)
  BY <1>6, CallerKeeps
<1>7. CASE UNCHANGED vars
  BY <1>7 DEF vars, ledger, tick, callers, budget, IInv, Parts, LedgerOK,
              DeskOK, StopOK, WrapperOK, AnswerOK, CallsOK, BudgetOK,
              ReviewClaims, ReviewRunUnique, Unclaimed, FinalStep
<1>. QED
  BY <1>1, <1>2, <1>3, <1>4, <1>5, <1>6, <1>7 DEF Next

\* Whatever ticks, stops, answers, verdicts and crashes interleave, the
\* strengthened invariant holds.
THEOREM Invariant == Spec => []IInv
<1>1. Init => IInv
  BY InitHolds
<1>2. IInv /\ [Next]_vars => IInv'
  BY NextKeeps
<1>. QED
  BY <1>1, <1>2, PTL DEF Spec

\* Every row of the store and every process state keeps its type.
THEOREM TypeCorrect == Spec => []TypeOK
<1>1. IInv => TypeOK
  BY PartsAreTypes DEF IInv
<1>. QED
  BY <1>1, Invariant, PTL

\* No review is ever executed by two runs: claim_review moves it out of
\* 'pending' before the run that set_run_review links to it exists.
THEOREM OneRunPerReview == Spec => []ReviewRunUnique
<1>1. IInv => ReviewRunUnique
  BY DEF IInv, ReviewClaims
<1>. QED
  BY <1>1, Invariant, PTL

\* A run's final status is final, but for a blocked run that an answer reopens
\* while it is the newest of its task: late completions, liveness verdicts,
\* stops and failed launches all write through finish_run's status guard.
THEOREM FinalStatusIsFinal == Spec => RunFinality
<1>1. IInv /\ [Next]_vars => [FinalStep]_vars
  BY NextKeeps
<1>. QED
  BY <1>1, Invariant, PTL DEF Spec, RunFinality
=============================================================================
